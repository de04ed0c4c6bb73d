--------------------------- MODULE EvidenceProofs ---------------------------
(***************************************************************************)
(* Proofs about the parts of EvidenceParts: the correction of the proof,   *)
(* the ingestion of the dataset, the audit of its readiness and the        *)
(* verification of the proof bundle.  Each part has an inductive invariant *)
(* of its own, which says nothing while another part runs; the four follow *)
(* one another below, each ending in its theorem.                          *)
(***************************************************************************)
EXTENDS EvidenceParts, FiniteSetTheorems, SequenceTheorems, TLAPS

(***************************************************************************)
(* ProofCorrection.                                                        *)
(***************************************************************************)

Correcting == {"consume", "record", "verify", "recheck", "publish"}
Holding == {"record", "verify", "recheck", "publish"}

(* A corrector past the check of the authority has a committed key to hold   *)
(* its own against, and past the check of the signer it holds that key.      *)
Signed ==
  /\ at = [p \in Correction!Processes |-> at[p]]
  /\ held = [p \in Correction!Processes |-> held[p]]
  /\ \A p \in Correctors : at[p] \notin {"start", "failed", "done"} => selected # Correction!Absent
  /\ \A p \in Correction!Processes : at[p] \in Correcting =>
       p \in Correctors /\ selected # Correction!Absent /\ held[p] = selected

(* What the receipt is, and who has verified the proof under it.             *)
Formed ==
  \/ receipt = Correction!NoReceipt /\ verified = {}
  \/ receipt = [kind |-> "empty"] /\ verified = {}
  \/ /\ receipt = [kind |-> "consumption", by |-> receipt.by, signer |-> receipt.signer]
     /\ verified \subseteq {receipt.by}
  \/ /\ receipt = [kind |-> "final", by |-> receipt.by, signer |-> receipt.signer]
     /\ verified = {receipt.by} /\ receipt.signer = selected /\ selected # Correction!Absent

(* What the receipt is for a process between its creation and its last form. *)
HolderSees(p) ==
  /\ at[p] = "record" => receipt = [kind |-> "empty"]
  /\ at[p] \in {"verify", "recheck", "publish"} =>
       receipt = [kind |-> "consumption", by |-> p, signer |-> held[p]]
  /\ at[p] \in {"recheck", "publish"} => verified = {p}

Held ==
  /\ Formed
  /\ \A p \in Correction!Processes : HolderSees(p)
  /\ \A p, q \in Correction!Processes : at[p] \in Holding /\ at[q] \in Holding => p = q

CorrectionInv ==
  /\ part = "correction" => Signed /\ Held
  /\ part # "correction" => receipt = [kind |-> "absent"]

LEMMA InitCorrection == PartsInit => CorrectionInv
<1> SUFFICES ASSUME PartsInit PROVE CorrectionInv
  OBVIOUS
<1>1. CASE part = "correction"
  <2>1. Correction!Init
    BY <1>1 DEF PartsInit
  <2>2. /\ at = [p \in Correction!Processes |-> IF p \in Correctors THEN "start" ELSE "key"]
        /\ held = [p \in Correction!Processes |-> Correction!Absent]
        /\ receipt = Correction!NoReceipt /\ verified = {}
    BY <2>1 DEF Correction!Init
  <2>3. \A p \in Correction!Processes : at[p] \in {"start", "key"} /\ (p \in Correctors => at[p] = "start")
    BY <2>2
  <2>4. Correctors \subseteq Correction!Processes
    BY DEF Correction!Processes
  <2>5. Signed
    BY <2>2, <2>3, <2>4 DEF Signed, Correcting
  <2>6. Held
    BY <2>2, <2>3 DEF Held, Formed, HolderSees, Holding
  <2> QED
    BY <1>1, <2>5, <2>6 DEF CorrectionInv
<1>2. CASE part # "correction"
  BY <1>2 DEF PartsInit, CorrectionRests, CorrectionInv
<1> QED
  BY <1>1, <1>2

(* A step of one process that moves it and leaves the receipt.               *)
LEMMA MoveCorrection ==
  ASSUME Signed, Held, NEW p \in Correction!Processes, NEW next, NEW k,
         at' = [at EXCEPT ![p] = next], held' = [held EXCEPT ![p] = k] \/ held' = held,
         UNCHANGED <<selected, receipt, verified>>,
         at[p] \notin Holding \/ next = "failed",
         next \notin Holding,
         p \in Correctors /\ next \notin {"start", "failed", "done"} => selected # Correction!Absent,
         next = "consume" => p \in Correctors /\ held'[p] = selected
  PROVE  Signed' /\ Held'
<1>1. /\ at'[p] = next /\ \A q \in Correction!Processes : q # p => at'[q] = at[q] /\ held'[q] = held[q]
      /\ at' = [q \in Correction!Processes |-> at'[q]]
      /\ held' = [q \in Correction!Processes |-> held'[q]]
  BY DEF Signed
<1>2. Correctors \subseteq Correction!Processes
  BY DEF Correction!Processes
<1>3. Signed'
  BY <1>1, <1>2 DEF Signed, Correcting, Holding
<1>4. Held'
  BY <1>1 DEF Held, Formed, HolderSees, Holding
<1> QED
  BY <1>3, <1>4

LEMMA KeyCorrection ==
  ASSUME Signed, Held, NEW p \in Correction!Processes,
         \/ Correction!CreateKey(p) \/ Correction!FillKey(p) \/ Correction!ReadKey(p)
         \/ Correction!CheckAnchor(p) \/ Correction!WriteAnchor(p)
  PROVE  Signed' /\ Held'
<1>1. CASE Correction!CreateKey(p)
  BY <1>1, MoveCorrection DEF Correction!CreateKey, Correction!Go, Holding, Signed
<1>2. CASE Correction!FillKey(p)
  BY <1>2, MoveCorrection DEF Correction!FillKey, Correction!Go, Holding, Signed
<1>3. CASE Correction!ReadKey(p)
  BY <1>3, MoveCorrection DEF Correction!ReadKey, Correction!Fail, Correction!Go, Holding, Signed
<1>4. CASE Correction!CheckAnchor(p)
  BY <1>4, MoveCorrection DEF Correction!CheckAnchor, Correction!Go, Holding, Signed
<1>5. CASE Correction!WriteAnchor(p)
  BY <1>5, MoveCorrection DEF Correction!WriteAnchor, Correction!Go, Holding, Signed
<1> QED
  BY <1>1, <1>2, <1>3, <1>4, <1>5

LEMMA FailCorrection ==
  ASSUME Signed, Held, NEW p \in Correction!Processes,
         \/ Correction!Crash(p) \/ Correction!Retry(p)
         \/ Correction!CheckAuthority(p) \/ Correction!CheckSigner(p)
  PROVE  Signed' /\ Held'
<1>1. CASE Correction!Crash(p)
  BY <1>1, MoveCorrection DEF Correction!Crash, Correction!Fail, Correction!Go, Holding, Signed
<1>2. CASE Correction!Retry(p)
  BY <1>2, MoveCorrection DEF Correction!Retry, Correction!Go, Holding, Signed
<1>3. CASE Correction!CheckAuthority(p)
  BY <1>3, MoveCorrection DEF Correction!CheckAuthority, Correction!Trusted, Correction!Fail, Correction!Go, Holding, Signed
<1>4. CASE Correction!CheckSigner(p)
  BY <1>4, MoveCorrection DEF Correction!CheckSigner, Correction!Go, Holding, Signed
<1> QED
  BY <1>1, <1>2, <1>3, <1>4

(* The steps of the process that holds the receipt, or takes it: no other    *)
(* process holds it before or after.                                         *)
LEMMA ReceiptCorrection ==
  ASSUME Signed, Held, NEW p \in Correction!Processes,
         \/ Correction!Consume(p) \/ Correction!Record(p) \/ Correction!Verify(p)
         \/ Correction!Recheck(p) \/ Correction!Publish(p)
  PROVE  Signed' /\ Held'
<1>1. PICK next : /\ at' = [at EXCEPT ![p] = next]
                  /\ next = "failed" \/ (at[p] = "publish" /\ next = "done")
                       \/ (at[p] # "publish" /\ next \in Holding)
  BY DEF Correction!Consume, Correction!Record, Correction!Verify, Correction!Recheck,
         Correction!Publish, Correction!Fail, Correction!Go, Holding
<1>2. selected' = selected /\ held' = held /\ at[p] \in Correcting
  BY DEF Correction!Consume, Correction!Record, Correction!Verify, Correction!Recheck,
         Correction!Publish, Correcting
<1>3. /\ at'[p] = next /\ \A q \in Correction!Processes : q # p => at'[q] = at[q]
      /\ at' = [q \in Correction!Processes |-> at'[q]]
      /\ held[p] = selected /\ selected # Correction!Absent /\ p \in Correctors
  BY <1>1, <1>2 DEF Signed
<1>4. Signed'
  <2>1. Correctors \subseteq Correction!Processes
    BY DEF Correction!Processes
  <2> QED
    BY <1>1, <1>2, <1>3, <2>1 DEF Signed, Correcting, Holding
<1>5. CASE next = "failed" /\ receipt' = receipt /\ verified' = verified
  <2>1. \A q \in Correction!Processes : at'[q] = "failed" \/ at'[q] = at[q]
    BY <1>3, <1>5
  <2>2. Formed'
    BY <1>2, <1>5 DEF Held, Formed
  <2>3. \A q \in Correction!Processes : HolderSees(q)'
    BY <1>2, <1>5, <2>1 DEF Held, HolderSees
  <2>4. \A q, r \in Correction!Processes : at'[q] \in Holding /\ at'[r] \in Holding => q = r
    BY <2>1 DEF Held, Holding
  <2> QED
    BY <1>4, <2>2, <2>3, <2>4 DEF Held
<1>6. ASSUME \A q \in Correction!Processes : q # p => at[q] \notin Holding,
             Formed', HolderSees(p)'
      PROVE  Held'
  <2>1. \A q \in Correction!Processes : q # p => at'[q] \notin Holding
    BY <1>3, <1>6
  <2>2. \A q \in Correction!Processes : HolderSees(q)'
    BY <1>6, <2>1 DEF HolderSees, Holding
  <2> QED
    BY <1>6, <2>1, <2>2 DEF Held
<1>7. at[p] \in Holding => \A q \in Correction!Processes : q # p => at[q] \notin Holding
  BY DEF Held
<1>8. CASE Correction!Consume(p) /\ next # "failed"
  <2>1. receipt.kind = "absent" /\ receipt' = [kind |-> "empty"] /\ verified' = verified
        /\ next = "record"
    BY <1>1, <1>3, <1>8 DEF Correction!Consume, Correction!Fail, Correction!Go
  <2>2. verified = {}
    BY <2>1 DEF Held, Formed
  <2>3. \A q \in Correction!Processes : at[q] \notin Holding
    BY <2>1 DEF Held, HolderSees, Holding
  <2>4. Formed' /\ HolderSees(p)'
    BY <1>3, <2>1, <2>2 DEF Formed, HolderSees
  <2> QED
    BY <1>4, <1>6, <2>3, <2>4
<1>9. CASE Correction!Record(p)
  <2>1. at[p] = "record" /\ receipt' = [kind |-> "consumption", by |-> p, signer |-> held[p]]
        /\ verified' = verified /\ at'[p] = "verify"
    BY <1>3, <1>9 DEF Correction!Record, Correction!Consumption, Correction!Go, Signed
  <2>2. receipt.kind = "empty"
    BY <2>1 DEF Held, HolderSees
  <2>3. verified = {}
    BY <2>2 DEF Held, Formed, Correction!NoReceipt
  <2>4. Formed'
    BY <2>1, <2>3 DEF Formed
  <2>5. HolderSees(p)'
    BY <1>2, <2>1 DEF HolderSees
  <2> QED
    BY <1>4, <1>6, <1>7, <2>1, <2>4, <2>5 DEF Holding
<1>10. CASE Correction!Verify(p) /\ next # "failed"
  <2>1. at[p] = "verify" /\ receipt' = receipt /\ verified' = verified \cup {p} /\ at'[p] = "recheck"
    BY <1>1, <1>3, <1>10 DEF Correction!Verify, Correction!Fail, Correction!Go, Signed
  <2>2. receipt = [kind |-> "consumption", by |-> p, signer |-> held[p]]
    BY <2>1 DEF Held, HolderSees
  <2>3. receipt.kind = "consumption" /\ receipt.by = p /\ receipt.signer = held[p]
    BY <2>2
  <2>4. verified \subseteq {p}
    BY <2>3 DEF Held, Formed, Correction!NoReceipt
  <2>5. verified' = {p}
    BY <2>1, <2>4
  <2>6. Formed'
    BY <2>1, <2>2, <2>3, <2>5 DEF Formed
  <2>7. HolderSees(p)'
    BY <1>2, <2>1, <2>2, <2>5 DEF HolderSees
  <2> QED
    BY <1>4, <1>6, <1>7, <2>1, <2>6, <2>7 DEF Holding
<1>11. CASE Correction!Recheck(p) /\ next # "failed"
  <2>1. at[p] = "recheck" /\ receipt' = receipt /\ verified' = verified /\ at'[p] = "publish"
    BY <1>1, <1>3, <1>11 DEF Correction!Recheck, Correction!Go, Signed
  <2>2. Formed'
    BY <1>2, <2>1 DEF Held, Formed
  <2>3. HolderSees(p)'
    BY <1>2, <2>1 DEF Held, HolderSees
  <2> QED
    BY <1>4, <1>6, <1>7, <2>1, <2>2, <2>3 DEF Holding
<1>12. CASE Correction!Publish(p)
  <2>1. at[p] = "publish" /\ receipt' = [kind |-> "final", by |-> p, signer |-> held[p]]
        /\ verified' = verified /\ at'[p] = "done"
    BY <1>3, <1>12 DEF Correction!Publish, Correction!Final, Correction!Go, Signed
  <2>2. verified = {p}
    BY <2>1 DEF Held, HolderSees
  <2>3. Formed'
    BY <1>2, <1>3, <2>1, <2>2 DEF Formed
  <2>4. HolderSees(p)'
    BY <2>1 DEF HolderSees
  <2> QED
    BY <1>4, <1>6, <1>7, <2>1, <2>3, <2>4 DEF Holding
<1>13. \/ next = "failed" /\ receipt' = receipt /\ verified' = verified
       \/ next # "failed" \/ Correction!Record(p) \/ Correction!Publish(p)
  BY <1>3
  DEF Correction!Consume, Correction!Verify, Correction!Recheck, Correction!Go,
      Correction!Fail, Signed
<1> QED
  BY <1>5, <1>8, <1>9, <1>10, <1>11, <1>12, <1>13, <1>4

LEMMA NextCorrection == CorrectionInv /\ [PartsNext]_allVars => CorrectionInv'
<1> SUFFICES ASSUME CorrectionInv, [PartsNext]_allVars PROVE CorrectionInv'
  OBVIOUS
<1>0. part' = part
  BY DEF PartsNext, allVars, LedgerStep, IngestionStep, ReadinessStep, BundleStep,
         CorrectionStep, Ended
<1>1. CASE UNCHANGED correctionVars
  BY <1>0, <1>1 DEF correctionVars, CorrectionInv, Signed, Held, Formed, HolderSees
<1>2. CASE part = "correction" /\ Correction!Next
  <2>1. Signed /\ Held
    BY <1>2 DEF CorrectionInv
  <2>2. CASE Correction!Select \/ Correction!Edit \/ Correction!LoseKey
    <3>1. /\ UNCHANGED <<receipt, at, held, verified>>
          /\ \/ selected' = selected
             \/ selected = Correction!Absent /\ selected' # Correction!Absent
      BY <2>2 DEF Correction!Select, Correction!Edit, Correction!LoseKey
    <3>2. receipt.kind = "final" => selected # Correction!Absent
      BY <2>1 DEF Held, Formed, Correction!NoReceipt
    <3>3. \A p \in Correction!Processes : at[p] \in Correcting => selected # Correction!Absent
      BY <2>1 DEF Signed
    <3>4. Signed'
      BY <2>1, <3>1 DEF Signed
    <3>5. Formed'
      BY <2>1, <3>1, <3>2 DEF Held, Formed
    <3>6. \A p \in Correction!Processes : HolderSees(p)'
      BY <2>1, <3>1 DEF Held, HolderSees
    <3>7. Held'
      BY <2>1, <3>1, <3>5, <3>6 DEF Held
    <3> QED
      BY <1>0, <1>2, <3>4, <3>7 DEF CorrectionInv
  <2>3. CASE ~(Correction!Select \/ Correction!Edit \/ Correction!LoseKey)
    <3>1. Signed' /\ Held'
      BY <1>2, <2>1, <2>3, KeyCorrection, FailCorrection, ReceiptCorrection DEF Correction!Next
    <3> QED
      BY <1>0, <1>2, <3>1 DEF CorrectionInv
  <2> QED
    BY <2>2, <2>3
<1> QED
  BY <1>1, <1>2
  DEF PartsNext, allVars, LedgerStep, IngestionStep, ReadinessStep, BundleStep,
      CorrectionStep, Ended

LEMMA SameCorrectionCardinality == \A S : Correction!Cardinality(S) = Cardinality(S)
<1>1. \A S : Correction!IsFiniteSet(S) = IsFiniteSet(S)
  BY DEF Correction!IsFiniteSet, IsFiniteSet
<1> QED
  BY <1>1 DEF Correction!Cardinality, Cardinality

(* FinalIsBacked, for any number of processes, keys and edits, however often *)
(* a process is killed or run again: a receipt that is final was signed with *)
(* the committed key by the process that consumed the authority.             *)
THEOREM FinalReceiptsAreBacked == PartsSpec => []FinalIsBacked
<1>1. CorrectionInv => FinalIsBacked
  <2> SUFFICES ASSUME Signed, Held PROVE Correction!FinalIsBacked
    BY DEF CorrectionInv, FinalIsBacked
  <2>1. Correction!Cardinality(verified) <= 1
    <3>1. verified = {} \/ \E x : verified = {x}
      BY DEF Held, Formed, HolderSees
    <3>2. Cardinality({}) = 0 /\ \A x : Cardinality({x}) = 1
      BY FS_EmptySet, FS_Singleton
    <3>3. Cardinality(verified) = 0 \/ Cardinality(verified) = 1
      BY <3>1, <3>2
    <3>4. Correction!Cardinality(verified) = Cardinality(verified)
      BY SameCorrectionCardinality
    <3> QED
      BY <3>3, <3>4
  <2>2. receipt.kind = "final" => verified = {receipt.by} /\ receipt.signer = selected
    BY DEF Held, Formed, HolderSees, Correction!NoReceipt
  <2>3. \A p \in Correctors : at[p] \in {"verify", "recheck", "publish"} =>
          receipt = Correction!Consumption(p) /\ held[p] = selected
    BY DEF Signed, Held, HolderSees, Correcting, Correction!Processes, Correction!Consumption
  <2> QED
    BY <2>1, <2>2, <2>3 DEF Correction!FinalIsBacked
<1> QED
  BY InitCorrection, NextCorrection, <1>1, PTL DEF PartsSpec

(* CorrectionIsOneShot: the authority to correct is consumed by creating the *)
(* receipt, the receipt's last form is its one output.                       *)
LEMMA InitOnce == PartsInit => Correction!Once!Init
BY InitCorrection DEF CorrectionInv, Held, Formed, Correction!Once!Init, PartsInit, Correction!Init,
   Correction!NoReceipt, CorrectionRests

LEMMA NextOnce ==
  CorrectionInv /\ [PartsNext]_allVars => [Correction!Once!Next]_(Correction!Once!vars)
<1> SUFFICES ASSUME CorrectionInv, [PartsNext]_allVars, receipt' # receipt
             PROVE  Correction!Once!Next
  BY DEF Correction!Once!vars
<1>1. part = "correction" /\ Correction!Next /\ Signed /\ Held
  BY DEF PartsNext, allVars, LedgerStep, IngestionStep, ReadinessStep, BundleStep,
         CorrectionStep, Ended, correctionVars, CorrectionInv
<1>2. PICK p \in Correction!Processes :
        Correction!Consume(p) \/ Correction!Record(p) \/ Correction!Publish(p)
  BY <1>1
  DEF Correction!Next, Correction!CreateKey, Correction!FillKey, Correction!ReadKey,
      Correction!CheckAnchor, Correction!WriteAnchor, Correction!CheckAuthority,
      Correction!CheckSigner, Correction!Verify, Correction!Recheck, Correction!Crash,
      Correction!Retry, Correction!Select, Correction!Edit, Correction!LoseKey
<1>3. CASE Correction!Consume(p)
  <2>1. receipt.kind = "absent" /\ receipt'.kind = "empty"
    BY <1>3 DEF Correction!Consume
  <2> QED
    BY <2>1 DEF Correction!Once!Next, Correction!Once!Consume
<1>4. CASE Correction!Record(p)
  <2>1. receipt.kind = "empty" /\ receipt'.kind = "consumption"
    BY <1>1, <1>4 DEF Held, HolderSees, Correction!Record, Correction!Consumption
  <2> QED
    BY <2>1 DEF Correction!Once!Next, Correction!Once!Discard
<1>5. CASE Correction!Publish(p)
  <2>1. receipt.kind = "consumption" /\ receipt'.kind = "final"
    BY <1>1, <1>5 DEF Held, HolderSees, Correction!Publish, Correction!Final
  <2> QED
    BY <2>1 DEF Correction!Once!Next, Correction!Once!Execute
<1> QED
  BY <1>2, <1>3, <1>4, <1>5

(* CorrectionIsOneShot: every step of the correctors is a step of the        *)
(* one-shot authority or none of it; the authority is consumed before any    *)
(* output is written, and once (verify_iter000_proof_bundle_correction_001). *)
THEOREM CorrectionsAreOneShot == PartsSpec => CorrectionIsOneShot
<1>1. Correction!Once!Init /\ [][Correction!Once!Next]_(Correction!Once!vars) => CorrectionIsOneShot
  BY DEF CorrectionIsOneShot, Correction!CorrectionIsOneShot, Correction!Once!Spec
<1> QED
  BY InitCorrection, NextCorrection, InitOnce, NextOnce, <1>1, PTL DEF PartsSpec

(***************************************************************************)
(* DatasetIngestion.                                                       *)
(***************************************************************************)

(* The first files of the archive, each to its end; all of them.             *)
Upto(n) == [f \in {Ingestion!Members[i] : i \in 1..(n - 1)} |-> Ingestion!Size]
Full == [f \in Ingestion!Files |-> Ingestion!Size]

Directories == UNION {[S -> 0..Ingestion!Size] : S \in SUBSET Ingestion!Files}

NoOutput ==
  [by |-> {}, evidence |-> Ingestion!NoFiles, manifest |-> Ingestion!NoFiles, receipt |-> {}]

(* What a run that holds the lock has done so far, alone.                    *)
Extracting(p) ==
  /\ temp \in 1..Len(dirs) /\ work[p].next \in 1..3 /\ work[p].parsed = Ingestion!NoFiles
  /\ \/ work[p].dir = Ingestion!Nowhere /\ dirs[temp] = Upto(work[p].next)
     \/ /\ work[p].dir = temp /\ work[p].next \in 1..2
        /\ \E k \in 0..2 : dirs[temp] = Ingestion!Set(Upto(work[p].next), Ingestion!Members[work[p].next], k)

Stage(p) ==
  /\ work[p] = [next |-> work[p].next, dir |-> work[p].dir, parsed |-> work[p].parsed]
  /\ phase[p] \in {"fetch", "check", "clear", "make"} => work[p] = Ingestion!Idle
  /\ phase[p] \in {"clear", "make", "extract", "move", "list", "parse"} => output = NoOutput
  /\ phase[p] = "extract" => Extracting(p)
  /\ phase[p] = "move" =>
       /\ temp # Ingestion!Nowhere => temp \in 1..Len(dirs) /\ dirs[temp] = Full
       /\ work[p].parsed = Ingestion!NoFiles
  /\ phase[p] = "list" =>
       dest \in 1..Len(dirs) /\ dirs[dest] = Full /\ work[p].parsed = Ingestion!NoFiles
  /\ phase[p] = "parse" =>
       /\ dest \in 1..Len(dirs) /\ dirs[dest] = Full
       /\ work[p].next \in 1..3 /\ work[p].parsed = Upto(work[p].next)
  /\ phase[p] = "derive" =>
       /\ work[p].next \in 1..3 /\ work[p].parsed = Full
       /\ output = [by |-> IF work[p].next = 1 THEN {} ELSE {p},
                    evidence |-> Upto(work[p].next),
                    manifest |-> Ingestion!NoFiles, receipt |-> {}]
  /\ phase[p] = "receipt" =>
       output = [by |-> {p}, evidence |-> Full, manifest |-> Full, receipt |-> {}]

Derived ==
  \/ output = NoOutput
  \/ /\ output = [by |-> output.by, evidence |-> output.evidence,
                  manifest |-> output.manifest, receipt |-> {}]
     /\ output.by # {}
  \/ \E p \in Ingesters :
       output = [by |-> {p}, evidence |-> Full, manifest |-> Full, receipt |-> {p}]

Phases == {"idle", "fetch", "check", "clear", "make", "extract", "move", "list", "parse",
           "derive", "receipt"}

IngestionOwned ==
  /\ phase \in [Ingesters -> Phases] /\ work = [p \in Ingesters |-> work[p]]
  /\ dirs \in Seq(Directories)
  /\ \A p \in Ingesters : phase[p] # "idle" => runLock = p

IngestionStages ==
  /\ IngestionOwned
  /\ Derived
  /\ \A p \in Ingesters : phase[p] # "idle" => Stage(p)

IngestionInv == part = "ingestion" => IngestionStages

(* About the first files.                                                    *)
LEMMA FilesInOrder ==
  /\ Ingestion!Members[1] = "m1" /\ Ingestion!Members[2] = "m2" /\ Len(Ingestion!Members) = 2
  /\ Ingestion!Files = {"m1", "m2"} /\ Ingestion!Size = 2
<1>1. DOMAIN Ingestion!Members = {1, 2}
  BY DEF Ingestion!Members
<1> QED
  BY <1>1 DEF Ingestion!Members, Ingestion!Files, Ingestion!Size

LEMMA UptoSteps ==
  /\ Upto(1) = Ingestion!NoFiles /\ Upto(3) = Full
  /\ DOMAIN Full = Ingestion!Files
  /\ \A f \in Ingestion!Files : Full[f] = 2
  /\ Ingestion!Set(Upto(1), "m1", 2) = Upto(2)
  /\ Ingestion!Set(Upto(2), "m2", 2) = Upto(3)
<1>1. {Ingestion!Members[i] : i \in 1..(1 - 1)} = {}
  OBVIOUS
<1>2. {Ingestion!Members[i] : i \in 1..(2 - 1)} = {"m1"}
  BY FilesInOrder
<1>3. {Ingestion!Members[i] : i \in 1..(3 - 1)} = {"m1", "m2"}
  BY FilesInOrder
<1>4. Upto(1) = [f \in {} |-> 2] /\ Upto(2) = [f \in {"m1"} |-> 2]
      /\ Upto(3) = [f \in {"m1", "m2"} |-> 2] /\ Full = [f \in {"m1", "m2"} |-> 2]
  BY <1>1, <1>2, <1>3, FilesInOrder DEF Upto, Full
<1>5. Upto(1) = Ingestion!NoFiles
  BY <1>4 DEF Ingestion!NoFiles
<1>6. Ingestion!Set(Upto(1), "m1", 2) = Upto(2)
  BY <1>4 DEF Ingestion!Set
<1>7. Ingestion!Set(Upto(2), "m2", 2) = Upto(3)
  BY <1>4 DEF Ingestion!Set
<1> QED
  BY <1>4, <1>5, <1>6, <1>7, FilesInOrder

LEMMA UptoStep ==
  ASSUME NEW n \in 1..2
  PROVE  /\ Ingestion!Set(Upto(n), Ingestion!Members[n], 2) = Upto(n + 1)
         /\ n + 1 \in 1..3
BY UptoSteps, FilesInOrder

LEMMA OpenFile ==
  ASSUME NEW n \in 1..2, NEW k \in 0..2
  PROVE  /\ Ingestion!Set(Upto(n), Ingestion!Members[n], k) \in Directories
         /\ Ingestion!Set(Upto(n), Ingestion!Members[n], k)[Ingestion!Members[n]] = k
         /\ \A j : [Ingestion!Set(Upto(n), Ingestion!Members[n], k)
                      EXCEPT ![Ingestion!Members[n]] = j]
                   = Ingestion!Set(Upto(n), Ingestion!Members[n], j)
<1> DEFINE f == Ingestion!Members[n]
           open == Ingestion!Set(Upto(n), f, k)
<1>1. f \in Ingestion!Files
  BY FilesInOrder
<1>2. /\ DOMAIN Upto(n) \subseteq Ingestion!Files
      /\ \A g \in DOMAIN Upto(n) : Upto(n)[g] = 2
  BY FilesInOrder DEF Upto
<1>3. open = [z \in DOMAIN Upto(n) \cup {f} |-> IF z = f THEN k ELSE Upto(n)[z]]
  BY DEF Ingestion!Set
<1>4. open \in [DOMAIN Upto(n) \cup {f} -> 0..Ingestion!Size]
  BY <1>2, <1>3, FilesInOrder
<1>5. (DOMAIN Upto(n) \cup {f}) \in SUBSET Ingestion!Files
  BY <1>1, <1>2
<1>6. open \in Directories
  BY <1>4, <1>5 DEF Directories
<1>7. open[f] = k
  BY <1>3
<1>8. \A j : [open EXCEPT ![f] = j] = Ingestion!Set(Upto(n), f, j)
  BY <1>3 DEF Ingestion!Set
<1> QED
  BY <1>6, <1>7, <1>8

LEMMA ReplaceDirectory ==
  ASSUME NEW s \in Seq(Directories), NEW i \in 1..Len(s), NEW d \in Directories
  PROVE  /\ [s EXCEPT ![i] = d] \in Seq(Directories) /\ Len([s EXCEPT ![i] = d]) = Len(s)
         /\ [s EXCEPT ![i] = d][i] = d
OBVIOUS

LEMMA AddDirectory ==
  ASSUME NEW s \in Seq(Directories)
  PROVE  /\ Append(s, Ingestion!NoFiles) \in Seq(Directories)
         /\ Len(Append(s, Ingestion!NoFiles)) \in 1..Len(Append(s, Ingestion!NoFiles))
         /\ Append(s, Ingestion!NoFiles)[Len(Append(s, Ingestion!NoFiles))] = Ingestion!NoFiles
         /\ Len(Append(s, Ingestion!NoFiles)) # Ingestion!Nowhere
<1>1. Ingestion!NoFiles \in [{} -> 0..Ingestion!Size]
  BY DEF Ingestion!NoFiles
<1>2. Ingestion!NoFiles \in Directories
  BY <1>1 DEF Directories
<1> QED
  BY <1>2, AppendProperties DEF Ingestion!Nowhere
(* A step of the one process that runs, or starts: the others are idle.      *)
LEMMA OneIngests ==
  ASSUME IngestionStages, NEW p \in Ingesters,
         phase[p] # "idle" \/ runLock = Ingestion!Free,
         \A q \in Ingesters : q # p => phase'[q] = phase[q],
         phase' \in [Ingesters -> Phases], work' = [q \in Ingesters |-> work'[q]],
         dirs' \in Seq(Directories), Derived',
         IF phase'[p] = "idle"
         THEN runLock' = IF runLock = p THEN Ingestion!Free ELSE runLock
         ELSE runLock' = p /\ Stage(p)'
  PROVE  IngestionStages'
<1>1. \A q \in Ingesters : q # p => phase'[q] = "idle"
  BY EvidenceAssumption DEF IngestionStages, IngestionOwned
<1>2. phase'[p] # "idle" => runLock' = p /\ Stage(p)'
  OBVIOUS
<1>3. IngestionOwned'
  BY <1>1, <1>2 DEF IngestionOwned
<1>4. \A q \in Ingesters : phase'[q] # "idle" => Stage(q)'
  BY <1>1, <1>2
<1> QED
  BY <1>3, <1>4 DEF IngestionStages

(* A run that ends leaves its directories and its output.                    *)
LEMMA EndIngestion ==
  ASSUME IngestionStages, NEW p \in Ingesters, phase[p] # "idle", Ingestion!End(p),
         UNCHANGED <<dirs, work>>, Derived'
  PROVE  IngestionStages'
<1>1. phase' = [phase EXCEPT ![p] = "idle"] /\ runLock' = IF runLock = p THEN Ingestion!Free ELSE runLock
  BY DEF Ingestion!End, Ingestion!Go
<1>2. phase' \in [Ingesters -> Phases] /\ phase'[p] = "idle"
      /\ \A q \in Ingesters : q # p => phase'[q] = phase[q]
  BY <1>1 DEF IngestionStages, IngestionOwned, Phases
<1>3. dirs' \in Seq(Directories) /\ work' = [q \in Ingesters |-> work'[q]]
  BY DEF IngestionStages, IngestionOwned
<1> QED
  BY <1>1, <1>2, <1>3, OneIngests

(* A run that goes on.                                                       *)
LEMMA GoOnIngestion ==
  ASSUME IngestionStages, NEW p \in Ingesters, NEW next \in Phases, NEW w,
         phase' = [phase EXCEPT ![p] = next], work' = [work EXCEPT ![p] = w],
         dirs' \in Seq(Directories), Derived', phase[p] # "idle", next # "idle",
         runLock' = runLock, phase'[p] = next /\ work'[p] = w => Stage(p)'
  PROVE  IngestionStages'
<1>1. phase' \in [Ingesters -> Phases] /\ phase'[p] = next
      /\ \A q \in Ingesters : q # p => phase'[q] = phase[q]
  BY DEF IngestionStages, IngestionOwned
<1>2. work' = [q \in Ingesters |-> work'[q]] /\ work'[p] = w
  BY DEF IngestionStages, IngestionOwned
<1>3. runLock' = p
  BY DEF IngestionStages, IngestionOwned
<1> QED
  BY <1>1, <1>2, <1>3, OneIngests

LEMMA SameIngestion ==
  ASSUME IngestionStages, NEW p \in Ingesters
  PROVE  /\ phase = [phase EXCEPT ![p] = phase[p]] /\ work = [work EXCEPT ![p] = work[p]]
         /\ phase[p] \in Phases /\ dirs \in Seq(Directories) /\ Derived
         /\ phase[p] # "idle" => Stage(p)
BY DEF IngestionStages, IngestionOwned

(* Up to the extraction.                                                     *)
LEMMA StartIngestion ==
  ASSUME IngestionStages, NEW p \in Ingesters,
         \/ Ingestion!Begin(p) \/ Ingestion!Kill(p) \/ Ingestion!Fetch(p)
         \/ Ingestion!Check(p) \/ Ingestion!Clear(p) \/ Ingestion!Make(p)
  PROVE  IngestionStages'
<1>0. UNCHANGED output
  BY DEF Ingestion!Begin, Ingestion!Kill, Ingestion!Fetch, Ingestion!Check, Ingestion!Clear,
         Ingestion!Make
<1>1. Derived'
  BY <1>0 DEF IngestionStages, Derived, Full
<1>2. CASE Ingestion!Begin(p)
  <2>1. /\ phase' = [phase EXCEPT ![p] = "fetch"] /\ work' = [work EXCEPT ![p] = Ingestion!Idle]
        /\ runLock' = p /\ dirs' = dirs /\ phase[p] = "idle" /\ runLock = Ingestion!Free
    BY <1>2 DEF Ingestion!Begin, Ingestion!Go
  <2>2. phase'[p] = "fetch" /\ phase' \in [Ingesters -> Phases]
        /\ \A q \in Ingesters : q # p => phase'[q] = phase[q]
    BY <2>1 DEF IngestionStages, IngestionOwned, Phases
  <2>3. work'[p] = Ingestion!Idle /\ work' = [q \in Ingesters |-> work'[q]]
        /\ dirs' \in Seq(Directories)
    BY <2>1 DEF IngestionStages, IngestionOwned
  <2>4. Stage(p)'
    BY <2>2, <2>3 DEF Stage, Ingestion!Idle
  <2> QED
    BY <1>1, <2>1, <2>2, <2>3, <2>4, OneIngests
<1>3. CASE Ingestion!Kill(p)
  BY <1>1, <1>3, EndIngestion DEF Ingestion!Kill
<1>4. CASE Ingestion!Fetch(p)
  <2>1. CASE Ingestion!End(p)
    BY <1>1, <1>4, <2>1, EndIngestion DEF Ingestion!Fetch
  <2>2. CASE Ingestion!Go(p, "check") /\ UNCHANGED runLock
    <3>1. work[p] = Ingestion!Idle
      BY <1>4 DEF Ingestion!Fetch, IngestionStages, Stage
    <3>2. phase'[p] = "check" /\ work'[p] = work[p] => Stage(p)'
      BY <3>1 DEF Stage, Ingestion!Idle
    <3> QED
      BY <1>1, <1>4, <2>2, <3>2, SameIngestion, GoOnIngestion DEF Ingestion!Fetch, Ingestion!Go, Phases
  <2> QED
    BY <1>4, <2>1, <2>2 DEF Ingestion!Fetch
<1>5. CASE Ingestion!Check(p)
  <2>1. CASE Ingestion!End(p)
    BY <1>1, <1>5, <2>1, EndIngestion DEF Ingestion!Check
  <2>2. CASE Ingestion!Go(p, "clear") /\ UNCHANGED runLock /\ output.by = {}
    <3>1. work[p] = Ingestion!Idle
      BY <1>5 DEF Ingestion!Check, IngestionStages, Stage
    <3>2. output = NoOutput
      BY <2>2 DEF IngestionStages, Derived
    <3>3. phase'[p] = "clear" /\ work'[p] = work[p] => Stage(p)'
      BY <1>0, <3>1, <3>2 DEF Stage, Ingestion!Idle, NoOutput
    <3> QED
      BY <1>1, <1>5, <2>2, <3>3, SameIngestion, GoOnIngestion DEF Ingestion!Check, Ingestion!Go, Phases
  <2> QED
    BY <1>5, <2>1, <2>2 DEF Ingestion!Check
<1>6. CASE Ingestion!Clear(p)
  <2>1. work[p] = Ingestion!Idle /\ output = NoOutput
    BY <1>6 DEF Ingestion!Clear, IngestionStages, Stage
  <2>2. phase'[p] = "make" /\ work'[p] = work[p] => Stage(p)'
    BY <1>0, <2>1 DEF Stage, Ingestion!Idle, NoOutput
  <2> QED
    BY <1>1, <1>6, <2>2, SameIngestion, GoOnIngestion DEF Ingestion!Clear, Ingestion!Go, Phases
<1>7. CASE Ingestion!Make(p)
  <2>1. CASE Ingestion!End(p) /\ UNCHANGED dirs
    BY <1>1, <1>7, <2>1, EndIngestion DEF Ingestion!Make
  <2>2. CASE /\ dirs' = Append(dirs, Ingestion!NoFiles) /\ temp' = Len(dirs')
             /\ Ingestion!Go(p, "extract") /\ UNCHANGED runLock
    <3>1. work[p] = Ingestion!Idle /\ output = NoOutput
      BY <1>7 DEF Ingestion!Make, IngestionStages, Stage
    <3>2. dirs' \in Seq(Directories) /\ temp' \in 1..Len(dirs') /\ dirs'[temp'] = Upto(1)
      BY <2>2, SameIngestion, AddDirectory, UptoSteps
    <3>3. ASSUME work'[p] = work[p] PROVE Extracting(p)'
      <4>1. work'[p].next = 1 /\ work'[p].dir = Ingestion!Nowhere
            /\ work'[p].parsed = Ingestion!NoFiles
        BY <3>1, <3>3 DEF Ingestion!Idle
      <4>2. temp' \in 1..Len(dirs') /\ dirs'[temp'] = Upto(1)
        BY <3>2
      <4> QED
        BY <4>1, <4>2 DEF Extracting, Upto
    <3>4. phase'[p] = "extract" /\ work'[p] = work[p] => Stage(p)'
      BY <1>0, <3>1, <3>3 DEF Stage, Ingestion!Idle, NoOutput
    <3> QED
      BY <1>1, <1>7, <2>2, <3>2, <3>4, SameIngestion, GoOnIngestion
      DEF Ingestion!Make, Ingestion!Go, Phases
  <2> QED
    BY <1>7, <2>1, <2>2 DEF Ingestion!Make
<1> QED
  BY <1>2, <1>3, <1>4, <1>5, <1>6, <1>7

(* The extraction, of one file after the other.                              *)
LEMMA ExtractIngestion ==
  ASSUME IngestionStages, NEW p \in Ingesters,
         \/ Ingestion!OpenMember(p) \/ Ingestion!WritePart(p)
         \/ Ingestion!RemoveOld(p) \/ Ingestion!Move(p)
  PROVE  IngestionStages'
<1>0. UNCHANGED output /\ phase[p] # "idle"
  BY DEF Ingestion!OpenMember, Ingestion!WritePart, Ingestion!RemoveOld, Ingestion!Move
<1>1. Derived'
  BY <1>0 DEF IngestionStages, Derived, Full
<1>2. CASE Ingestion!GiveUp(p)
  BY <1>0, <1>1, <1>2, EndIngestion DEF Ingestion!GiveUp
<1>3. Stage(p) /\ runLock = p
  BY <1>0 DEF IngestionStages, IngestionOwned
<1>4. phase[p] = "extract" => Extracting(p) /\ output = NoOutput
  BY <1>3 DEF Stage
<1>5. CASE Ingestion!OpenMember(p) /\ ~Ingestion!GiveUp(p)
  <2> DEFINE n == work[p].next
             f == Ingestion!Members[work[p].next]
  <2>1. /\ phase[p] = "extract" /\ n <= 2 /\ work[p].dir = Ingestion!Nowhere
        /\ dirs' = [dirs EXCEPT ![temp] = Ingestion!Set(@, f, 0)]
        /\ work' = [work EXCEPT ![p].dir = temp] /\ UNCHANGED <<temp, phase, runLock>>
    BY <1>4, <1>5, FilesInOrder
    DEF Ingestion!OpenMember, Ingestion!AllDone, Ingestion!Current, Extracting
  <2>2. /\ temp \in 1..Len(dirs) /\ n \in 1..2 /\ dirs[temp] = Upto(n)
        /\ work[p].parsed = Ingestion!NoFiles
    BY <1>4, <2>1 DEF Extracting, Ingestion!Nowhere
  <2> HIDE DEF n, f
  <2>3. Ingestion!Set(Upto(n), f, 0) \in Directories
    BY <2>2, OpenFile DEF n, f
  <2>4. dirs' = [dirs EXCEPT ![temp] = Ingestion!Set(Upto(n), f, 0)]
    BY <2>1, <2>2
  <2>5. /\ dirs' \in Seq(Directories) /\ Len(dirs') = Len(dirs)
        /\ dirs'[temp] = Ingestion!Set(Upto(n), f, 0)
    BY <2>2, <2>3, <2>4, SameIngestion, ReplaceDirectory
  <2>6. work' = [work EXCEPT ![p] = [work[p] EXCEPT !.dir = temp]]
    BY <2>1
  <2>7. [work[p] EXCEPT !.dir = temp] = [next |-> n, dir |-> temp, parsed |-> Ingestion!NoFiles]
    BY <1>3, <2>2 DEF Stage, n
  <2>8. ASSUME work'[p] = [work[p] EXCEPT !.dir = temp] PROVE Extracting(p)'
    <3>1. /\ work'[p].next = n /\ work'[p].dir = temp /\ work'[p].parsed = Ingestion!NoFiles
      BY <2>7, <2>8
    <3>2. temp' = temp
      BY <2>1
    <3>3. dirs'[temp'] = Ingestion!Set(Upto(work'[p].next), Ingestion!Members[work'[p].next], 0)
      BY <2>5, <3>1, <3>2 DEF f, n
    <3> QED
      BY <2>2, <2>5, <3>1, <3>2, <3>3 DEF Extracting, Upto, Ingestion!Set
  <2>9. phase'[p] = "extract" /\ work'[p] = [work[p] EXCEPT !.dir = temp] => Stage(p)'
    BY <1>0, <1>4, <2>1, <2>7, <2>8 DEF Stage, NoOutput
  <2>10. phase' = [phase EXCEPT ![p] = "extract"]
    BY <2>1, SameIngestion
  <2> QED
    BY <1>0, <1>1, <2>1, <2>5, <2>6, <2>9, <2>10, GoOnIngestion DEF Phases
<1>6. CASE Ingestion!WritePart(p)
  <2> DEFINE n == work[p].next
             f == Ingestion!Members[work[p].next]
  <2>1. phase[p] = "extract" /\ work[p].dir # Ingestion!Nowhere /\ UNCHANGED <<temp, phase, runLock>>
    BY <1>6 DEF Ingestion!WritePart
  <2>2. /\ temp \in 1..Len(dirs) /\ n \in 1..2 /\ work[p].dir = temp
        /\ work[p].parsed = Ingestion!NoFiles
    BY <1>4, <2>1 DEF Extracting
  <2>3. PICK k \in 0..2 : dirs[temp] = Ingestion!Set(Upto(n), f, k)
    BY <1>4, <2>1 DEF Extracting
  <2>4. phase' = [phase EXCEPT ![p] = "extract"]
    BY <2>1, SameIngestion
  <2>5. dirs[temp][f] = k
    BY <2>2, <2>3, OpenFile
  <2>6. n = work[p].next /\ f = Ingestion!Members[n]
    OBVIOUS
  <2> HIDE DEF n, f
  <2>7. CASE k < 2
    <3>1. dirs' = [dirs EXCEPT ![temp][f] = @ + 1] /\ work' = work
      BY <1>6, <2>2, <2>5, <2>7, FilesInOrder DEF Ingestion!WritePart, Ingestion!Current, n, f
    <3>2. dirs' = [dirs EXCEPT ![temp] = [dirs[temp] EXCEPT ![f] = k + 1]]
      BY <2>5, <3>1
    <3>3. [dirs[temp] EXCEPT ![f] = k + 1] = Ingestion!Set(Upto(n), f, k + 1)
      BY <2>2, <2>3, <2>6, OpenFile
    <3>4. k + 1 \in 0..2 /\ Ingestion!Set(Upto(n), f, k + 1) \in Directories
      BY <2>2, <2>7, <2>6, OpenFile
    <3>5. /\ dirs' \in Seq(Directories) /\ Len(dirs') = Len(dirs)
          /\ dirs'[temp] = Ingestion!Set(Upto(n), f, k + 1)
      BY <2>2, <3>2, <3>3, <3>4, SameIngestion, ReplaceDirectory
    <3>6. Extracting(p)'
      <4>0. PICK j \in 0..2 : j = k + 1
        BY <3>4
      <4>1. work'[p] = work[p] /\ temp' = temp
        BY <2>1, <3>1
      <4>2. dirs'[temp'] = Ingestion!Set(Upto(work'[p].next), Ingestion!Members[work'[p].next], j)
        BY <2>6, <3>5, <4>0, <4>1
      <4>3. /\ temp' \in 1..Len(dirs') /\ work'[p].next \in 1..2 /\ work'[p].next \in 1..3
            /\ work'[p].dir = temp' /\ work'[p].parsed = Ingestion!NoFiles
        BY <2>2, <2>6, <3>5, <4>1
      <4> QED
        BY <4>2, <4>3 DEF Extracting, Upto, Ingestion!Set
    <3>7. phase'[p] = "extract" => Stage(p)'
      BY <1>0, <1>3, <1>4, <2>1, <3>1, <3>6 DEF Stage, NoOutput
    <3> QED
      BY <1>0, <1>1, <2>1, <2>4, <3>1, <3>5, <3>7, SameIngestion, GoOnIngestion DEF Phases
  <2>8. CASE k = 2
    <3> DEFINE w == [next |-> n + 1, dir |-> Ingestion!Nowhere, parsed |-> Ingestion!NoFiles]
               closed == [work EXCEPT ![p].dir = Ingestion!Nowhere]
    <3>1. /\ work' = [closed EXCEPT ![p].next = @ + 1]
          /\ dirs' = dirs
      BY <1>6, <2>2, <2>5, <2>8, <2>6, FilesInOrder DEF Ingestion!WritePart, Ingestion!Current
    <3>2. work[p] = [next |-> n, dir |-> temp, parsed |-> Ingestion!NoFiles]
      BY <1>3, <2>2, <2>6 DEF Stage
    <3>3. work' = [work EXCEPT ![p] = w]
      <4>1. work = [q \in Ingesters |-> work[q]]
        BY DEF IngestionStages, IngestionOwned
      <4>2. closed[p] = [next |-> n, dir |-> Ingestion!Nowhere, parsed |-> Ingestion!NoFiles]
        BY <3>2, <4>1
      <4>3. closed = [q \in Ingesters |-> closed[q]] /\ \A q \in Ingesters : q # p => closed[q] = work[q]
        BY <4>1
      <4> HIDE DEF closed
      <4>4. work'[p] = [closed[p] EXCEPT !.next = @ + 1]
        BY <3>1, <4>3
      <4>5. work'[p] = w
        BY <4>2, <4>4
      <4>6. work' = [q \in Ingesters |-> work'[q]] /\ \A q \in Ingesters : q # p => work'[q] = work[q]
        BY <3>1, <4>3
      <4> HIDE DEF w
      <4> QED
        BY <4>1, <4>5, <4>6
    <3>4. dirs[temp] = Upto(n + 1) /\ n + 1 \in 1..3
      BY <2>2, <2>3, <2>8, <2>6, UptoStep
    <3> HIDE DEF w
    <3>5. ASSUME work'[p] = w PROVE Extracting(p)'
      <4>1. /\ work'[p].next = n + 1 /\ work'[p].dir = Ingestion!Nowhere
            /\ work'[p].parsed = Ingestion!NoFiles /\ temp' = temp
        BY <2>1, <3>5 DEF w
      <4> QED
        BY <2>2, <3>1, <3>4, <4>1 DEF Extracting, Upto
    <3>6. phase'[p] = "extract" /\ work'[p] = w => Stage(p)'
      BY <1>0, <1>4, <2>1, <3>5 DEF Stage, NoOutput, w
    <3> QED
      BY <1>0, <1>1, <2>1, <2>4, <3>1, <3>3, <3>6, SameIngestion, GoOnIngestion DEF Phases
  <2> QED
    BY <2>7, <2>8
<1>7. CASE Ingestion!RemoveOld(p)
  <2>1. /\ phase[p] = "extract" /\ work[p].next > 2 /\ phase' = [phase EXCEPT ![p] = "move"]
        /\ UNCHANGED <<runLock, dirs, temp, work>>
    BY <1>4, <1>7, FilesInOrder DEF Ingestion!RemoveOld, Ingestion!AllDone, Ingestion!Go, Extracting
  <2>2. /\ temp \in 1..Len(dirs) /\ work[p].parsed = Ingestion!NoFiles /\ work[p].next = 3
        /\ dirs[temp] = Upto(3)
    BY <1>4, <2>1 DEF Extracting
  <2>3. dirs[temp] = Full
    BY <2>2, UptoSteps
  <2>4. phase'[p] = "move" /\ work'[p] = work[p] => Stage(p)'
    BY <1>0, <1>3, <1>4, <2>1, <2>2, <2>3 DEF Stage, NoOutput, Full
  <2> QED
    BY <1>0, <1>1, <2>1, <2>4, SameIngestion, GoOnIngestion DEF Phases
<1>8. CASE Ingestion!Move(p) /\ ~Ingestion!GiveUp(p)
  <2>1. /\ phase[p] = "move" /\ temp # Ingestion!Nowhere /\ dest' = temp
        /\ phase' = [phase EXCEPT ![p] = "list"] /\ UNCHANGED <<dirs, work, runLock>>
    BY <1>8 DEF Ingestion!Move, Ingestion!Go
  <2>2. /\ temp \in 1..Len(dirs) /\ dirs[temp] = Full /\ work[p].parsed = Ingestion!NoFiles
        /\ output = NoOutput
    BY <1>3, <2>1 DEF Stage
  <2>3. phase'[p] = "list" /\ work'[p] = work[p] => Stage(p)'
    BY <1>0, <1>3, <2>1, <2>2 DEF Stage, NoOutput, Full
  <2> QED
    BY <1>0, <1>1, <2>1, <2>3, SameIngestion, GoOnIngestion DEF Phases
<1> QED
  BY <1>2, <1>5, <1>6, <1>7, <1>8

(* Parsing, and what is derived; the receipt last.                           *)
LEMMA DeriveIngestion ==
  ASSUME IngestionStages, NEW p \in Ingesters,
         \/ Ingestion!List(p) \/ Ingestion!Parse(p) \/ Ingestion!Parsed(p)
         \/ Ingestion!Derive(p) \/ Ingestion!Manifests(p) \/ Ingestion!Receipt(p)
  PROVE  IngestionStages'
<1>0. phase[p] # "idle" /\ UNCHANGED <<dirs, dest>>
  BY DEF Ingestion!List, Ingestion!Parse, Ingestion!Parsed, Ingestion!Derive,
         Ingestion!Manifests, Ingestion!Receipt
<1>1. Stage(p) /\ work = [q \in Ingesters |-> work[q]] /\ Derived
  BY <1>0 DEF IngestionStages, IngestionOwned
<1>2. UNCHANGED output => Derived'
  BY <1>1 DEF Derived, Full
<1>3. CASE Ingestion!List(p)
  <2>1. CASE Ingestion!End(p) /\ UNCHANGED work
    BY <1>0, <1>2, <1>3, <2>1, EndIngestion DEF Ingestion!List
  <2>2. CASE ~(Ingestion!End(p) /\ UNCHANGED work)
    <3>1. /\ phase[p] = "list" /\ phase' = [phase EXCEPT ![p] = "parse"]
          /\ work' = [work EXCEPT ![p].next = 1] /\ UNCHANGED <<runLock, output>>
      BY <1>3, <2>2 DEF Ingestion!List, Ingestion!Go
    <3>2. /\ dest \in 1..Len(dirs) /\ dirs[dest] = Full /\ work[p].parsed = Ingestion!NoFiles
          /\ output = NoOutput
          /\ work[p] = [next |-> work[p].next, dir |-> work[p].dir, parsed |-> work[p].parsed]
      BY <1>1, <3>1 DEF Stage
    <3> DEFINE w == [work[p] EXCEPT !.next = 1]
    <3>3. work' = [work EXCEPT ![p] = w]
      BY <3>1
    <3>4. w = [next |-> 1, dir |-> work[p].dir, parsed |-> Upto(1)]
      BY <3>2, UptoSteps
    <3> HIDE DEF w
    <3>5. phase'[p] = "parse" /\ work'[p] = w => Stage(p)'
      BY <1>0, <3>1, <3>2, <3>4 DEF Stage, NoOutput, Full, Upto
    <3> QED
      BY <1>0, <1>2, <3>1, <3>3, <3>5, SameIngestion, GoOnIngestion DEF Phases
  <2> QED
    BY <2>1, <2>2
<1>4. CASE Ingestion!Parse(p)
  <2>1. CASE Ingestion!End(p) /\ UNCHANGED work
    BY <1>0, <1>2, <1>4, <2>1, EndIngestion DEF Ingestion!Parse
  <2>2. CASE ~(Ingestion!End(p) /\ UNCHANGED work)
    <3> DEFINE n == work[p].next
    <3>1. /\ phase[p] = "parse" /\ n \in 1..2 /\ UNCHANGED <<phase, runLock, output>>
          /\ work' = [work EXCEPT ![p].parsed = Ingestion!Set(@, Ingestion!Current(p), Ingestion!Found(p)),
                                  ![p].next = @ + 1]
      BY <1>1, <1>4, <2>2, FilesInOrder DEF Ingestion!Parse, Ingestion!AllDone, Stage
    <3>2. /\ dest \in 1..Len(dirs) /\ dirs[dest] = Full /\ work[p].parsed = Upto(n)
          /\ output = NoOutput
          /\ work[p] = [next |-> n, dir |-> work[p].dir, parsed |-> Upto(n)]
      BY <1>1, <3>1 DEF Stage
    <3>3. Ingestion!Current(p) = Ingestion!Members[n] /\ Ingestion!Found(p) = 2
      BY <3>1, <3>2, UptoSteps, FilesInOrder DEF Ingestion!Current, Ingestion!Found, Ingestion!Nowhere
    <3>4. Ingestion!Set(Upto(n), Ingestion!Current(p), Ingestion!Found(p)) = Upto(n + 1)
          /\ n + 1 \in 1..3
      BY <3>1, <3>3, UptoStep
    <3> DEFINE w == [next |-> n + 1, dir |-> work[p].dir, parsed |-> Upto(n + 1)]
               found == [work EXCEPT ![p].parsed = Upto(n + 1)]
    <3> HIDE DEF n
    <3>5. found[p] = [next |-> n, dir |-> work[p].dir, parsed |-> Upto(n + 1)]
      BY <1>1, <3>2
    <3>6. found = [q \in Ingesters |-> found[q]] /\ \A q \in Ingesters : q # p => found[q] = work[q]
      BY <1>1
    <3>7. work' = [found EXCEPT ![p].next = @ + 1]
      <4>1. work' = [[work EXCEPT ![p].parsed =
                        Ingestion!Set(work[p].parsed, Ingestion!Current(p), Ingestion!Found(p))]
                     EXCEPT ![p].next = @ + 1]
        BY <3>1
      <4> QED
        BY <3>2, <3>4, <4>1
    <3> HIDE DEF found
    <3>8. work'[p] = [found[p] EXCEPT !.next = @ + 1]
      BY <3>6, <3>7
    <3>9. work'[p] = w
      BY <3>5, <3>8
    <3>10. work' = [q \in Ingesters |-> work'[q]] /\ \A q \in Ingesters : q # p => work'[q] = work[q]
      BY <3>6, <3>7
    <3> HIDE DEF w
    <3>11. work' = [work EXCEPT ![p] = w]
      BY <1>1, <3>9, <3>10
    <3>12. ASSUME phase'[p] = "parse", work'[p] = w PROVE Stage(p)'
      <4>1. /\ work'[p].next = n + 1 /\ work'[p].dir = work[p].dir
            /\ work'[p].parsed = Upto(work'[p].next)
            /\ work'[p] = [next |-> work'[p].next, dir |-> work'[p].dir, parsed |-> work'[p].parsed]
        BY <3>12 DEF w
      <4>2. /\ output' = NoOutput /\ dest' \in 1..Len(dirs') /\ dirs'[dest'] = Full
            /\ work'[p].next \in 1..3
        BY <1>0, <3>1, <3>2, <3>4, <4>1
      <4> QED
        BY <3>12, <4>1, <4>2 DEF Stage, NoOutput, Full, Upto
    <3>13. phase' = [phase EXCEPT ![p] = "parse"]
      BY <3>1, SameIngestion
    <3> QED
      BY <1>0, <1>2, <3>1, <3>11, <3>12, <3>13, SameIngestion, GoOnIngestion DEF Phases
  <2> QED
    BY <2>1, <2>2
<1>5. CASE Ingestion!Parsed(p)
  <2>1. /\ phase[p] = "parse" /\ phase' = [phase EXCEPT ![p] = "derive"]
        /\ work' = [work EXCEPT ![p].next = 1] /\ UNCHANGED <<runLock, output>>
        /\ work[p].next > 2
    BY <1>5, FilesInOrder DEF Ingestion!Parsed, Ingestion!Go, Ingestion!AllDone
  <2>2. /\ work[p].next = 3 /\ work[p].parsed = Upto(work[p].next) /\ output = NoOutput
        /\ work[p] = [next |-> work[p].next, dir |-> work[p].dir, parsed |-> work[p].parsed]
    BY <1>1, <2>1 DEF Stage
  <2> DEFINE w == [work[p] EXCEPT !.next = 1]
  <2>3. work' = [work EXCEPT ![p] = w]
    BY <2>1
  <2>4. w = [next |-> 1, dir |-> work[p].dir, parsed |-> Full]
    BY <2>2, UptoSteps
  <2>5. output = [by |-> {}, evidence |-> Upto(1), manifest |-> Ingestion!NoFiles, receipt |-> {}]
    BY <2>2, UptoSteps DEF NoOutput
  <2> HIDE DEF w
  <2>6. ASSUME phase'[p] = "derive", work'[p] = w PROVE Stage(p)'
    <3>1. /\ work'[p].next = 1 /\ work'[p].parsed = Full
          /\ work'[p] = [next |-> work'[p].next, dir |-> work'[p].dir, parsed |-> work'[p].parsed]
      BY <2>4, <2>6
    <3>2. output' = [by |-> IF work'[p].next = 1 THEN {} ELSE {p}, evidence |-> Upto(work'[p].next),
                    manifest |-> Ingestion!NoFiles, receipt |-> {}]
      BY <2>1, <2>5, <3>1
    <3> QED
      BY <2>6, <3>1, <3>2 DEF Stage, Full, Upto
  <2> QED
    BY <1>0, <1>2, <2>1, <2>3, <2>6, SameIngestion, GoOnIngestion DEF Phases
<1>6. CASE Ingestion!Derive(p)
  <2> DEFINE n == work[p].next
  <2>1. /\ phase[p] = "derive" /\ n \in 1..2 /\ UNCHANGED <<phase, runLock>>
        /\ work' = [work EXCEPT ![p].next = @ + 1]
        /\ output' = [output EXCEPT !.evidence = Ingestion!Set(@, Ingestion!Current(p),
                                                  work[p].parsed[Ingestion!Current(p)]),
                                    !.by = @ \cup {p}]
    BY <1>1, <1>6, FilesInOrder DEF Ingestion!Derive, Ingestion!AllDone, Stage
  <2>2. /\ work[p] = [next |-> n, dir |-> work[p].dir, parsed |-> Full]
        /\ output = [by |-> IF n = 1 THEN {} ELSE {p}, evidence |-> Upto(n),
                     manifest |-> Ingestion!NoFiles, receipt |-> {}]
    BY <1>1, <2>1 DEF Stage, NoOutput
  <2>3. Ingestion!Current(p) = Ingestion!Members[n] /\ work[p].parsed[Ingestion!Current(p)] = 2
    BY <2>1, <2>2, UptoSteps, FilesInOrder DEF Ingestion!Current
  <2>4. Ingestion!Set(Upto(n), Ingestion!Current(p), work[p].parsed[Ingestion!Current(p)]) = Upto(n + 1)
        /\ n + 1 \in 1..3
    BY <2>1, <2>3, UptoStep
  <2> DEFINE w == [next |-> n + 1, dir |-> work[p].dir, parsed |-> Full]
             e == Ingestion!Set(Upto(n), Ingestion!Current(p), work[p].parsed[Ingestion!Current(p)])
  <2>5. work' = [work EXCEPT ![p] = [work[p] EXCEPT !.next = @ + 1]]
    BY <2>1
  <2>6. [work[p] EXCEPT !.next = @ + 1] = w
    BY <2>2
  <2>7. work' = [work EXCEPT ![p] = w]
    BY <2>5, <2>6
  <2>8. output' = [by |-> {p}, evidence |-> Upto(n + 1), manifest |-> Ingestion!NoFiles, receipt |-> {}]
    <3>1. output.evidence = Upto(n) /\ output.by \cup {p} = {p}
      BY <2>2
    <3>2. output' = [output EXCEPT !.evidence = Upto(n + 1), !.by = {p}]
      BY <2>1, <2>4, <3>1
    <3> HIDE DEF n
    <3> QED
      BY <2>2, <3>2
  <2> HIDE DEF w, n
  <2>9. Derived'
    BY <2>8 DEF Derived, Upto
  <2>10. n \in 1..2
    BY <2>1 DEF n
  <2>11. ASSUME phase'[p] = "derive", work'[p] = w PROVE Stage(p)'
    <3>1. /\ work'[p].next = n + 1 /\ work'[p].parsed = Full
          /\ work'[p] = [next |-> work'[p].next, dir |-> work'[p].dir, parsed |-> work'[p].parsed]
      BY <2>11 DEF w
    <3>2. work'[p].next \in 1..3 /\ work'[p].next # 1
      BY <2>10, <3>1
    <3>3. output' = [by |-> IF work'[p].next = 1 THEN {} ELSE {p}, evidence |-> Upto(work'[p].next),
                    manifest |-> Ingestion!NoFiles, receipt |-> {}]
      BY <2>8, <3>1, <3>2
    <3> QED
      BY <2>11, <3>1, <3>2, <3>3 DEF Stage, Full, Upto
  <2>12. phase' = [phase EXCEPT ![p] = "derive"]
    BY <2>1, SameIngestion
  <2> QED
    BY <1>0, <2>1, <2>7, <2>9, <2>11, <2>12, SameIngestion, GoOnIngestion DEF Phases
<1>7. CASE Ingestion!Manifests(p)
  <2>1. /\ phase[p] = "derive" /\ work[p].next > 2 /\ UNCHANGED <<work, runLock>>
        /\ output' = [output EXCEPT !.manifest = work[p].parsed]
        /\ phase' = [phase EXCEPT ![p] = "receipt"]
    BY <1>7, FilesInOrder DEF Ingestion!Manifests, Ingestion!AllDone, Ingestion!Go
  <2>2. /\ work[p].next = 3 /\ work[p].parsed = Full /\ work[p].next # 1
        /\ output = [by |-> IF work[p].next = 1 THEN {} ELSE {p}, evidence |-> Upto(work[p].next),
                     manifest |-> Ingestion!NoFiles, receipt |-> {}]
        /\ work[p] = [next |-> work[p].next, dir |-> work[p].dir, parsed |-> work[p].parsed]
    BY <1>1, <2>1 DEF Stage
  <2>3. output = [by |-> {p}, evidence |-> Full, manifest |-> Ingestion!NoFiles, receipt |-> {}]
    BY <2>2, UptoSteps DEF NoOutput
  <2>4. output' = [by |-> {p}, evidence |-> Full, manifest |-> Full, receipt |-> {}]
    BY <2>1, <2>2, <2>3
  <2>5. Derived'
    BY <2>4 DEF Derived, Full
  <2>6. phase'[p] = "receipt" /\ work'[p] = work[p] => Stage(p)'
    BY <1>0, <2>1, <2>2, <2>4 DEF Stage, NoOutput, Full
  <2> QED
    BY <1>0, <2>1, <2>5, <2>6, SameIngestion, GoOnIngestion DEF Phases
<1>8. CASE Ingestion!Receipt(p)
  <2>1. /\ phase[p] = "receipt" /\ output' = [output EXCEPT !.receipt = @ \cup {p}]
        /\ Ingestion!End(p) /\ UNCHANGED <<dirs, work>>
    BY <1>8 DEF Ingestion!Receipt
  <2>2. output = [by |-> {p}, evidence |-> Full, manifest |-> Full, receipt |-> {}]
    BY <1>1, <2>1 DEF Stage, NoOutput
  <2>3. output' = [by |-> {p}, evidence |-> Full, manifest |-> Full, receipt |-> {p}]
    BY <2>1, <2>2
  <2>4. Derived'
    BY <2>3 DEF Derived, Full
  <2> QED
    BY <1>0, <2>1, <2>4, EndIngestion
<1> QED
  BY <1>3, <1>4, <1>5, <1>6, <1>7, <1>8

LEMMA InitIngestion == PartsInit => IngestionInv
<1> SUFFICES ASSUME part = "ingestion", Ingestion!Init PROVE IngestionStages
  BY DEF PartsInit, IngestionInv
<1>1. dirs \in Seq(Directories)
  BY DEF Ingestion!Init
<1>2. IngestionOwned
  BY <1>1 DEF Ingestion!Init, IngestionOwned, Phases
<1>3. Derived
  BY DEF Ingestion!Init, Derived, NoOutput
<1>4. \A p \in Ingesters : phase[p] = "idle"
  BY DEF Ingestion!Init
<1> QED
  BY <1>2, <1>3, <1>4 DEF IngestionStages

LEMMA NextIngestion == IngestionInv /\ [PartsNext]_allVars => IngestionInv'
<1> SUFFICES ASSUME IngestionInv, [PartsNext]_allVars, part' = "ingestion"
             PROVE  IngestionStages'
  BY DEF IngestionInv
<1>1. part' = part
  BY DEF PartsNext, allVars, LedgerStep, IngestionStep, ReadinessStep, BundleStep,
         CorrectionStep, Ended
<1>2. IngestionStages
  BY <1>1 DEF IngestionInv
<1>3. CASE UNCHANGED <<runLock, dirs, temp, dest, phase, work, output>>
  <2>1. IngestionOwned'
    BY <1>2, <1>3 DEF IngestionStages, IngestionOwned
  <2>2. Derived'
    BY <1>2, <1>3 DEF IngestionStages, Derived, Full
  <2>3. \A p \in Ingesters : Extracting(p) => Extracting(p)'
    BY <1>3 DEF Extracting, Upto, Ingestion!Set
  <2>4. \A p \in Ingesters : Stage(p) => Stage(p)'
    BY <1>3, <2>3 DEF Stage, NoOutput, Full, Upto
  <2> QED
    BY <1>2, <1>3, <2>1, <2>2, <2>4 DEF IngestionStages
<1>4. CASE \E p \in Ingesters :
             \/ Ingestion!Begin(p) \/ Ingestion!Kill(p) \/ Ingestion!Fetch(p)
             \/ Ingestion!Check(p) \/ Ingestion!Clear(p) \/ Ingestion!Make(p)
             \/ Ingestion!OpenMember(p) \/ Ingestion!WritePart(p)
             \/ Ingestion!RemoveOld(p) \/ Ingestion!Move(p)
             \/ Ingestion!List(p) \/ Ingestion!Parse(p) \/ Ingestion!Parsed(p)
             \/ Ingestion!Derive(p) \/ Ingestion!Manifests(p) \/ Ingestion!Receipt(p)
  BY <1>2, <1>4, StartIngestion, ExtractIngestion, DeriveIngestion
<1>5. Ingestion!FetchAlone => UNCHANGED <<runLock, dirs, temp, dest, phase, work, output>>
  BY DEF Ingestion!FetchAlone
<1> QED
  BY <1>1, <1>3, <1>4, <1>5
  DEF PartsNext, allVars, ingestionVars, LedgerStep, IngestionStep, ReadinessStep, BundleStep,
      CorrectionStep, Ended, Ingestion!Next

LEMMA SameIngestionCardinality == \A S : Ingestion!Cardinality(S) = Cardinality(S)
<1>1. \A S : Ingestion!IsFiniteSet(S) = IsFiniteSet(S)
  BY DEF Ingestion!IsFiniteSet, IsFiniteSet
<1> QED
  BY <1>1 DEF Ingestion!Cardinality, Cardinality

(* ReceiptIsWhole, for any number of processes and of runs they start,       *)
(* wherever they are killed: an ingestion that left a receipt is whole and   *)
(* the work of one process (adapters/adapt.py).                              *)
THEOREM ReceiptsAreWhole == PartsSpec => []ReceiptIsWhole
<1>1. IngestionInv => ReceiptIsWhole
  <2> SUFFICES ASSUME Derived, output.receipt # {} PROVE Ingestion!ReceiptIsWhole
    BY DEF IngestionInv, IngestionStages, ReceiptIsWhole, Ingestion!ReceiptIsWhole
  <2>1. PICK p \in Ingesters :
          output = [by |-> {p}, evidence |-> Full, manifest |-> Full, receipt |-> {p}]
    BY DEF Derived, NoOutput
  <2>2. Ingestion!Cardinality({p}) = 1
    BY SameIngestionCardinality, FS_Singleton
  <2> QED
    BY <2>1, <2>2 DEF Ingestion!ReceiptIsWhole, Full
<1> QED
  BY InitIngestion, NextIngestion, <1>1, PTL DEF PartsSpec

(***************************************************************************)
(* ReadinessAudit.                                                         *)
(***************************************************************************)

LEMMA SameReadinessCardinality == \A S : Readiness!Cardinality(S) = Cardinality(S)
<1>1. \A S : Readiness!IsFiniteSet(S) = IsFiniteSet(S)
  BY DEF Readiness!IsFiniteSet, IsFiniteSet
<1> QED
  BY <1>1 DEF Readiness!Cardinality, Cardinality

(* The ingested truth is too poor for a gate to pass.                        *)
LEMMA PoorRecords ==
  /\ Readiness!Records("poor") = [i \in 1..3 |-> Readiness!Poor]
  /\ Readiness!Incidents("poor") = 1..3
<1>1. Readiness!Records("poor") = [i \in 1..Readiness!Floor |-> Readiness!Poor]
  BY DEF Readiness!Records
<1> QED
  BY <1>1 DEF Readiness!Floor, Readiness!Incidents

LEMMA PoorGates ==
  ASSUME NEW evidence
  PROVE  FALSE \in Readiness!Range(Readiness!Gates(evidence, "poor"))
<1>1. {i \in Readiness!Incidents("poor") : "cause" \in Readiness!Records("poor")[i].reviews} = {}
  BY PoorRecords DEF Readiness!Poor
<1>2. Readiness!Covered("poor", "cause") = 0
  BY <1>1, SameReadinessCardinality, FS_EmptySet DEF Readiness!Covered
<1>3. (Readiness!Covered("poor", "cause") >= Readiness!Floor) = FALSE
  BY <1>2 DEF Readiness!Floor
<1> DEFINE gates == Readiness!Gates(evidence, "poor")
<1>4. gates.count = FALSE /\ "count" \in DOMAIN gates
  BY <1>3, Zenon DEF Readiness!Gates
<1> HIDE DEF gates
<1>5. \E x \in DOMAIN gates : gates[x] = FALSE
  BY <1>4
<1> QED
  BY <1>5, Zenon DEF Readiness!Range, gates

LEMMA PoorVerdict ==
  ASSUME NEW a \in BOOLEAN, NEW b \in BOOLEAN, NEW c \in BOOLEAN, NEW evidence
  PROVE  /\ ~c => Readiness!Verdict({a, b, c}, Readiness!Gates(evidence, "poor")) = "INVALID"
         /\ a /\ b /\ c =>
              Readiness!Verdict({a, b, c}, Readiness!Gates(evidence, "poor")) = "BLOCKED_EVIDENCE"
<1>1. ~c => FALSE \in {a, b, c}
  OBVIOUS
<1>2. a /\ b /\ c => FALSE \notin {a, b, c}
  OBVIOUS
<1> QED
  BY <1>1, <1>2, PoorGates, Zenon DEF Readiness!Verdict

Manifested == {"receipt", "coverage", "evidence", "truth"}
Sourced == {"raw", "lock", "artifacts"} \cup Manifested
Auditing == {"evidence", "truth", "raw", "objects", "hashes", "artifacts", "text", "judge",
             "bundle", "verify", "end"}
Reported == {"bundle", "verify", "end"}

(* What is in place, whatever was changed: the artifacts that a receipt       *)
(* lists are those of the corpus, in the source and in the proof.            *)
AuditOwned ==
  /\ changes \in Nat
  /\ source = [f \in Sourced |-> source[f]] /\ source["receipt"].items = corpus.items
  /\ proof = [f \in DOMAIN proof |-> proof[f]]
  /\ "receipt" \in DOMAIN proof => proof["receipt"].items = corpus.items
  /\ DOMAIN proof \subseteq Manifested \cup {"lock"}
  /\ run = [at |-> run.at, next |-> run.next, signed |-> run.signed, evidence |-> run.evidence,
            truth |-> run.truth, raw |-> run.raw, failures |-> run.failures,
            report |-> run.report, bundled |-> run.bundled, outcome |-> run.outcome]
  /\ run.at \in Auditing \cup {"copy", "sign"} /\ run.next \in 1..4
  /\ run.at = "copy" => DOMAIN proof = {Readiness!Copied[i] : i \in 1..(run.next - 1)}
  /\ run.at \notin {"copy"} \cup Reported => DOMAIN proof = Manifested
  /\ run.at \in Reported => DOMAIN proof = Manifested \cup {"lock"}
  /\ run.at # "end" => run.outcome = "open"

(* What the ingestion's receipt pins, and what the report was made of.       *)
AuditPinned ==
  /\ run.at \in Auditing =>
       /\ run.signed.evidence = Readiness!Evidence /\ run.signed.truth = "poor"
       /\ run.signed.separated = Readiness!Receipt.separated
  /\ <<"coverage-exactness">> \notin run.failures
  /\ run.at \in Reported =>
       /\ run.report.source \in {{}, {<<"raw-bytes">>}}
       /\ run.report.parser = run.failures
       /\ run.report.leaks = Readiness!Coverage.leaks

(* What the audit has read and found so far when nothing was changed.        *)
Marker == Readiness!Failure(Readiness!Evidence.marked, "truth-marker")

UntouchedReport ==
  Readiness!Report({}, Marker, Readiness!Coverage.leaks,
                   Readiness!Receipt.separated /\ Marker = {} /\ ~Readiness!Coverage.leaks,
                   Readiness!Evidence, "poor")

AuditUntouched ==
  changes = 0 =>
    /\ source = Readiness!Ingested
    /\ \A f \in DOMAIN proof : proof[f] = Readiness!Ingested[f]
    /\ run.at \in Auditing =>
         run.signed = [receipt |-> Readiness!Receipt, coverage |-> Readiness!Coverage,
                       copy |-> Readiness!Evidence, evidence |-> Readiness!Evidence,
                       truth |-> "poor", separated |-> Readiness!Receipt.separated]
    /\ run.at \in Auditing \ {"evidence"} => run.evidence = Readiness!Evidence
    /\ run.at \in Auditing \ {"evidence", "truth"} => run.truth = "poor"
    /\ run.at \in Auditing \ {"evidence", "truth", "raw"} => run.raw = 0
    /\ run.failures = IF run.at \in {"judge"} \cup Reported THEN Marker ELSE {}
    /\ run.at \in Reported => run.report = UntouchedReport
    /\ run.at \in {"verify", "end"} => run.bundled = proof
    /\ run.outcome # "refused"

AuditVerified ==
  run.outcome = "verified" =>
    /\ run.report.verdict = IF corpus.leak = "none" THEN "BLOCKED_EVIDENCE" ELSE "INVALID"
    /\ proof["evidence"] = Readiness!Evidence /\ proof["truth"] = "poor"

ReadinessInv ==
  part = "readiness" => AuditOwned /\ AuditPinned /\ AuditUntouched /\ AuditVerified

LEMMA CopiedInOrder ==
  /\ Readiness!Copied[1] = "receipt" /\ Readiness!Copied[2] = "coverage"
  /\ Readiness!Copied[3] = "evidence" /\ Readiness!Copied[4] = "truth"
  /\ Len(Readiness!Copied) = 4
  /\ Readiness!Kept = Manifested \cup {"lock"}
<1>1. DOMAIN Readiness!Copied = {1, 2, 3, 4}
  BY DEF Readiness!Copied
<1>2. Readiness!Range(Readiness!Copied) = Manifested
  BY <1>1 DEF Readiness!Copied, Readiness!Range, Manifested
<1> QED
  BY <1>2 DEF Readiness!Copied, Readiness!Kept

(* The corpus does not change, nor what was ingested.                        *)
LEMMA SameIngested ==
  ASSUME corpus' = corpus
  PROVE  /\ Readiness!Evidence' = Readiness!Evidence /\ Readiness!Coverage' = Readiness!Coverage
         /\ Readiness!Receipt' = Readiness!Receipt /\ Readiness!Ingested' = Readiness!Ingested
         /\ Marker' = Marker /\ UntouchedReport' = UntouchedReport
<1>1. Readiness!Evidence' = Readiness!Evidence /\ Readiness!Coverage' = Readiness!Coverage
  BY DEF Readiness!Evidence, Readiness!Coverage
<1>2. Readiness!Receipt' = Readiness!Receipt
  BY <1>1 DEF Readiness!Receipt
<1>3. Readiness!Ingested' = Readiness!Ingested
  BY <1>1, <1>2 DEF Readiness!Ingested
<1>4. Marker' = Marker
  BY <1>1 DEF Marker, Readiness!Failure
<1>5. UntouchedReport' = UntouchedReport
  BY <1>1, <1>2, <1>4 DEF UntouchedReport, Readiness!Report, Readiness!Gates, Readiness!Verdict,
     Readiness!Transfers, Readiness!Covered, Readiness!Records, Readiness!Incidents
<1> QED
  BY <1>1, <1>2, <1>3, <1>4, <1>5

LEMMA IngestedParts ==
  /\ Readiness!Ingested = [f \in Sourced |-> Readiness!Ingested[f]]
  /\ Readiness!Ingested["receipt"] = Readiness!Receipt
  /\ Readiness!Ingested["coverage"] = Readiness!Coverage
  /\ Readiness!Ingested["evidence"] = Readiness!Evidence
  /\ Readiness!Ingested["truth"] = "poor"
  /\ Readiness!Ingested["lock"] = 0 /\ Readiness!Ingested["raw"] = 0
  /\ Readiness!Ingested["artifacts"] = corpus.items
  /\ Readiness!Receipt.items = corpus.items /\ Readiness!Receipt.lock = 0
  /\ Readiness!Receipt.evidence = Readiness!Evidence
  /\ Readiness!Receipt.truth = "poor" /\ Readiness!Receipt.coverage = Readiness!Coverage
  /\ Readiness!Evidence.items = corpus.items /\ Readiness!Evidence.commits = "poor"
  /\ Readiness!Coverage.files = 3
<1>1. DOMAIN Readiness!Ingested = Sourced
  BY DEF Readiness!Ingested, Sourced, Manifested
<1> QED
  BY <1>1 DEF Readiness!Ingested, Readiness!Receipt, Readiness!Evidence, Readiness!Coverage,
              Readiness!Floor

(* Whatever replaces a receipt lists the same artifacts.                     *)
LEMMA ReceiptContents ==
  \A c \in Readiness!Contents("receipt") : c.items = corpus.items
<1> SUFFICES ASSUME NEW c \in Readiness!Contents("receipt") PROVE c.items = corpus.items
  OBVIOUS
<1>1. c = Readiness!Receipt \/ c \in Readiness!Others["receipt"]
  BY IngestedParts DEF Readiness!Contents
<1>2. c \in Readiness!Others["receipt"] =>
        \/ \E b : c = [Readiness!Receipt EXCEPT !.separated = b]
        \/ c = [Readiness!Receipt EXCEPT !.truth = "rich"]
        \/ \E b : c = [Readiness!Receipt EXCEPT !.coverage = b]
  BY DEF Readiness!Others
<1>3. Readiness!Receipt.items = corpus.items
  BY IngestedParts
<1> QED
  BY <1>1, <1>2, <1>3 DEF Readiness!Receipt

Audited == AuditOwned /\ AuditPinned /\ AuditUntouched /\ AuditVerified

(* A change of a file, before the outcome.                                   *)
LEMMA ChangeReadiness ==
  ASSUME Audited, Readiness!Change,
         source' = [f \in Sourced |-> source'[f]], source'["receipt"].items = corpus.items,
         proof' = [f \in DOMAIN proof |-> proof'[f]],
         "receipt" \in DOMAIN proof => proof'["receipt"].items = corpus.items
  PROVE  Audited'
<1>1. corpus' = corpus /\ run' = run /\ changes' = changes + 1 /\ run.outcome = "open"
  BY DEF Readiness!Change
<1>2. changes' \in Nat /\ changes' # 0
  BY <1>1 DEF Audited, AuditOwned
<1>3. DOMAIN proof' = DOMAIN proof
  OBVIOUS
<1>4. AuditOwned'
  BY <1>1, <1>2, <1>3 DEF Audited, AuditOwned
<1>5. AuditPinned'
  BY <1>1, SameIngested DEF Audited, AuditPinned
<1>6. AuditUntouched'
  BY <1>2 DEF AuditUntouched
<1>7. AuditVerified'
  BY <1>1 DEF AuditVerified
<1> QED
  BY <1>4, <1>5, <1>6, <1>7 DEF Audited

LEMMA OthersReadiness ==
  ASSUME Audited,
         \/ \E f \in DOMAIN Readiness!Ingested : Readiness!Edit(f) \/ Readiness!EditProof(f)
         \/ Readiness!Swap
  PROVE  Audited'
<1>0. /\ source = [f \in Sourced |-> source[f]] /\ source["receipt"].items = corpus.items
      /\ proof = [f \in DOMAIN proof |-> proof[f]]
      /\ "receipt" \in DOMAIN proof => proof["receipt"].items = corpus.items
  BY DEF Audited, AuditOwned
<1>1. ASSUME NEW f \in DOMAIN Readiness!Ingested, Readiness!Edit(f) PROVE Audited'
  <2>1. PICK c \in Readiness!Contents(f) : source' = [source EXCEPT ![f] = c]
    BY <1>1 DEF Readiness!Edit
  <2>2. proof' = proof /\ Readiness!Change
    BY <1>1 DEF Readiness!Edit
  <2>3. source' = [g \in Sourced |-> source'[g]]
        /\ source'["receipt"] = IF f = "receipt" THEN c ELSE source["receipt"]
    BY <1>0, <2>1 DEF Sourced, Manifested
  <2>4. source'["receipt"].items = corpus.items
    BY <1>0, <2>1, <2>3, ReceiptContents
  <2> QED
    BY <1>0, <2>2, <2>3, <2>4, ChangeReadiness
<1>2. ASSUME NEW f \in DOMAIN Readiness!Ingested, Readiness!EditProof(f) PROVE Audited'
  <2>1. PICK c \in Readiness!Contents(f) : proof' = [proof EXCEPT ![f] = c]
    BY <1>2 DEF Readiness!EditProof
  <2>2. source' = source /\ Readiness!Change /\ f \in DOMAIN proof
    BY <1>2 DEF Readiness!EditProof
  <2>3. proof' = [g \in DOMAIN proof |-> proof'[g]]
        /\ ("receipt" \in DOMAIN proof => proof'["receipt"] = IF f = "receipt" THEN c ELSE proof["receipt"])
    BY <1>0, <2>1
  <2>4. "receipt" \in DOMAIN proof => proof'["receipt"].items = corpus.items
    BY <1>0, <2>1, <2>3, ReceiptContents
  <2> QED
    BY <1>0, <2>2, <2>3, <2>4, ChangeReadiness
<1>3. CASE Readiness!Swap
  <2>1. PICK t \in {"poor", "rich"} :
          source' = [source EXCEPT !["evidence"] = [Readiness!Evidence EXCEPT !.commits = t],
                                   !["truth"] = t]
    BY <1>3 DEF Readiness!Swap
  <2>2. proof' = proof /\ Readiness!Change
    BY <1>3 DEF Readiness!Swap
  <2> DEFINE e == [Readiness!Evidence EXCEPT !.commits = t]
  <2> HIDE DEF e
  <2>3. source' = [source EXCEPT !["evidence"] = e, !["truth"] = t]
    BY <2>1 DEF e
  <2>4. source' = [g \in Sourced |-> source'[g]] /\ source'["receipt"] = source["receipt"]
    BY <1>0, <2>3 DEF Sourced, Manifested
  <2> QED
    BY <1>0, <2>2, <2>4, ChangeReadiness
<1> QED
  BY <1>1, <1>2, <1>3

(* A step of the run that only reads: what it sets, and what is in place.    *)
LEMMA ReadReadiness ==
  ASSUME Audited, run.at \in (Auditing \cup {"sign"}) \ (Reported \cup {"judge"}),
         UNCHANGED <<corpus, changes, source, proof>>,
         run' = [at |-> run'.at, next |-> run.next, signed |-> run'.signed,
                 evidence |-> run'.evidence, truth |-> run'.truth, raw |-> run'.raw,
                 failures |-> run'.failures, report |-> run'.report, bundled |-> run'.bundled,
                 outcome |-> run.outcome],
         run'.at \in Auditing \ Reported, run.at \in Auditing => run'.signed = run.signed,
         run.at = "sign" =>
           /\ run'.signed.evidence = Readiness!Evidence /\ run'.signed.truth = "poor"
           /\ run'.signed.separated = Readiness!Receipt.separated,
         <<"coverage-exactness">> \notin run'.failures, AuditUntouched'
  PROVE  Audited'
<1>1. /\ corpus' = corpus /\ changes' = changes /\ source' = source /\ proof' = proof
      /\ run'.next = run.next /\ run'.outcome = run.outcome
  BY DEF Readiness!Change
<1>2. run.at \notin {"copy"} \cup Reported /\ run'.at \notin {"copy"} \cup Reported /\ run'.at # "end"
  BY DEF Auditing, Reported
<1>3. run.outcome = "open" /\ DOMAIN proof = Manifested
  BY <1>2 DEF Audited, AuditOwned, Reported
<1>4. AuditOwned'
  BY <1>1, <1>2, <1>3 DEF Audited, AuditOwned, Auditing
<1>5. AuditPinned'
  BY <1>1, <1>2, SameIngested DEF Audited, AuditPinned, Reported
<1>6. AuditVerified'
  BY <1>1, <1>3 DEF AuditVerified
<1> QED
  BY <1>4, <1>5, <1>6 DEF Audited

(* What the joins find: nothing among what was ingested.                     *)
LEMMA JoinNames ==
  /\ \A e, t : <<"coverage-exactness">> \notin Readiness!JoinFailures(e, t)
  /\ Readiness!JoinFailures(Readiness!Evidence, "poor") = {}
<1>1. \A e, t : <<"coverage-exactness">> \notin Readiness!JoinFailures(e, t)
  BY DEF Readiness!JoinFailures, Readiness!Failure
<1>2. Readiness!JoinFailures(Readiness!Evidence, "poor") = {}
  BY IngestedParts, PoorRecords DEF Readiness!JoinFailures, Readiness!Failure
<1> QED
  BY <1>1, <1>2

(* A step that notes what it found.                                          *)
LEMMA NoteReadiness ==
  ASSUME Audited, NEW found, NEW next \in {"hashes", "artifacts", "text", "judge"},
         run.at \in {"objects", "hashes", "artifacts", "text"},
         UNCHANGED <<corpus, changes, source, proof>>,
         run' = [at |-> next, next |-> run.next, signed |-> run.signed,
                 evidence |-> run.evidence, truth |-> run.truth, raw |-> run.raw,
                 failures |-> run.failures \cup found, report |-> run.report,
                 bundled |-> run.bundled, outcome |-> run.outcome],
         <<"coverage-exactness">> \notin found,
         changes = 0 => found = IF next = "judge" THEN Marker ELSE {}
  PROVE  Audited'
<1>1. run.at \in (Auditing \cup {"sign"}) \ (Reported \cup {"judge"}) /\ run.at \in Auditing
      /\ run.at \notin {"evidence", "truth", "raw"} /\ run'.at = next /\ run'.at \in Auditing \ Reported
  BY DEF Auditing, Reported
<1>2. <<"coverage-exactness">> \notin run'.failures
  BY DEF Audited, AuditPinned
<1>3. AuditUntouched'
  <2> SUFFICES ASSUME changes = 0 PROVE AuditUntouched'
    BY DEF AuditUntouched
  <2>1. /\ source = Readiness!Ingested
        /\ \A f \in DOMAIN proof : proof[f] = Readiness!Ingested[f]
        /\ run.signed = [receipt |-> Readiness!Receipt, coverage |-> Readiness!Coverage,
                         copy |-> Readiness!Evidence, evidence |-> Readiness!Evidence,
                         truth |-> "poor", separated |-> Readiness!Receipt.separated]
        /\ run.evidence = Readiness!Evidence /\ run.truth = "poor" /\ run.raw = 0
        /\ run.outcome # "refused"
    BY <1>1 DEF Audited, AuditUntouched
  <2>2. run.failures = {}
    BY <1>1 DEF Audited, AuditUntouched, Reported
  <2>3. run'.failures = IF next = "judge" THEN Marker ELSE {}
    BY <2>2
  <2>4. next \notin Reported /\ (next \in {"judge"} \cup Reported <=> next = "judge")
        /\ next \notin {"verify", "end"}
    BY DEF Reported
  <2> QED
    BY <1>1, <2>1, <2>3, <2>4, SameIngested DEF AuditUntouched
<1> QED
  BY <1>1, <1>2, <1>3, ReadReadiness

LEMMA NotesReadiness ==
  ASSUME Audited,
         \/ Readiness!CompareObjects \/ Readiness!HashManifests
         \/ Readiness!ArtifactIntegrity \/ Readiness!ReadText
  PROVE  Audited'
<1>0. run = [at |-> run.at, next |-> run.next, signed |-> run.signed, evidence |-> run.evidence,
             truth |-> run.truth, raw |-> run.raw, failures |-> run.failures,
             report |-> run.report, bundled |-> run.bundled, outcome |-> run.outcome]
  BY DEF Audited, AuditOwned
<1>1. changes = 0 =>
        /\ source = Readiness!Ingested
        /\ run.at \in {"objects", "hashes", "artifacts", "text"} =>
             run.evidence = Readiness!Evidence /\ run.truth = "poor"
  BY DEF Audited, AuditUntouched, Auditing
<1>2. CASE Readiness!CompareObjects
  <2>1. run' = [run EXCEPT !.at = "hashes", !.failures = @ \cup (Readiness!Failure(source["receipt"] # Readiness!Receipt, "receipt-object")
                 \cup Readiness!Failure(source["coverage"] # Readiness!Coverage, "coverage-object"))]
        /\ run.at = "objects" /\ UNCHANGED <<corpus, changes, source, proof>>
    BY <1>2 DEF Readiness!CompareObjects, Readiness!Note, Readiness!At
  <2> DEFINE found == Readiness!Failure(source["receipt"] # Readiness!Receipt, "receipt-object")
                 \cup Readiness!Failure(source["coverage"] # Readiness!Coverage, "coverage-object")
  <2>2. <<"coverage-exactness">> \notin found
    BY DEF Readiness!Failure
  <2>3. changes = 0 => found = {}
    BY <1>1, IngestedParts DEF Readiness!Failure
  <2> HIDE DEF found
  <2>4. /\ run' = [at |-> "hashes", next |-> run.next, signed |-> run.signed,
                  evidence |-> run.evidence, truth |-> run.truth, raw |-> run.raw,
                  failures |-> run.failures \cup found, report |-> run.report,
                  bundled |-> run.bundled, outcome |-> run.outcome]
    BY <1>0, <2>1 DEF found
  <2> QED
    BY <2>1, <2>2, <2>3, <2>4, NoteReadiness
<1>3. CASE Readiness!HashManifests
  <2>1. run' = [run EXCEPT !.at = "artifacts", !.failures = @ \cup ({<<"producer-artifact-hash", f>> :
                    f \in {g \in {"evidence", "truth", "coverage"} : source[g] # Readiness!Receipt[g]}}
                 \cup Readiness!JoinFailures(run.evidence, run.truth))]
        /\ run.at = "hashes" /\ UNCHANGED <<corpus, changes, source, proof>>
    BY <1>3 DEF Readiness!HashManifests, Readiness!Note, Readiness!At
  <2> DEFINE found == {<<"producer-artifact-hash", f>> :
                    f \in {g \in {"evidence", "truth", "coverage"} : source[g] # Readiness!Receipt[g]}}
                 \cup Readiness!JoinFailures(run.evidence, run.truth)
  <2>2. <<"coverage-exactness">> \notin found
    BY JoinNames
  <2>3. changes = 0 => found = {}
    <3>1. changes = 0 => \A g \in {"evidence", "truth", "coverage"} : source[g] = Readiness!Receipt[g]
      BY <1>1, IngestedParts
    <3> QED
      BY <1>1, <2>1, <3>1, JoinNames
  <2> HIDE DEF found
  <2>4. /\ run' = [at |-> "artifacts", next |-> run.next, signed |-> run.signed,
                  evidence |-> run.evidence, truth |-> run.truth, raw |-> run.raw,
                  failures |-> run.failures \cup found, report |-> run.report,
                  bundled |-> run.bundled, outcome |-> run.outcome]
    BY <1>0, <2>1 DEF found
  <2> QED
    BY <2>1, <2>2, <2>3, <2>4, NoteReadiness
<1>4. CASE Readiness!ArtifactIntegrity
  <2>1. run' = [run EXCEPT !.at = "text", !.failures = @ \cup (Readiness!Failure(source["artifacts"] # run.evidence.items, "artifact-bytes")
                 \cup Readiness!Failure(
                        Readiness!Range(source["artifacts"]) # Readiness!Range(Readiness!Receipt.items),
                        "derived-artifact-set"))]
        /\ run.at = "artifacts" /\ UNCHANGED <<corpus, changes, source, proof>>
    BY <1>4 DEF Readiness!ArtifactIntegrity, Readiness!Note, Readiness!At
  <2> DEFINE found == Readiness!Failure(source["artifacts"] # run.evidence.items, "artifact-bytes")
                 \cup Readiness!Failure(
                        Readiness!Range(source["artifacts"]) # Readiness!Range(Readiness!Receipt.items),
                        "derived-artifact-set")
  <2>2. <<"coverage-exactness">> \notin found
    BY DEF Readiness!Failure
  <2>3. changes = 0 => found = {}
    <3>1. changes = 0 => source["artifacts"] = run.evidence.items
                        /\ source["artifacts"] = Readiness!Receipt.items
      BY <1>1, <2>1, IngestedParts
    <3> QED
      BY <3>1 DEF Readiness!Failure
  <2> HIDE DEF found
  <2>4. /\ run' = [at |-> "text", next |-> run.next, signed |-> run.signed,
                  evidence |-> run.evidence, truth |-> run.truth, raw |-> run.raw,
                  failures |-> run.failures \cup found, report |-> run.report,
                  bundled |-> run.bundled, outcome |-> run.outcome]
    BY <1>0, <2>1 DEF found
  <2> QED
    BY <2>1, <2>2, <2>3, <2>4, NoteReadiness
<1>5. CASE Readiness!ReadText
  <2>1. run' = [run EXCEPT !.at = "judge", !.failures = @ \cup (Readiness!Failure(source["evidence"].marked, "truth-marker"))]
        /\ run.at = "text" /\ UNCHANGED <<corpus, changes, source, proof>>
    BY <1>5 DEF Readiness!ReadText, Readiness!Note, Readiness!At
  <2> DEFINE found == Readiness!Failure(source["evidence"].marked, "truth-marker")
  <2>2. <<"coverage-exactness">> \notin found
    BY DEF Readiness!Failure
  <2>3. changes = 0 => found = Marker
    BY <1>1, IngestedParts DEF Marker
  <2> HIDE DEF found
  <2>4. /\ run' = [at |-> "judge", next |-> run.next, signed |-> run.signed,
                  evidence |-> run.evidence, truth |-> run.truth, raw |-> run.raw,
                  failures |-> run.failures \cup found, report |-> run.report,
                  bundled |-> run.bundled, outcome |-> run.outcome]
    BY <1>0, <2>1 DEF found
  <2> QED
    BY <2>1, <2>2, <2>3, <2>4, NoteReadiness
<1> QED
  BY <1>2, <1>3, <1>4, <1>5

LEMMA ReadsReadiness ==
  ASSUME Audited,
         \/ Readiness!Sign \/ Readiness!LoadEvidence \/ Readiness!LoadTruth
         \/ Readiness!SourceIntegrity
  PROVE  Audited'
<1>0. run = [at |-> run.at, next |-> run.next, signed |-> run.signed, evidence |-> run.evidence,
             truth |-> run.truth, raw |-> run.raw, failures |-> run.failures,
             report |-> run.report, bundled |-> run.bundled, outcome |-> run.outcome]
  BY DEF Audited, AuditOwned
<1>1. <<"coverage-exactness">> \notin run.failures
  BY DEF Audited, AuditPinned
<1>2. CASE Readiness!Sign
  <2> DEFINE signed == [receipt |-> proof["receipt"], coverage |-> proof["coverage"],
                        copy |-> proof["evidence"], evidence |-> Readiness!Receipt.evidence,
                        truth |-> Readiness!Receipt.truth, separated |-> Readiness!Receipt.separated]
  <2>1. run' = [run EXCEPT !.at = "evidence", !.signed = signed]
        /\ run.at = "sign" /\ UNCHANGED <<corpus, changes, source, proof>>
    BY <1>2 DEF Readiness!Sign, Readiness!At
  <2>2. /\ signed.evidence = Readiness!Evidence /\ signed.truth = "poor"
        /\ signed.separated = Readiness!Receipt.separated
    BY IngestedParts
  <2>3. changes = 0 => signed = [receipt |-> Readiness!Receipt, coverage |-> Readiness!Coverage,
                                 copy |-> Readiness!Evidence, evidence |-> Readiness!Evidence,
                                 truth |-> "poor", separated |-> Readiness!Receipt.separated]
    <3>1. DOMAIN proof = Manifested
      BY <2>1 DEF Audited, AuditOwned, Reported
    <3>2. changes = 0 => \A f \in Manifested : proof[f] = Readiness!Ingested[f]
      BY <3>1 DEF Audited, AuditUntouched
    <3>3. changes = 0 => /\ proof["receipt"] = Readiness!Receipt /\ proof["coverage"] = Readiness!Coverage
                         /\ proof["evidence"] = Readiness!Evidence
      BY <3>2, IngestedParts DEF Manifested
    <3> QED
      BY <3>3, IngestedParts
  <2> HIDE DEF signed
  <2>4. run' = [at |-> "evidence", next |-> run.next, signed |-> signed, evidence |-> run.evidence,
                truth |-> run.truth, raw |-> run.raw, failures |-> run.failures,
                report |-> run.report, bundled |-> run.bundled, outcome |-> run.outcome]
    BY <1>0, <2>1
  <2>5. changes = 0 => run.failures = {} /\ source = Readiness!Ingested
                       /\ (\A f \in DOMAIN proof : proof[f] = Readiness!Ingested[f])
                       /\ run.outcome # "refused"
    BY <2>1 DEF Audited, AuditUntouched, Reported
  <2>6. AuditUntouched'
    BY <2>1, <2>3, <2>4, <2>5, SameIngested DEF AuditUntouched, Auditing, Reported
  <2>7. run'.at \in Auditing \ Reported /\ run.at \notin Auditing
        /\ run.at \in (Auditing \cup {"sign"}) \ (Reported \cup {"judge"})
    BY <2>1, <2>4 DEF Auditing, Reported
  <2> QED
    BY <1>1, <2>1, <2>2, <2>4, <2>6, <2>7, ReadReadiness
<1>3. CASE Readiness!LoadEvidence
  <2>1. run' = [run EXCEPT !.at = "truth", !["evidence"] = source["evidence"]]
        /\ run.at = "evidence" /\ UNCHANGED <<corpus, changes, source, proof>>
    BY <1>3 DEF Readiness!LoadEvidence, Readiness!Read, Readiness!At
  <2>2. run' = [at |-> "truth", next |-> run.next, signed |-> run.signed, evidence |-> source["evidence"], truth |-> run.truth, raw |-> run.raw, failures |-> run.failures, report |-> run.report, bundled |-> run.bundled, outcome |-> run.outcome]
    BY <1>0, <2>1
  <2>3. changes = 0 =>
          /\ run.failures = {} /\ source = Readiness!Ingested /\ run.outcome # "refused"
          /\ \A f \in DOMAIN proof : proof[f] = Readiness!Ingested[f]
          /\ run.signed = [receipt |-> Readiness!Receipt, coverage |-> Readiness!Coverage,
                           copy |-> Readiness!Evidence, evidence |-> Readiness!Evidence,
                           truth |-> "poor", separated |-> Readiness!Receipt.separated]
          /\ run.at # "evidence" => run.evidence = Readiness!Evidence
          /\ run.at = "raw" => run.truth = "poor"
    BY <2>1 DEF Audited, AuditUntouched, Auditing, Reported
  <2>4. AuditUntouched'
    BY <2>1, <2>2, <2>3, SameIngested, IngestedParts DEF AuditUntouched, Auditing, Reported
  <2>5. run'.at \in Auditing \ Reported /\ run.at # "sign"
        /\ run.at \in (Auditing \cup {"sign"}) \ (Reported \cup {"judge"})
    BY <2>1, <2>2 DEF Auditing, Reported
  <2> QED
    BY <1>1, <2>1, <2>2, <2>4, <2>5, ReadReadiness
<1>4. CASE Readiness!LoadTruth
  <2>1. run' = [run EXCEPT !.at = "raw", !["truth"] = source["truth"]]
        /\ run.at = "truth" /\ UNCHANGED <<corpus, changes, source, proof>>
    BY <1>4 DEF Readiness!LoadTruth, Readiness!Read, Readiness!At
  <2>2. run' = [at |-> "raw", next |-> run.next, signed |-> run.signed, evidence |-> run.evidence, truth |-> source["truth"], raw |-> run.raw, failures |-> run.failures, report |-> run.report, bundled |-> run.bundled, outcome |-> run.outcome]
    BY <1>0, <2>1
  <2>3. changes = 0 =>
          /\ run.failures = {} /\ source = Readiness!Ingested /\ run.outcome # "refused"
          /\ \A f \in DOMAIN proof : proof[f] = Readiness!Ingested[f]
          /\ run.signed = [receipt |-> Readiness!Receipt, coverage |-> Readiness!Coverage,
                           copy |-> Readiness!Evidence, evidence |-> Readiness!Evidence,
                           truth |-> "poor", separated |-> Readiness!Receipt.separated]
          /\ run.at # "evidence" => run.evidence = Readiness!Evidence
          /\ run.at = "raw" => run.truth = "poor"
    BY <2>1 DEF Audited, AuditUntouched, Auditing, Reported
  <2>4. AuditUntouched'
    BY <2>1, <2>2, <2>3, SameIngested, IngestedParts DEF AuditUntouched, Auditing, Reported
  <2>5. run'.at \in Auditing \ Reported /\ run.at # "sign"
        /\ run.at \in (Auditing \cup {"sign"}) \ (Reported \cup {"judge"})
    BY <2>1, <2>2 DEF Auditing, Reported
  <2> QED
    BY <1>1, <2>1, <2>2, <2>4, <2>5, ReadReadiness
<1>5. CASE Readiness!SourceIntegrity
  <2>1. run' = [run EXCEPT !.at = "objects", !["raw"] = source["raw"]]
        /\ run.at = "raw" /\ UNCHANGED <<corpus, changes, source, proof>>
    BY <1>5 DEF Readiness!SourceIntegrity, Readiness!Read, Readiness!At
  <2>2. run' = [at |-> "objects", next |-> run.next, signed |-> run.signed, evidence |-> run.evidence, truth |-> run.truth, raw |-> source["raw"], failures |-> run.failures, report |-> run.report, bundled |-> run.bundled, outcome |-> run.outcome]
    BY <1>0, <2>1
  <2>3. changes = 0 =>
          /\ run.failures = {} /\ source = Readiness!Ingested /\ run.outcome # "refused"
          /\ \A f \in DOMAIN proof : proof[f] = Readiness!Ingested[f]
          /\ run.signed = [receipt |-> Readiness!Receipt, coverage |-> Readiness!Coverage,
                           copy |-> Readiness!Evidence, evidence |-> Readiness!Evidence,
                           truth |-> "poor", separated |-> Readiness!Receipt.separated]
          /\ run.at # "evidence" => run.evidence = Readiness!Evidence
          /\ run.at = "raw" => run.truth = "poor"
    BY <2>1 DEF Audited, AuditUntouched, Auditing, Reported
  <2>4. AuditUntouched'
    BY <2>1, <2>2, <2>3, SameIngested, IngestedParts DEF AuditUntouched, Auditing, Reported
  <2>5. run'.at \in Auditing \ Reported /\ run.at # "sign"
        /\ run.at \in (Auditing \cup {"sign"}) \ (Reported \cup {"judge"})
    BY <2>1, <2>2 DEF Auditing, Reported
  <2> QED
    BY <1>1, <2>1, <2>2, <2>4, <2>5, ReadReadiness
<1> QED
  BY <1>2, <1>3, <1>4, <1>5

(* A file is copied into the proof root.                                     *)
LEMMA CopyReadiness ==
  ASSUME Audited, Readiness!Copy
  PROVE  Audited'
<1> DEFINE f == Readiness!Copied[run.next]
<1>1. /\ run.at = "copy" /\ UNCHANGED <<corpus, changes, source>>
      /\ proof' = [g \in DOMAIN proof \cup {f} |-> IF g = f THEN source[f] ELSE proof[g]]
      /\ run' = IF run.next = Len(Readiness!Copied) THEN [run EXCEPT !.at = "sign"]
                ELSE [run EXCEPT !.next = @ + 1]
  BY DEF Readiness!Copy, Readiness!At
<1>2. /\ run = [at |-> run.at, next |-> run.next, signed |-> run.signed, evidence |-> run.evidence,
                truth |-> run.truth, raw |-> run.raw, failures |-> run.failures,
                report |-> run.report, bundled |-> run.bundled, outcome |-> run.outcome]
      /\ run.next \in 1..4 /\ run.outcome = "open"
      /\ DOMAIN proof = {Readiness!Copied[i] : i \in 1..(run.next - 1)}
  BY <1>1 DEF Audited, AuditOwned
<1>3. f \in Manifested
  BY <1>2, CopiedInOrder DEF Manifested
<1>4. DOMAIN proof' = {Readiness!Copied[i] : i \in 1..run.next}
  <2>1. DOMAIN proof' = DOMAIN proof \cup {f}
    BY <1>1
  <2> QED
    BY <1>2, <2>1
<1>5. \A i \in 1..run.next : Readiness!Copied[i] \in Manifested
  BY <1>2, CopiedInOrder DEF Manifested
<1>6. run.next = 4 => DOMAIN proof' = Manifested
  <2>1. run.next = 4 => 1..run.next = {1, 2, 3, 4}
    BY <1>2
  <2> QED
    BY <1>4, <2>1, CopiedInOrder DEF Manifested
<1>7. /\ proof' = [g \in DOMAIN proof' |-> proof'[g]] /\ DOMAIN proof' \subseteq Manifested
      /\ "receipt" \in DOMAIN proof' => proof'["receipt"].items = corpus.items
  <2>1. proof' = [g \in DOMAIN proof' |-> proof'[g]] /\ DOMAIN proof' \subseteq Manifested
    BY <1>1, <1>4, <1>5
  <2>2. "receipt" \in DOMAIN proof' =>
          \/ proof'["receipt"] = source["receipt"]
          \/ "receipt" \in DOMAIN proof /\ proof'["receipt"] = proof["receipt"]
    BY <1>1
  <2> QED
    BY <2>1, <2>2 DEF Audited, AuditOwned
<1>8. changes = 0 => \A g \in DOMAIN proof' : proof'[g] = Readiness!Ingested[g]
  <2> SUFFICES ASSUME changes = 0, NEW g \in DOMAIN proof' PROVE proof'[g] = Readiness!Ingested[g]
    OBVIOUS
  <2>1. source = Readiness!Ingested /\ \A h \in DOMAIN proof : proof[h] = Readiness!Ingested[h]
    BY DEF Audited, AuditUntouched
  <2> QED
    BY <1>1, <2>1
<1> HIDE DEF f
<1>9. run' = [at |-> IF run.next = 4 THEN "sign" ELSE "copy",
              next |-> IF run.next = 4 THEN run.next ELSE run.next + 1, signed |-> run.signed,
              evidence |-> run.evidence, truth |-> run.truth, raw |-> run.raw,
              failures |-> run.failures, report |-> run.report, bundled |-> run.bundled,
              outcome |-> run.outcome]
  BY <1>1, <1>2, CopiedInOrder
<1>10. /\ run'.at \in {"copy", "sign"} /\ run'.at \notin Auditing \cup Reported
       /\ run'.next \in 1..4 /\ run'.outcome = "open" /\ run'.failures = run.failures
       /\ run'.at = "copy" => run'.next - 1 = run.next
       /\ run'.at = "sign" => run.next = 4
  BY <1>2, <1>9 DEF Auditing, Reported
<1>11. AuditOwned'
  <2>1. /\ changes' \in Nat /\ source' = [g \in Sourced |-> source'[g]]
        /\ source'["receipt"].items = corpus'.items
    BY <1>1 DEF Audited, AuditOwned
  <2>2. run'.at = "copy" => DOMAIN proof' = {Readiness!Copied[i] : i \in 1..(run'.next - 1)}
    BY <1>4, <1>10
  <2>3. run'.at # "copy" => DOMAIN proof' = Manifested
    BY <1>6, <1>10
  <2>4. /\ run' = [at |-> run'.at, next |-> run'.next, signed |-> run'.signed,
                  evidence |-> run'.evidence, truth |-> run'.truth, raw |-> run'.raw,
                  failures |-> run'.failures, report |-> run'.report, bundled |-> run'.bundled,
                  outcome |-> run'.outcome]
    BY <1>9
  <2>5. run'.at \in Auditing \cup {"copy", "sign"} /\ run'.at \notin Reported
    BY <1>10
  <2>6. /\ proof' = [g \in DOMAIN proof' |-> proof'[g]]
        /\ DOMAIN proof' \subseteq Manifested \cup {"lock"}
        /\ ("receipt" \in DOMAIN proof' => proof'["receipt"].items = corpus'.items)
    BY <1>1, <1>7
  <2> QED
    BY <1>10, <2>1, <2>2, <2>3, <2>4, <2>5, <2>6 DEF AuditOwned
<1>12. AuditPinned'
  BY <1>10 DEF Audited, AuditPinned
<1>13. AuditUntouched'
  <2>1. changes = 0 => source = Readiness!Ingested /\ run.failures = {}
    BY <1>1 DEF Audited, AuditUntouched, Reported
  <2> QED
    BY <1>1, <1>8, <1>10, <2>1, SameIngested DEF AuditUntouched, Auditing, Reported
<1>14. AuditVerified'
  BY <1>10 DEF AuditVerified
<1> QED
  BY <1>11, <1>12, <1>13, <1>14 DEF Audited

(* The readiness is judged, and the lock is copied.                          *)
LEMMA JudgeReadiness ==
  ASSUME Audited, Readiness!Judge
  PROVE  Audited'
<1> DEFINE report == Readiness!Report(Readiness!Failure(run.raw # 0, "raw-bytes"), run.failures,
                       Readiness!Coverage.leaks,
                       Readiness!Receipt.separated /\ run.failures = {} /\ ~Readiness!Coverage.leaks,
                       run.evidence, run.truth)
<1>1. /\ run.at = "judge" /\ UNCHANGED <<corpus, changes, source>>
      /\ run' = [run EXCEPT !.at = "bundle", !.report = report]
      /\ proof' = [f \in Readiness!Kept |-> IF f = "lock" THEN source["lock"] ELSE proof[f]]
  BY DEF Readiness!Judge, Readiness!At
<1>2. /\ run = [at |-> run.at, next |-> run.next, signed |-> run.signed, evidence |-> run.evidence,
                truth |-> run.truth, raw |-> run.raw, failures |-> run.failures,
                report |-> run.report, bundled |-> run.bundled, outcome |-> run.outcome]
      /\ run.outcome = "open" /\ DOMAIN proof = Manifested
  BY <1>1 DEF Audited, AuditOwned, Reported
<1>3. /\ report.source \in {{}, {<<"raw-bytes">>}} /\ report.parser = run.failures
      /\ report.leaks = Readiness!Coverage.leaks
  BY DEF Readiness!Report, Readiness!Failure
<1>4. changes = 0 =>
        /\ source = Readiness!Ingested /\ run.failures = Marker /\ run.raw = 0
        /\ run.evidence = Readiness!Evidence /\ run.truth = "poor"
        /\ (\A f \in DOMAIN proof : proof[f] = Readiness!Ingested[f])
        /\ run.signed = [receipt |-> Readiness!Receipt, coverage |-> Readiness!Coverage,
                         copy |-> Readiness!Evidence, evidence |-> Readiness!Evidence,
                         truth |-> "poor", separated |-> Readiness!Receipt.separated]
  BY <1>1 DEF Audited, AuditUntouched, Auditing, Reported
<1>5. changes = 0 => report = UntouchedReport
  <2>1. changes = 0 => Readiness!Failure(run.raw # 0, "raw-bytes") = {}
    BY <1>4 DEF Readiness!Failure
  <2> QED
    BY <1>4, <2>1 DEF UntouchedReport
<1> HIDE DEF report
<1>6. run' = [at |-> "bundle", next |-> run.next, signed |-> run.signed,
              evidence |-> run.evidence, truth |-> run.truth, raw |-> run.raw,
              failures |-> run.failures, report |-> report, bundled |-> run.bundled,
              outcome |-> run.outcome]
  BY <1>1, <1>2
<1>7. /\ proof' = [f \in DOMAIN proof' |-> proof'[f]] /\ DOMAIN proof' = Manifested \cup {"lock"}
      /\ proof'["receipt"] = proof["receipt"]
      /\ \A f \in Manifested : proof'[f] = proof[f]
      /\ proof'["lock"] = source["lock"]
  BY <1>1, CopiedInOrder DEF Manifested
<1>8. AuditOwned'
  <2>1. /\ changes' \in Nat /\ source' = [g \in Sourced |-> source'[g]]
        /\ source'["receipt"].items = corpus'.items /\ proof["receipt"].items = corpus'.items
        /\ run.next \in 1..4
    BY <1>1, <1>2 DEF Audited, AuditOwned, Manifested
  <2> QED
    BY <1>2, <1>6, <1>7, <2>1 DEF AuditOwned, Auditing, Reported
<1>9. AuditPinned'
  BY <1>1, <1>3, <1>6, SameIngested DEF Audited, AuditPinned, Auditing, Reported
<1>10. AuditUntouched'
  <2>1. changes = 0 => \A f \in DOMAIN proof' : proof'[f] = Readiness!Ingested[f]
    BY <1>2, <1>4, <1>7, IngestedParts
  <2> QED
    BY <1>1, <1>2, <1>4, <1>5, <1>6, <2>1, SameIngested DEF AuditUntouched, Auditing, Reported
<1>11. AuditVerified'
  BY <1>2, <1>6 DEF AuditVerified
<1> QED
  BY <1>8, <1>9, <1>10, <1>11 DEF Audited

LEMMA BundleReadiness ==
  ASSUME Audited, Readiness!Bundle
  PROVE  Audited'
<1>1. /\ run.at = "bundle" /\ UNCHANGED <<corpus, changes, source, proof>>
      /\ run' = [run EXCEPT !.at = "verify", !.bundled = proof]
  BY DEF Readiness!Bundle, Readiness!At
<1>2. /\ run = [at |-> run.at, next |-> run.next, signed |-> run.signed, evidence |-> run.evidence,
                truth |-> run.truth, raw |-> run.raw, failures |-> run.failures,
                report |-> run.report, bundled |-> run.bundled, outcome |-> run.outcome]
      /\ run.outcome = "open"
  BY <1>1 DEF Audited, AuditOwned
<1>3. run' = [at |-> "verify", next |-> run.next, signed |-> run.signed,
              evidence |-> run.evidence, truth |-> run.truth, raw |-> run.raw,
              failures |-> run.failures, report |-> run.report, bundled |-> proof,
              outcome |-> run.outcome]
  BY <1>1, <1>2
<1>4. AuditOwned'
  <2>1. run.at \in Reported /\ "verify" \in Reported /\ "verify" \in Auditing
        /\ "verify" \notin {"copy", "end"}
    BY <1>1 DEF Reported, Auditing
  <2>2. run.next \in 1..4 /\ DOMAIN proof = Manifested \cup {"lock"}
    BY <2>1 DEF Audited, AuditOwned
  <2>3. /\ run' = [at |-> run'.at, next |-> run'.next, signed |-> run'.signed,
                  evidence |-> run'.evidence, truth |-> run'.truth, raw |-> run'.raw,
                  failures |-> run'.failures, report |-> run'.report, bundled |-> run'.bundled,
                  outcome |-> run'.outcome]
        /\ run'.at = "verify" /\ run'.next = run.next /\ run'.outcome = "open"
    BY <1>2, <1>3
  <2> QED
    BY <1>1, <2>1, <2>2, <2>3 DEF Audited, AuditOwned
<1>5. AuditPinned'
  BY <1>1, <1>3, SameIngested DEF Audited, AuditPinned, Auditing, Reported
<1>6. AuditUntouched'
  BY <1>1, <1>2, <1>3, SameIngested DEF Audited, AuditUntouched, Auditing, Reported
<1>7. AuditVerified'
  BY <1>2, <1>3 DEF AuditVerified
<1> QED
  BY <1>4, <1>5, <1>6, <1>7 DEF Audited

(* What the audit of the copies reports of the poor truth.                   *)
LEMMA PoorProof ==
  ASSUME proof["evidence"] = Readiness!Evidence, proof["truth"] = "poor",
         proof["receipt"].evidence = Readiness!Evidence, proof["receipt"].truth = "poor",
         proof["receipt"].coverage = proof["coverage"], proof["receipt"].items = corpus.items,
         proof["receipt"].separated = Readiness!Receipt.separated,
         proof["coverage"].files = 3
  PROVE  Readiness!ProofFailures = Marker
<1>1. /\ Readiness!Incidents("poor") = 1..3 /\ Readiness!Evidence.commits = "poor"
      /\ Readiness!Evidence.items = corpus.items /\ Readiness!Floor = 3
  BY PoorRecords, IngestedParts DEF Readiness!Floor
<1>2. Readiness!JoinFailures(proof["evidence"], proof["truth"]) = {}
  BY JoinNames
<1>3. \A name : Readiness!Failure(FALSE, name) = {}
  BY DEF Readiness!Failure
<1>4. /\ Readiness!Failure(proof["evidence"] # proof["receipt"].evidence, "evidence-manifest-hash") = {}
      /\ Readiness!Failure(proof["truth"] # proof["receipt"].truth, "truth-manifest-hash") = {}
      /\ Readiness!Failure(proof["coverage"] # proof["receipt"].coverage, "coverage-report-hash") = {}
      /\ Readiness!Failure(proof["coverage"].files # Readiness!Floor, "coverage-exactness") = {}
      /\ Readiness!Failure(1..proof["coverage"].files # Readiness!Incidents(proof["evidence"].commits),
                           "coverage-evidence-join") = {}
      /\ Readiness!Failure(proof["receipt"].items # proof["evidence"].items, "derived-artifact-set") = {}
  BY <1>1 DEF Readiness!Failure
<1>5. Readiness!Failure(proof["evidence"].marked, "truth-marker") = Marker
  BY DEF Marker
<1> QED
  BY <1>2, <1>4, <1>5 DEF Readiness!ProofFailures

LEMMA ProofReportParts ==
  /\ Readiness!ProofReport.source = Readiness!Failure(proof["receipt"].lock # proof["lock"],
                                                    "dataset-lock-content")
  /\ Readiness!ProofReport.parser = Readiness!ProofFailures
  /\ Readiness!ProofReport.leaks = proof["coverage"].leaks
  /\ Readiness!ProofReport.verdict =
       Readiness!Verdict({Readiness!ProofReport.source = {}, Readiness!ProofFailures = {},
                          proof["receipt"].separated /\ Readiness!ProofFailures = {}
                            /\ ~proof["coverage"].leaks},
                         Readiness!Gates(proof["evidence"], proof["truth"]))
BY DEF Readiness!ProofReport, Readiness!Report

(* A verdict that is verified.                                               *)
LEMMA CommittedReadiness ==
  ASSUME Audited, run.at = "verify", Readiness!Committed, Readiness!SameReport
  PROVE  /\ run.report.verdict = IF corpus.leak = "none" THEN "BLOCKED_EVIDENCE" ELSE "INVALID"
         /\ proof["evidence"] = Readiness!Evidence /\ proof["truth"] = "poor"
<1>1. /\ run.signed.evidence = Readiness!Evidence /\ run.signed.truth = "poor"
      /\ run.signed.separated = Readiness!Receipt.separated
      /\ run.report.source \in {{}, {<<"raw-bytes">>}} /\ run.report.parser = run.failures
      /\ run.report.leaks = Readiness!Coverage.leaks
      /\ <<"coverage-exactness">> \notin run.failures
  BY DEF Audited, AuditPinned, Auditing, Reported
<1>2. proof["receipt"].items = corpus.items
  BY DEF Audited, AuditOwned, Reported, Manifested
<1>3. /\ proof["evidence"] = Readiness!Evidence /\ proof["truth"] = "poor"
      /\ proof["receipt"].evidence = Readiness!Evidence /\ proof["receipt"].truth = "poor"
      /\ proof["receipt"].coverage = proof["coverage"]
      /\ proof["receipt"].separated = Readiness!Receipt.separated
  BY <1>1 DEF Readiness!Committed
<1>4. run.report = Readiness!ProofReport
  BY DEF Readiness!SameReport
<1> DEFINE c == proof["receipt"].separated /\ Readiness!ProofFailures = {} /\ ~proof["coverage"].leaks
<1>5. run.report.verdict = Readiness!Verdict({run.report.source = {}, Readiness!ProofFailures = {}, c},
                                             Readiness!Gates(proof["evidence"], "poor"))
  BY <1>3, <1>4, ProofReportParts
<1>6. (run.report.source = {}) \in BOOLEAN /\ (Readiness!ProofFailures = {}) \in BOOLEAN /\ c \in BOOLEAN
  OBVIOUS
<1>7. CASE corpus.leak # "none"
  <2>1. ~c
    BY <1>3, <1>7 DEF Readiness!Receipt
  <2> HIDE DEF c
  <2>2. c = FALSE
    BY <2>1, <1>6
  <2>3. FALSE \in {run.report.source = {}, Readiness!ProofFailures = {}, c}
    BY <2>2, Zenon
  <2>4. run.report.verdict = "INVALID"
    BY <1>5, <2>3, Zenon DEF Readiness!Verdict
  <2> QED
    BY <1>3, <1>7, <2>4
<1>8. CASE corpus.leak = "none"
  <2>1. <<"coverage-exactness">> \notin Readiness!ProofFailures
    BY <1>1, <1>4, ProofReportParts
  <2>2. proof["coverage"].files = 3
    BY <2>1 DEF Readiness!ProofFailures, Readiness!Failure, Readiness!Floor
  <2>3. Marker = {}
    BY <1>8 DEF Marker, Readiness!Failure, Readiness!Evidence
  <2>4. Readiness!ProofFailures = {}
    BY <1>2, <1>3, <2>2, <2>3, PoorProof
  <2>5. ~proof["coverage"].leaks
    BY <1>1, <1>4, <1>8, ProofReportParts DEF Readiness!Coverage
  <2>6. c
    BY <1>3, <1>8, <2>4, <2>5 DEF Readiness!Receipt
  <2>7. run.report.source = {}
    BY <1>1, <1>4, ProofReportParts DEF Readiness!Failure
  <2> HIDE DEF c
  <2>8. run.report.verdict = "BLOCKED_EVIDENCE"
    BY <1>5, <1>6, <2>4, <2>6, <2>7, PoorVerdict
  <2> QED
    BY <1>3, <1>8, <2>8
<1> QED
  BY <1>7, <1>8

(* A run among untouched files is not refused.                               *)
LEMMA UntouchedReadiness ==
  ASSUME Audited, run.at = "verify", changes = 0
  PROVE  Readiness!Committed /\ Readiness!SameReport
<1>1. /\ run.report = UntouchedReport /\ run.bundled = proof
      /\ run.signed = [receipt |-> Readiness!Receipt, coverage |-> Readiness!Coverage,
                       copy |-> Readiness!Evidence, evidence |-> Readiness!Evidence,
                       truth |-> "poor", separated |-> Readiness!Receipt.separated]
      /\ \A f \in DOMAIN proof : proof[f] = Readiness!Ingested[f]
  BY DEF Audited, AuditUntouched, Auditing, Reported
<1>2. DOMAIN proof = Manifested \cup {"lock"}
  BY DEF Audited, AuditOwned, Reported
<1>3. /\ proof["receipt"] = Readiness!Receipt /\ proof["coverage"] = Readiness!Coverage
      /\ proof["evidence"] = Readiness!Evidence /\ proof["truth"] = "poor" /\ proof["lock"] = 0
  BY <1>1, <1>2, IngestedParts DEF Manifested
<1>4. Readiness!Committed
  BY <1>1, <1>3, IngestedParts DEF Readiness!Committed
<1>5. Readiness!ProofFailures = Marker
  BY <1>3, IngestedParts, PoorProof
<1>6. Readiness!Failure(proof["receipt"].lock # proof["lock"], "dataset-lock-content") = {}
  BY <1>3, IngestedParts DEF Readiness!Failure
<1>7. Readiness!ProofReport = UntouchedReport
  BY <1>3, <1>5, <1>6 DEF Readiness!ProofReport, UntouchedReport
<1> QED
  BY <1>1, <1>4, <1>7 DEF Readiness!SameReport

LEMMA VerifyReadiness ==
  ASSUME Audited, Readiness!Verify
  PROVE  Audited'
<1> DEFINE outcome == IF Readiness!Committed /\ Readiness!SameReport THEN "verified" ELSE "refused"
<1>1. /\ run.at = "verify" /\ UNCHANGED <<corpus, changes, source, proof>>
      /\ run' = [run EXCEPT !.at = "end", !.outcome = outcome]
  BY DEF Readiness!Verify, Readiness!At
<1>2. /\ run = [at |-> run.at, next |-> run.next, signed |-> run.signed, evidence |-> run.evidence,
                truth |-> run.truth, raw |-> run.raw, failures |-> run.failures,
                report |-> run.report, bundled |-> run.bundled, outcome |-> run.outcome]
      /\ run.next \in 1..4 /\ DOMAIN proof = Manifested \cup {"lock"}
  BY <1>1 DEF Audited, AuditOwned, Reported
<1>3. outcome = "verified" =>
        /\ run.report.verdict = IF corpus.leak = "none" THEN "BLOCKED_EVIDENCE" ELSE "INVALID"
        /\ proof["evidence"] = Readiness!Evidence /\ proof["truth"] = "poor"
  BY <1>1, CommittedReadiness
<1>4. changes = 0 => outcome = "verified"
  BY <1>1, UntouchedReadiness
<1> HIDE DEF outcome
<1>5. run' = [at |-> "end", next |-> run.next, signed |-> run.signed,
              evidence |-> run.evidence, truth |-> run.truth, raw |-> run.raw,
              failures |-> run.failures, report |-> run.report, bundled |-> run.bundled,
              outcome |-> outcome]
  BY <1>1, <1>2
<1>6. AuditOwned'
  <2>1. "end" \in Reported /\ "end" \in Auditing /\ "end" # "copy"
    BY DEF Reported, Auditing
  <2>2. /\ run' = [at |-> run'.at, next |-> run'.next, signed |-> run'.signed,
                  evidence |-> run'.evidence, truth |-> run'.truth, raw |-> run'.raw,
                  failures |-> run'.failures, report |-> run'.report, bundled |-> run'.bundled,
                  outcome |-> run'.outcome]
        /\ run'.at = "end" /\ run'.next = run.next
    BY <1>5
  <2> QED
    BY <1>1, <1>2, <2>1, <2>2 DEF Audited, AuditOwned
<1>7. AuditPinned'
  BY <1>1, <1>5, SameIngested DEF Audited, AuditPinned, Auditing, Reported
<1>8. AuditUntouched'
  BY <1>1, <1>4, <1>5, SameIngested DEF Audited, AuditUntouched, Auditing, Reported
<1>9. AuditVerified'
  BY <1>1, <1>3, <1>5, SameIngested DEF AuditVerified
<1> QED
  BY <1>6, <1>7, <1>8, <1>9 DEF Audited

LEMMA InitReadiness == PartsInit => ReadinessInv
<1> SUFFICES ASSUME part = "readiness", Readiness!Init PROVE Audited
  BY DEF PartsInit, ReadinessInv, Audited
<1>1. /\ source = Readiness!Ingested /\ DOMAIN proof = {} /\ proof = [f \in DOMAIN proof |-> proof[f]]
      /\ changes = 0
      /\ run = [at |-> "copy", next |-> 1, signed |-> {}, evidence |-> {}, truth |-> "",
                raw |-> 0, failures |-> {}, report |-> {}, bundled |-> {}, outcome |-> "open"]
  BY DEF Readiness!Init
<1>2. {Readiness!Copied[i] : i \in 1..(1 - 1)} = {}
  OBVIOUS
<1>3. AuditOwned
  <2>1. /\ run = [at |-> run.at, next |-> run.next, signed |-> run.signed, evidence |-> run.evidence,
                 truth |-> run.truth, raw |-> run.raw, failures |-> run.failures,
                 report |-> run.report, bundled |-> run.bundled, outcome |-> run.outcome]
        /\ run.at = "copy" /\ run.next = 1 /\ run.outcome = "open"
    BY <1>1
  <2>2. source = [f \in Sourced |-> source[f]] /\ source["receipt"].items = corpus.items
    BY <1>1, IngestedParts
  <2>3. "copy" \notin Reported /\ DOMAIN proof = {Readiness!Copied[i] : i \in 1..(run.next - 1)}
    BY <1>1, <1>2, <2>1 DEF Reported
  <2>4. /\ changes \in Nat /\ DOMAIN proof \subseteq Manifested \cup {"lock"}
        /\ "receipt" \notin DOMAIN proof
    BY <1>1
  <2>5. /\ run.at \in Auditing \cup {"copy", "sign"} /\ run.next \in 1..4
        /\ run.at \in {"copy"} \cup Reported /\ run.at \notin Reported /\ run.outcome = "open"
    BY <2>1, <2>3
  <2>6. proof = [f \in DOMAIN proof |-> proof[f]]
    BY <1>1
  <2> HIDE <1>1
  <2> QED
    BY <2>1, <2>2, <2>3, <2>4, <2>5, <2>6 DEF AuditOwned
<1>4. AuditPinned /\ AuditUntouched /\ AuditVerified
  BY <1>1 DEF AuditPinned, AuditUntouched, AuditVerified, Auditing, Reported
<1> QED
  BY <1>3, <1>4 DEF Audited

LEMMA NextReadiness == ReadinessInv /\ [PartsNext]_allVars => ReadinessInv'
<1> SUFFICES ASSUME ReadinessInv, [PartsNext]_allVars, part' = "readiness"
             PROVE  Audited'
  BY DEF ReadinessInv, Audited
<1>1. part' = part
  BY DEF PartsNext, allVars, LedgerStep, IngestionStep, ReadinessStep, BundleStep,
         CorrectionStep, Ended
<1>2. Audited
  BY <1>1 DEF ReadinessInv, Audited
<1>3. CASE UNCHANGED readinessVars
  <2>1. UNCHANGED <<corpus, source, proof, changes, run>>
    BY <1>3 DEF readinessVars
  <2>2. AuditOwned'
    BY <1>2, <2>1 DEF Audited, AuditOwned
  <2>3. AuditPinned' /\ AuditUntouched' /\ AuditVerified'
    BY <1>2, <2>1, SameIngested DEF Audited, AuditPinned, AuditUntouched, AuditVerified
  <2> QED
    BY <2>2, <2>3 DEF Audited
<1>4. CASE Readiness!Next
  BY <1>2, <1>4, OthersReadiness, CopyReadiness, ReadsReadiness, NotesReadiness, JudgeReadiness,
     BundleReadiness, VerifyReadiness
  DEF Readiness!Next
<1> QED
  BY <1>1, <1>3, <1>4
  DEF PartsNext, allVars, LedgerStep, IngestionStep, ReadinessStep, BundleStep,
      CorrectionStep, Ended

(* VerdictIsIngested, for any number of changes of the files: a verdict that *)
(* verifies is that of the dataset as ingested, and a run whose files nobody *)
(* touched is not refused (experiment.py, readiness.py).                     *)
THEOREM VerdictsAreIngested == PartsSpec => []VerdictIsIngested
<1>1. ReadinessInv => VerdictIsIngested
  <2> SUFFICES ASSUME Audited PROVE Readiness!VerdictIsIngested
    BY DEF ReadinessInv, Audited, VerdictIsIngested
  <2>1. run.outcome = "refused" => changes > 0
    BY DEF Audited, AuditOwned, AuditUntouched
  <2> QED
    BY <2>1 DEF Audited, AuditVerified, Readiness!VerdictIsIngested
<1> QED
  BY InitReadiness, NextReadiness, <1>1, PTL DEF PartsSpec

(***************************************************************************)
(* ProofBundle.                                                            *)
(***************************************************************************)

(* What the files are, while the flow of the runs stays what it is.          *)
LEMMA SameFiles ==
  ASSUME flow' = flow
  PROVE  /\ \A r : Bundle!Bundled(r)' = Bundle!Bundled(r) /\ Bundle!Artifacts(r)' = Bundle!Artifacts(r)
                   /\ Bundle!Files(r)' = Bundle!Files(r) /\ Bundle!Length(r)' = Bundle!Length(r)
         /\ Bundle!AllFiles' = Bundle!AllFiles
<1>1. \A r : Bundle!Bundled(r)' = Bundle!Bundled(r)
  BY DEF Bundle!Bundled, Bundle!DataOf
<1>2. \A r : Bundle!Artifacts(r)' = Bundle!Artifacts(r)
  BY <1>1 DEF Bundle!Artifacts
<1>3. \A r : Bundle!Files(r)' = Bundle!Files(r)
  BY <1>2 DEF Bundle!Files
<1>4. \A r : Bundle!Length(r)' = Bundle!Length(r)
  BY DEF Bundle!Length
<1>5. Bundle!AllFiles' = Bundle!AllFiles
  BY <1>3 DEF Bundle!AllFiles
<1> QED
  BY <1>1, <1>2, <1>3, <1>4, <1>5

(* What the program derives, one file after the other.                       *)
WithReceipt(d, r) ==
  IF flow[r] = "normal" THEN [d EXCEPT !["receipt"] = Bundle!Receipt(d)] ELSE d
WithReport(d, r) ==
  [d EXCEPT !["report"] = Bundle!Report(d, IF flow[r] = "normal" THEN "receipt" ELSE "invalidity")]
WithResult(d) ==
  [d EXCEPT !["result"] = Bundle!Result(d["report"]), !["learning"] = Bundle!Learning(d["report"])]
WithBundle(d, r) == [d EXCEPT !["bundle"] = Bundle!Bundle(d, r)]
WithManifest(d, r) == [d EXCEPT !["manifest"] = Bundle!Manifest(d, r, Bundle!Length(r))]

Unsealed(d, r) == WithBundle(WithResult(WithReport(WithReceipt(d, r), r)), r)

LEMMA RebuiltInOrder == \A d, r : Bundle!Rebuilt(d, r) = WithManifest(Unsealed(d, r), r)
BY DEF Bundle!Rebuilt, Unsealed, WithReceipt, WithReport, WithResult, WithBundle, WithManifest

LEMMA SameWritten ==
  ASSUME flow' = flow
  PROVE  \A r : Bundle!Written(r)' = Bundle!Written(r)
<1>1. \A d, r : Bundle!Bundle(d, r)' = Bundle!Bundle(d, r)
  BY SameFiles DEF Bundle!Bundle
<1>2. \A d, r : WithReceipt(d, r)' = WithReceipt(d, r)
  BY DEF WithReceipt, Bundle!Receipt
<1>3. \A d, r : WithReport(d, r)' = WithReport(d, r)
  BY DEF WithReport, Bundle!Report
<1>4. \A d, r : WithBundle(d, r)' = WithBundle(d, r)
  BY <1>1 DEF WithBundle
<1>5. \A d, r : WithManifest(d, r)' = WithManifest(d, r)
  BY SameFiles DEF WithManifest, Bundle!Manifest, Bundle!Verdict
<1>6. \A d : WithResult(d)' = WithResult(d)
  BY DEF WithResult, Bundle!Result, Bundle!Learning, Bundle!Verdict
<1>7. ASSUME NEW d, NEW r PROVE Unsealed(d, r)' = Unsealed(d, r)
  <2>1. PICK a : a = WithReceipt(d, r)
    OBVIOUS
  <2>2. PICK b : b = WithReport(a, r)
    OBVIOUS
  <2>3. PICK c : c = WithResult(b)
    OBVIOUS
  <2>4. Unsealed(d, r) = WithBundle(c, r)
    BY <2>1, <2>2, <2>3 DEF Unsealed
  <2>5. a = WithReceipt(d, r)' /\ b = WithReport(a, r)' /\ c = WithResult(b)'
    BY <1>2, <1>3, <1>6, <2>1, <2>2, <2>3
  <2>6. WithReport(WithReceipt(d, r), r)' = b
    BY <2>5
  <2>7. Unsealed(d, r)' = WithBundle(c, r)'
    BY <2>5 DEF Unsealed
  <2> QED
    BY <1>4, <2>4, <2>7
<1>8. ASSUME NEW d, NEW r PROVE Bundle!Rebuilt(d, r)' = Bundle!Rebuilt(d, r)
  <2>1. PICK a : a = Unsealed(d, r)
    OBVIOUS
  <2>2. a = Unsealed(d, r)'
    BY <1>7, <2>1
  <2>3. Bundle!Rebuilt(d, r)' = WithManifest(Unsealed(d, r), r)'
    BY DEF Bundle!Rebuilt, Unsealed, WithReceipt, WithReport, WithResult, WithBundle, WithManifest
  <2>4. Bundle!Rebuilt(d, r)' = WithManifest(a, r)'
    BY <2>2, <2>3
  <2> QED
    BY <1>5, <2>1, <2>4, RebuiltInOrder
<1> QED
  BY <1>8, SameFiles DEF Bundle!Written, Bundle!Ledger, Bundle!Plain

LEMMA FileNames ==
  ASSUME NEW r \in Bundle!Runs
  PROVE  /\ {"manifest", "ledger", "head", "anchor", "authority"} \subseteq Bundle!AllFiles
         /\ Bundle!Files(r) \subseteq Bundle!AllFiles
         /\ Bundle!Artifacts(r) \subseteq Bundle!AllFiles
         /\ Bundle!Artifacts(r) \cap {"manifest", "ledger", "head", "anchor", "authority"} = {}
         /\ Bundle!Files(r) = Bundle!Artifacts(r)
                               \cup {"manifest", "ledger", "head", "anchor", "authority"}
<1>1. Bundle!Files(r) = Bundle!Artifacts(r) \cup {"manifest", "ledger", "head", "anchor", "authority"}
  BY DEF Bundle!Files, Bundle!Trusted
<1>2. Bundle!Files(r) \subseteq Bundle!AllFiles
  BY DEF Bundle!AllFiles
<1>3. Bundle!Artifacts(r) \cap {"manifest", "ledger", "head", "anchor", "authority"} = {}
  BY DEF Bundle!Artifacts, Bundle!Bundled, Bundle!DataOf
<1> QED
  BY <1>1, <1>2, <1>3

(* What is derived leaves the ledger and the trusted files, and the manifest *)
(* is made of the rest.                                                      *)
LEMMA RebuiltKeeps ==
  ASSUME NEW d, d = [f \in Bundle!AllFiles |-> d[f]], NEW r \in Bundle!Runs
  PROVE  /\ Bundle!Rebuilt(d, r) = [f \in Bundle!AllFiles |-> Bundle!Rebuilt(d, r)[f]]
         /\ \A f \in {"ledger", "head", "anchor", "authority"} : Bundle!Rebuilt(d, r)[f] = d[f]
         /\ Bundle!Rebuilt(d, r)["manifest"].run = r
         /\ Bundle!Rebuilt(d, r)["manifest"].of
              = [f \in Bundle!Artifacts(r) |-> Bundle!Rebuilt(d, r)[f]]
<1> DEFINE Keeps(e) == /\ e = [f \in Bundle!AllFiles |-> e[f]]
                       /\ \A f \in {"ledger", "head", "anchor", "authority"} : e[f] = d[f]
<1>1. PICK a : a = WithReceipt(d, r)
  OBVIOUS
<1>2. Keeps(a)
  <2>1. CASE a = d
    BY <2>1
  <2>2. CASE a = [d EXCEPT !["receipt"] = Bundle!Receipt(d)]
    BY <2>2
  <2> QED
    BY <1>1, <2>1, <2>2 DEF WithReceipt
<1>3. PICK b : b = WithReport(a, r)
  OBVIOUS
<1>4. Keeps(b)
  BY <1>2, <1>3 DEF WithReport
<1>5. PICK c : c = WithResult(b)
  OBVIOUS
<1>6. Keeps(c)
  <2>1. PICK x : x = [b EXCEPT !["result"] = Bundle!Result(b["report"])]
    OBVIOUS
  <2>2. Keeps(x)
    BY <1>4, <2>1
  <2>3. c = [x EXCEPT !["learning"] = Bundle!Learning(b["report"])]
    BY <1>5, <2>1 DEF WithResult
  <2> QED
    BY <2>2, <2>3
<1>7. PICK e : e = WithBundle(c, r)
  OBVIOUS
<1>8. Keeps(e)
  BY <1>6, <1>7 DEF WithBundle
<1>9. Bundle!Rebuilt(d, r) = WithManifest(e, r)
  BY <1>1, <1>3, <1>5, <1>7, RebuiltInOrder DEF Unsealed
<1> DEFINE m == Bundle!Manifest(e, r, Bundle!Length(r))
<1>10. Bundle!Rebuilt(d, r) = [e EXCEPT !["manifest"] = m]
  BY <1>9 DEF WithManifest
<1>11. m.run = r /\ m.of = [f \in Bundle!Artifacts(r) |-> e[f]]
  BY DEF Bundle!Manifest
<1> HIDE DEF m
<1>12. Bundle!Rebuilt(d, r)["manifest"] = m /\ \A f \in Bundle!Artifacts(r) : Bundle!Rebuilt(d, r)[f] = e[f]
  BY <1>8, <1>10, FileNames
<1>13. Keeps(Bundle!Rebuilt(d, r))
  <2>1. PICK x : x = Bundle!Rebuilt(d, r)
    OBVIOUS
  <2>2. x = [e EXCEPT !["manifest"] = m]
    BY <1>10, <2>1
  <2>3. Keeps(x)
    BY <1>8, <2>2
  <2> QED
    BY <2>1, <2>3
<1> QED
  BY <1>11, <1>12, <1>13

LEMMA WrittenParts ==
  ASSUME NEW r \in Bundle!Runs
  PROVE  /\ Bundle!Written(r) = [f \in Bundle!AllFiles |-> Bundle!Written(r)[f]]
         /\ Bundle!Written(r)["ledger"] = Bundle!Ledger(r, Bundle!Length(r))
         /\ Bundle!Written(r)["head"] = Bundle!Ledger(r, Bundle!Length(r))
         /\ \A f \in Bundle!Trusted : Bundle!Written(r)[f] = Bundle!Plain(0, f, 0)
         /\ Bundle!Written(r)["manifest"].run = r
         /\ Bundle!Written(r)["manifest"].of = [f \in Bundle!Artifacts(r) |-> Bundle!Written(r)[f]]
<1> DEFINE d == [f \in Bundle!AllFiles |->
                   IF f \in {"ledger", "head"} THEN Bundle!Ledger(r, Bundle!Length(r))
                   ELSE IF f \in Bundle!Trusted THEN Bundle!Plain(0, f, 0)
                   ELSE IF f = "localAuthority" THEN Bundle!Plain(0, "authority", 0)
                   ELSE Bundle!Plain(r, f, 0)]
<1>1. Bundle!Written(r) = Bundle!Rebuilt(d, r)
  BY DEF Bundle!Written
<1>2. /\ d = [f \in Bundle!AllFiles |-> d[f]]
      /\ d["ledger"] = Bundle!Ledger(r, Bundle!Length(r))
      /\ d["head"] = Bundle!Ledger(r, Bundle!Length(r))
      /\ d["anchor"] = Bundle!Plain(0, "anchor", 0) /\ d["authority"] = Bundle!Plain(0, "authority", 0)
  BY FileNames DEF Bundle!Trusted
<1> HIDE DEF d
<1> QED
  BY <1>1, <1>2, RebuiltKeeps DEF Bundle!Trusted

(* What a ledger or its head can be: signed by a run, at some length, or     *)
(* edited since.                                                             *)
LedgerLike(c) ==
  \E r \in Bundle!Runs, n \in 1..5, signed \in BOOLEAN :
    c = [run |-> r, length |-> n, signed |-> signed]

OnDisk ==
  /\ bundleEdits \in Nat /\ flow \in [Bundle!Runs -> {"normal", "invalid"}]
  /\ disk = [f \in Bundle!AllFiles |-> disk[f]] /\ past = [f \in Bundle!AllFiles |-> past[f]]
  /\ \A f \in Bundle!AllFiles : disk[f] \in past[f]
  /\ LedgerLike(disk["ledger"]) /\ LedgerLike(disk["head"])
  /\ \A f \in Bundle!Trusted : disk[f].edit = 0 => disk[f] = Bundle!Plain(0, f, 0)

Named == {"anchor", "ledger", "head"} \cup (IF reader.authorized THEN {"authority"} ELSE {})
Compared == {"hash", "bundle", "report", "result", "learning", "authority", "inputs", "data",
             "adjudicated", "recheck", "verified"}
Reading == {"first", "ledger", "manifest", "refused"} \cup Compared

(* The ledger and the head that were read are the run's whole ones.          *)
Exact ==
  /\ reader.got["ledger"] = Bundle!Ledger(Bundle!Run, Bundle!Length(Bundle!Run))
  /\ reader.got["head"] = Bundle!Ledger(Bundle!Run, Bundle!Length(Bundle!Run))

(* What was read was there, and is of the kind it should be.                 *)
HasRead ==
  /\ reader = [at |-> reader.at, authorized |-> reader.authorized, next |-> reader.next,
               parsed |-> reader.parsed, got |-> reader.got, left |-> reader.left,
               whole |-> reader.whole]
  /\ reader.at \in Reading /\ reader.authorized \in BOOLEAN
  /\ reader.got = [f \in DOMAIN reader.got |-> reader.got[f]]
  /\ DOMAIN reader.got \subseteq Bundle!AllFiles
  /\ \A f \in DOMAIN reader.got : reader.got[f] \in past[f]
  /\ "ledger" \in DOMAIN reader.got => LedgerLike(reader.got["ledger"])
  /\ \A f \in Bundle!Trusted \cap DOMAIN reader.got : reader.got[f] = Bundle!Plain(0, f, 0)
  /\ reader.at = "first" =>
       /\ reader.next \in 1..Len(Bundle!First)
       /\ DOMAIN reader.got = {Bundle!First[i] : i \in 1..(reader.next - 1)}
  /\ reader.at \in {"ledger", "manifest"} => DOMAIN reader.got = Named
  /\ reader.at \in {"manifest"} \cup Compared =>
       /\ reader.got["ledger"].length = Bundle!Length(Bundle!Run)
       /\ \/ disk["ledger"] # reader.got["ledger"]
          \/ disk["head"] # reader.got["head"]
          \/ Exact

(* What was compared is the run's.                                           *)
IsOfRun ==
  reader.at \in Compared =>
    /\ Named \cup {"manifest"} \subseteq DOMAIN reader.got
    /\ DOMAIN reader.got \subseteq Named \cup {"manifest"} \cup Bundle!Artifacts(Bundle!Run)
    /\ reader.authorized = (Bundle!Run = Bundle!Amended)
    /\ reader.got["manifest"] = Bundle!Signed["manifest"]
    /\ \A f \in Bundle!Artifacts(Bundle!Run) \cap DOMAIN reader.got :
         reader.got[f] = Bundle!Signed[f]
    /\ reader.at # "hash" => Bundle!Artifacts(Bundle!Run) \subseteq DOMAIN reader.got

(* Whatever was not in place when all had been read is not in place again,   *)
(* and the reading again finds it.                                           *)
IsRechecked ==
  /\ reader.at \in {"recheck", "verified"} =>
       /\ Bundle!Verdict(reader.parsed) = Bundle!Verdict(Bundle!Signed["report"])
       /\ reader.left \subseteq DOMAIN reader.got
       /\ \/ \E f \in reader.left : disk[f] # reader.got[f]
          \/ reader.whole /\ Exact
  /\ reader.at = "verified" => reader.left = {}

Bundled == OnDisk /\ HasRead /\ IsOfRun /\ IsRechecked

BundleInv == part = "bundle" => Bundled

(* As long as the ledger that was read is the same, so is the run.           *)
LEMMA SameRun ==
  ASSUME flow' = flow, reader'.got["ledger"] = reader.got["ledger"]
  PROVE  /\ Bundle!Run' = Bundle!Run /\ Bundle!Signed' = Bundle!Signed
         /\ Bundle!Artifacts(Bundle!Run)' = Bundle!Artifacts(Bundle!Run)
         /\ Bundle!Length(Bundle!Run)' = Bundle!Length(Bundle!Run)
         /\ reader'.got["head"] = reader.got["head"] => Exact' = Exact
<1>1. PICK r : r = Bundle!Run
  OBVIOUS
<1>2. r = Bundle!Run'
  BY <1>1 DEF Bundle!Run
<1>3. Bundle!Signed' = Bundle!Written(r)' /\ Bundle!Signed = Bundle!Written(r)
  BY <1>1, <1>2 DEF Bundle!Signed
<1>4. Bundle!Signed' = Bundle!Signed
  BY <1>3, SameWritten
<1>5. Bundle!Artifacts(Bundle!Run)' = Bundle!Artifacts(r)' /\ Bundle!Length(Bundle!Run)' = Bundle!Length(r)'
  BY <1>2
<1>6. /\ Bundle!Artifacts(Bundle!Run)' = Bundle!Artifacts(Bundle!Run)
      /\ Bundle!Length(Bundle!Run)' = Bundle!Length(Bundle!Run)
  BY <1>1, <1>5, SameFiles
<1>7. reader'.got["head"] = reader.got["head"] => Exact' = Exact
  BY <1>1, <1>2, <1>6 DEF Exact, Bundle!Ledger
<1> QED
  BY <1>1, <1>2, <1>4, <1>6, <1>7

(* A change of the tree.                                                     *)
LEMMA WorldBundle ==
  ASSUME Bundled, UNCHANGED <<flow, reader>>, bundleEdits' \in Nat,
         disk' = [f \in Bundle!AllFiles |-> disk'[f]], past' = [f \in Bundle!AllFiles |-> past'[f]],
         \A f \in Bundle!AllFiles :
           /\ disk'[f] = disk[f] \/ disk'[f] \notin past[f]
           /\ past[f] \subseteq past'[f] /\ disk'[f] \in past'[f],
         LedgerLike(disk'["ledger"]), LedgerLike(disk'["head"]),
         \A f \in Bundle!Trusted : disk'[f].edit = 0 => disk'[f] = Bundle!Plain(0, f, 0)
  PROVE  Bundled'
<1>1. Bundle!AllFiles' = Bundle!AllFiles
  BY SameFiles
<1>2. /\ Bundle!Run' = Bundle!Run /\ Bundle!Signed' = Bundle!Signed /\ Exact' = Exact
      /\ Bundle!Artifacts(Bundle!Run)' = Bundle!Artifacts(Bundle!Run)
      /\ Bundle!Length(Bundle!Run)' = Bundle!Length(Bundle!Run)
      /\ Bundle!First' = Bundle!First /\ Named' = Named
  BY SameRun DEF Bundle!First, Named
<1>3. \A f \in DOMAIN reader.got : disk[f] # reader.got[f] => disk'[f] # reader.got[f]
  BY DEF Bundled, HasRead
<1>4. OnDisk'
  BY <1>1 DEF Bundled, OnDisk, LedgerLike, Bundle!Plain
<1>5. reader.at \in {"manifest"} \cup Compared => "ledger" \in DOMAIN reader.got /\ "head" \in DOMAIN reader.got
  BY DEF Bundled, HasRead, IsOfRun, Named, Compared
<1>6. HasRead'
  <2>1. reader.at \in {"manifest"} \cup Compared =>
          \/ disk'["ledger"] # reader.got["ledger"] \/ disk'["head"] # reader.got["head"] \/ Exact
    BY <1>3, <1>5 DEF Bundled, HasRead
  <2>2. \A f \in DOMAIN reader.got : reader.got[f] \in past'[f]
    BY DEF Bundled, HasRead
  <2>3. "ledger" \in DOMAIN reader'.got => LedgerLike(reader.got["ledger"])'
    BY DEF Bundled, HasRead, LedgerLike
  <2>4. \A f \in Bundle!Trusted \cap DOMAIN reader'.got : reader'.got[f] = Bundle!Plain(0, f, 0)
    BY DEF Bundled, HasRead
  <2>5. reader' = reader /\ HasRead
    BY DEF Bundled
  <2>6. reader'.at = "first" =>
          /\ reader'.next \in 1..Len(Bundle!First')
          /\ DOMAIN reader'.got = {Bundle!First'[i] : i \in 1..(reader'.next - 1)}
    BY <1>2, <2>5 DEF HasRead
  <2> QED
    BY <1>1, <1>2, <2>1, <2>2, <2>3, <2>4, <2>5, <2>6 DEF HasRead
<1>7. IsOfRun'
  BY <1>2 DEF Bundled, IsOfRun
<1>8. IsRechecked'
  <2>1. Bundle!Verdict(reader.parsed)' = Bundle!Verdict(reader.parsed)
    BY DEF Bundle!Verdict
  <2>2. Bundle!Verdict(Bundle!Signed["report"])' = Bundle!Verdict(Bundle!Signed["report"])
    BY <1>2 DEF Bundle!Verdict
  <2> QED
    BY <1>2, <1>3, <2>1, <2>2 DEF Bundled, IsRechecked
<1> QED
  BY <1>4, <1>6, <1>7, <1>8 DEF Bundled

LEMMA PutBundle ==
  ASSUME Bundled, NEW f \in Bundle!AllFiles, NEW content, Bundle!Put(f, content),
         f \in {"ledger", "head"} => LedgerLike(content),
         f \in Bundle!Trusted => (content.edit = 0 => content = Bundle!Plain(0, f, 0))
  PROVE  Bundled'
<1>1. /\ disk' = [disk EXCEPT ![f] = content] /\ past' = [past EXCEPT ![f] = @ \cup {content}]
      /\ content \notin past[f] /\ bundleEdits' = bundleEdits + 1 /\ UNCHANGED <<flow, reader>>
  BY DEF Bundle!Put
<1>2. /\ disk = [g \in Bundle!AllFiles |-> disk[g]] /\ past = [g \in Bundle!AllFiles |-> past[g]]
      /\ bundleEdits \in Nat /\ \A g \in Bundle!AllFiles : disk[g] \in past[g]
      /\ LedgerLike(disk["ledger"]) /\ LedgerLike(disk["head"])
      /\ \A g \in Bundle!Trusted : disk[g].edit = 0 => disk[g] = Bundle!Plain(0, g, 0)
  BY DEF Bundled, OnDisk
<1>3. /\ disk' = [g \in Bundle!AllFiles |-> disk'[g]] /\ past' = [g \in Bundle!AllFiles |-> past'[g]]
      /\ disk'[f] = content /\ past'[f] = past[f] \cup {content}
      /\ \A g \in Bundle!AllFiles : g # f => disk'[g] = disk[g] /\ past'[g] = past[g]
  BY <1>1, <1>2
<1>4. {"ledger", "head"} \cup Bundle!Trusted \subseteq Bundle!AllFiles
  BY FileNames DEF Bundle!Trusted, Bundle!Runs
<1>5. LedgerLike(disk'["ledger"]) /\ LedgerLike(disk'["head"])
  <2>1. disk'["ledger"] = disk["ledger"] \/ (f = "ledger" /\ disk'["ledger"] = content)
    BY <1>3, <1>4
  <2>2. disk'["head"] = disk["head"] \/ (f = "head" /\ disk'["head"] = content)
    BY <1>3, <1>4
  <2> QED
    BY <1>2, <2>1, <2>2
<1>6. \A g \in Bundle!Trusted : disk'[g].edit = 0 => disk'[g] = Bundle!Plain(0, g, 0)
  <2> SUFFICES ASSUME NEW g \in Bundle!Trusted
               PROVE  disk'[g].edit = 0 => disk'[g] = Bundle!Plain(0, g, 0)
    OBVIOUS
  <2>1. CASE g = f
    BY <1>3, <2>1
  <2>2. CASE g # f
    BY <1>2, <1>3, <1>4, <2>2
  <2> QED
    BY <2>1, <2>2
<1>7. \A g \in Bundle!AllFiles : /\ disk'[g] = disk[g] \/ disk'[g] \notin past[g]
                                /\ past[g] \subseteq past'[g] /\ disk'[g] \in past'[g]
  BY <1>1, <1>2, <1>3
<1>8. bundleEdits' \in Nat
  BY <1>1, <1>2
<1> QED
  BY <1>1, <1>3, <1>5, <1>6, <1>7, <1>8, WorldBundle

LEMMA LedgerIsLike ==
  ASSUME NEW r \in Bundle!Runs, NEW n \in 1..5
  PROVE  LedgerLike(Bundle!Ledger(r, n)) /\ Bundle!LedgerHead(r, n) = Bundle!Ledger(r, n)
<1>1. PICK b \in BOOLEAN : b = TRUE
  OBVIOUS
<1>2. Bundle!Ledger(r, n) = [run |-> r, length |-> n, signed |-> b]
  BY <1>1 DEF Bundle!Ledger
<1> QED
  BY <1>2 DEF LedgerLike, Bundle!LedgerHead, Bundle!Ledger

LEMMA LengthBound == \A r \in Bundle!Runs : Bundle!Length(r) \in 1..5
BY DEF Bundle!Length

LEMMA OthersBundle ==
  ASSUME Bundled,
         \/ \E f \in Bundle!AllFiles : Bundle!Edit(f)
         \/ \E r \in Bundle!Runs : \/ \E f \in Bundle!AllFiles : Bundle!TakeFrom(r, f)
                                   \/ \E n \in 1..(Bundle!Length(r) - 1) : Bundle!CutBack(r, n)
                                   \/ Bundle!Rebuild(r)
  PROVE  Bundled'
<1>0. /\ disk = [g \in Bundle!AllFiles |-> disk[g]] /\ past = [g \in Bundle!AllFiles |-> past[g]]
      /\ bundleEdits \in Nat /\ \A g \in Bundle!AllFiles : disk[g] \in past[g]
      /\ LedgerLike(disk["ledger"]) /\ LedgerLike(disk["head"])
      /\ \A g \in Bundle!Trusted : disk[g].edit = 0 => disk[g] = Bundle!Plain(0, g, 0)
  BY DEF Bundled, OnDisk
<1>1. {"ledger", "head"} \cup Bundle!Trusted \subseteq Bundle!AllFiles
      /\ {"ledger", "head"} \cap Bundle!Trusted = {}
  BY FileNames DEF Bundle!Trusted, Bundle!Runs
<1>2. ASSUME NEW f \in Bundle!AllFiles, Bundle!Edit(f) PROVE Bundled'
  <2>1. CASE f \in {"ledger", "head"}
    <3> DEFINE content == [disk[f] EXCEPT !.signed = FALSE]
    <3>1. Bundle!Put(f, content)
      BY <1>2, <2>1 DEF Bundle!Edit
    <3>0. content = [disk[f] EXCEPT !.signed = FALSE]
      OBVIOUS
    <3> HIDE DEF content
    <3>2. PICK r \in Bundle!Runs, n \in 1..5, b \in BOOLEAN :
            disk[f] = [run |-> r, length |-> n, signed |-> b]
      BY <1>0, <2>1 DEF LedgerLike
    <3>3. PICK c \in BOOLEAN : c = FALSE
      OBVIOUS
    <3>4. content = [disk[f] EXCEPT !.signed = c]
      BY <3>0, <3>3
    <3>6. content = [run |-> r, length |-> n, signed |-> c]
      BY <3>2, <3>4
    <3>5. LedgerLike(content)
      BY <3>6 DEF LedgerLike
    <3> QED
      BY <1>1, <2>1, <3>1, <3>5, PutBundle
  <2>2. CASE f \notin {"ledger", "head"}
    <3>1. Bundle!Put(f, Bundle!Plain(1, f, bundleEdits + 1))
      BY <1>2, <2>2 DEF Bundle!Edit
    <3>2. Bundle!Plain(1, f, bundleEdits + 1).edit # 0
      BY <1>0 DEF Bundle!Plain
    <3> QED
      BY <2>2, <3>1, <3>2, PutBundle
  <2> QED
    BY <2>1, <2>2
<1>3. ASSUME NEW r \in Bundle!Runs, NEW f \in Bundle!AllFiles, Bundle!TakeFrom(r, f) PROVE Bundled'
  <2>1. Bundle!Put(f, Bundle!Written(r)[f])
    BY <1>3 DEF Bundle!TakeFrom
  <2>2. f \in {"ledger", "head"} => LedgerLike(Bundle!Written(r)[f])
    <3>1. Bundle!Length(r) \in 1..5
      BY LengthBound
    <3>2. LedgerLike(Bundle!Ledger(r, Bundle!Length(r)))
      BY <3>1, LedgerIsLike
    <3> QED
      BY <3>2, WrittenParts
  <2>3. f \in Bundle!Trusted => Bundle!Written(r)[f] = Bundle!Plain(0, f, 0)
    BY WrittenParts
  <2> QED
    BY <2>1, <2>2, <2>3, PutBundle
<1>4. ASSUME NEW r \in Bundle!Runs, NEW n \in 1..(Bundle!Length(r) - 1), Bundle!CutBack(r, n)
      PROVE  Bundled'
  <2>1. n \in 1..5
    BY LengthBound
  <2>2. LedgerLike(Bundle!Ledger(r, n)) /\ LedgerLike(Bundle!LedgerHead(r, n))
    BY <2>1, LedgerIsLike
  <2>3. Bundle!Put("ledger", Bundle!Ledger(r, n)) \/ Bundle!Put("head", Bundle!LedgerHead(r, n))
    BY <1>4 DEF Bundle!CutBack
  <2> QED
    BY <1>1, <2>2, <2>3, PutBundle
<1>5. ASSUME NEW r \in Bundle!Runs, Bundle!Rebuild(r) PROVE Bundled'
  <2>1. /\ disk' = Bundle!Rebuilt(disk, r)
        /\ \A f \in Bundle!AllFiles : disk'[f] # disk[f] => disk'[f] \notin past[f]
        /\ past' = [f \in Bundle!AllFiles |-> past[f] \cup {disk'[f]}]
        /\ bundleEdits' = bundleEdits + 1 /\ UNCHANGED <<flow, reader>>
    BY <1>5 DEF Bundle!Rebuild
  <2>2. /\ disk' = [f \in Bundle!AllFiles |-> disk'[f]]
        /\ \A f \in {"ledger", "head", "anchor", "authority"} : disk'[f] = disk[f]
    <3>1. PICK x : x = Bundle!Rebuilt(disk, r)
      OBVIOUS
    <3>4. disk = [f \in Bundle!AllFiles |-> disk[f]]
      BY <1>0
    <3>2. /\ x = [f \in Bundle!AllFiles |-> x[f]]
          /\ \A f \in {"ledger", "head", "anchor", "authority"} : x[f] = disk[f]
      <4>1. \A d : d = [f \in Bundle!AllFiles |-> d[f]] =>
              /\ Bundle!Rebuilt(d, r) = [f \in Bundle!AllFiles |-> Bundle!Rebuilt(d, r)[f]]
              /\ \A f \in {"ledger", "head", "anchor", "authority"} : Bundle!Rebuilt(d, r)[f] = d[f]
        BY RebuiltKeeps
      <4> QED
        BY <3>1, <3>4, <4>1, Zenon
    <3>3. disk' = x
      BY <2>1, <3>1
    <3> QED
      BY <3>2, <3>3
  <2>3. LedgerLike(disk'["ledger"]) /\ LedgerLike(disk'["head"])
        /\ \A g \in Bundle!Trusted : disk'[g].edit = 0 => disk'[g] = Bundle!Plain(0, g, 0)
    BY <1>0, <2>2 DEF Bundle!Trusted
  <2>4. \A g \in Bundle!AllFiles : /\ disk'[g] = disk[g] \/ disk'[g] \notin past[g]
                                  /\ past[g] \subseteq past'[g] /\ disk'[g] \in past'[g]
    BY <2>1
  <2>5. bundleEdits' \in Nat /\ past' = [f \in Bundle!AllFiles |-> past'[f]]
    BY <1>0, <2>1
  <2> QED
    BY <2>1, <2>2, <2>3, <2>4, <2>5, WorldBundle
<1> QED
  BY <1>2, <1>3, <1>4, <1>5

(* The verifier reads: the tree is what it was.                              *)
LEMMA TreeRests ==
  ASSUME Bundled, UNCHANGED <<flow, disk, past, bundleEdits>>
  PROVE  OnDisk' /\ Bundle!AllFiles' = Bundle!AllFiles
BY SameFiles DEF Bundled, OnDisk, LedgerLike, Bundle!Plain

LEMMA RunIsOne ==
  ASSUME Bundled, "ledger" \in DOMAIN reader.got
  PROVE  Bundle!Run \in Bundle!Runs
<1>1. PICK r \in Bundle!Runs, n \in 1..5, b \in BOOLEAN :
        reader.got["ledger"] = [run |-> r, length |-> n, signed |-> b]
  BY DEF Bundled, HasRead, LedgerLike
<1> QED
  BY <1>1 DEF Bundle!Run

Middle == Compared \ {"hash", "recheck", "verified"}

(* It goes on with what it has read, or refuses.                             *)
LEMMA StaysBundle ==
  ASSUME Bundled, UNCHANGED <<flow, disk, past, bundleEdits>>, NEW next, NEW p,
         reader' = [reader EXCEPT !.at = next, !.parsed = p],
         \/ next = "refused"
         \/ /\ next \in Middle /\ reader.at \in Compared
            /\ Bundle!Artifacts(Bundle!Run) \subseteq DOMAIN reader.got
  PROVE  Bundled'
<1>1. reader = [at |-> reader.at, authorized |-> reader.authorized, next |-> reader.next,
                parsed |-> reader.parsed, got |-> reader.got, left |-> reader.left,
                whole |-> reader.whole]
  BY DEF Bundled, HasRead
<1>2. reader' = [at |-> next, authorized |-> reader.authorized, next |-> reader.next,
                 parsed |-> p, got |-> reader.got, left |-> reader.left, whole |-> reader.whole]
  BY <1>1
<1>3. /\ reader'.at = next /\ reader'.got = reader.got /\ reader'.authorized = reader.authorized
      /\ reader'.next = reader.next
      /\ reader' = [at |-> reader'.at, authorized |-> reader'.authorized, next |-> reader'.next,
                    parsed |-> reader'.parsed, got |-> reader'.got, left |-> reader'.left,
                    whole |-> reader'.whole]
  BY <1>2
<1>4. /\ Bundle!Run' = Bundle!Run /\ Bundle!Signed' = Bundle!Signed /\ Exact' = Exact
      /\ Bundle!Artifacts(Bundle!Run)' = Bundle!Artifacts(Bundle!Run)
      /\ Bundle!Length(Bundle!Run)' = Bundle!Length(Bundle!Run) /\ Named' = Named
  BY <1>3, SameRun DEF Named
<1>5. next \in Reading /\ next \notin {"first", "ledger", "manifest", "hash", "recheck", "verified"}
  BY DEF Reading, Middle, Compared
<1>6. HasRead'
  <2>1. next # "refused" =>
          /\ reader.got["ledger"].length = Bundle!Length(Bundle!Run)
          /\ \/ disk["ledger"] # reader.got["ledger"]
             \/ disk["head"] # reader.got["head"]
             \/ Exact
    BY DEF Bundled, HasRead
  <2>2. next \in Compared => next # "refused"
    BY DEF Compared
  <2>3. /\ reader.authorized \in BOOLEAN /\ reader.got = [f \in DOMAIN reader.got |-> reader.got[f]]
        /\ DOMAIN reader.got \subseteq Bundle!AllFiles
        /\ \A f \in DOMAIN reader.got : reader.got[f] \in past[f]
        /\ "ledger" \in DOMAIN reader.got => LedgerLike(reader.got["ledger"])
        /\ \A f \in Bundle!Trusted \cap DOMAIN reader.got : reader.got[f] = Bundle!Plain(0, f, 0)
    BY DEF Bundled, HasRead
  <2>4. LedgerLike(reader.got["ledger"])' = LedgerLike(reader.got["ledger"])
    BY <1>3 DEF LedgerLike
  <2>5. \A f \in Bundle!Trusted \cap DOMAIN reader'.got : reader'.got[f] = Bundle!Plain(0, f, 0)
    BY <1>3, <2>3
  <2> QED
    BY <1>3, <1>4, <1>5, <2>1, <2>2, <2>3, <2>4, <2>5, TreeRests DEF HasRead
<1>7. IsOfRun'
  <2>1. next \in Compared => next # "refused"
    BY DEF Compared
  <2> QED
    BY <1>3, <1>4, <1>5, <2>1 DEF Bundled, IsOfRun
<1>8. IsRechecked'
  BY <1>3, <1>5 DEF IsRechecked
<1> QED
  BY <1>6, <1>7, <1>8, TreeRests DEF Bundled

(* Another file has been read.                                               *)
LEMMA AddedBundle ==
  ASSUME Bundled, UNCHANGED <<flow, disk, past, bundleEdits>>, NEW f \in Bundle!AllFiles,
         f \notin DOMAIN reader.got, reader'.got = Bundle!With(reader.got, f, disk[f])
  PROVE  /\ DOMAIN reader'.got = DOMAIN reader.got \cup {f} /\ reader'.got[f] = disk[f]
         /\ \A g \in DOMAIN reader.got : reader'.got[g] = reader.got[g]
         /\ reader'.got = [g \in DOMAIN reader'.got |-> reader'.got[g]]
         /\ DOMAIN reader'.got \subseteq Bundle!AllFiles
         /\ \A g \in DOMAIN reader'.got : reader'.got[g] \in past[g]
         /\ "ledger" \in DOMAIN reader'.got => LedgerLike(reader'.got["ledger"])
<1>1. /\ DOMAIN reader'.got = DOMAIN reader.got \cup {f} /\ reader'.got[f] = disk[f]
      /\ \A g \in DOMAIN reader.got : reader'.got[g] = reader.got[g]
      /\ reader'.got = [g \in DOMAIN reader'.got |-> reader'.got[g]]
  BY DEF Bundle!With
<1>2. DOMAIN reader'.got \subseteq Bundle!AllFiles
  BY <1>1 DEF Bundled, HasRead
<1>3. \A g \in DOMAIN reader'.got : reader'.got[g] \in past[g]
  BY <1>1 DEF Bundled, HasRead, OnDisk
<1>4. "ledger" \in DOMAIN reader'.got => LedgerLike(reader'.got["ledger"])
  BY <1>1 DEF Bundled, HasRead, OnDisk
<1> QED
  BY <1>1, <1>2, <1>3, <1>4

LEMMA RefusesBundle ==
  ASSUME Bundled, UNCHANGED <<flow, disk, past, bundleEdits>>, Bundle!Go("refused")
  PROVE  Bundled'
<1>1. reader = [at |-> reader.at, authorized |-> reader.authorized, next |-> reader.next,
                parsed |-> reader.parsed, got |-> reader.got, left |-> reader.left,
                whole |-> reader.whole]
  BY DEF Bundled, HasRead
<1>2. PICK p : p = reader.parsed
  OBVIOUS
<1>3. reader' = [reader EXCEPT !.at = "refused", !.parsed = p]
  BY <1>1, <1>2 DEF Bundle!Go
<1> QED
  BY <1>3, StaysBundle

(* The files that are read first, in their order.                            *)
LEMMA FirstFiles ==
  ASSUME Bundled
  PROVE  /\ Len(Bundle!First) \in {3, 4}
         /\ \A i \in 1..Len(Bundle!First) :
              /\ Bundle!First[i] \in {"anchor", "authority", "ledger", "head"}
              /\ \A j \in 1..(i - 1) : Bundle!First[j] # Bundle!First[i]
         /\ {Bundle!First[i] : i \in 1..Len(Bundle!First)} = Named
<1>1. CASE reader.authorized
  <2>1. Bundle!First = <<"anchor", "authority", "ledger", "head">> /\ Len(Bundle!First) = 4
    BY <1>1 DEF Bundle!First
  <2>2. Named = {"anchor", "ledger", "head", "authority"}
    BY <1>1 DEF Named
  <2>3. /\ Bundle!First[1] = "anchor" /\ Bundle!First[2] = "authority"
        /\ Bundle!First[3] = "ledger" /\ Bundle!First[4] = "head"
    BY <2>1
  <2>4. 1..4 = {1, 2, 3, 4}
    OBVIOUS
  <2>5. {Bundle!First[i] : i \in 1..Len(Bundle!First)} = Named
    BY <2>1, <2>2, <2>3, <2>4
  <2> QED
    BY <2>1, <2>3, <2>5
<1>2. CASE ~reader.authorized
  <2>1. Bundle!First = <<"anchor", "ledger", "head">> /\ Len(Bundle!First) = 3
    BY <1>2 DEF Bundle!First
  <2>2. Named = {"anchor", "ledger", "head"}
    BY <1>2 DEF Named
  <2>3. Bundle!First[1] = "anchor" /\ Bundle!First[2] = "ledger" /\ Bundle!First[3] = "head"
    BY <2>1
  <2>4. 1..3 = {1, 2, 3}
    OBVIOUS
  <2>5. {Bundle!First[i] : i \in 1..Len(Bundle!First)} = Named
    BY <2>1, <2>2, <2>3, <2>4
  <2> QED
    BY <2>1, <2>3, <2>5
<1> QED
  BY <1>1, <1>2

LEMMA FirstBundle ==
  ASSUME Bundled, Bundle!ReadFirst
  PROVE  Bundled'
<1>1. reader.at = "first" /\ UNCHANGED <<flow, disk, past, bundleEdits>>
  BY DEF Bundle!ReadFirst, Bundle!At, Bundle!World
<1> DEFINE f == Bundle!First[reader.next]
           next == IF reader.next = Len(Bundle!First) THEN "ledger" ELSE "first"
<1>2. CASE Bundle!Go("refused")
  BY <1>1, <1>2, RefusesBundle
<1>3. CASE /\ f = "anchor" => Bundle!AnchorTrusted
           /\ f = "authority" => Bundle!AuthorityTrusted
           /\ reader' = [reader EXCEPT !.got = Bundle!With(@, f, disk[f]), !.next = @ + 1, !.at = next]
  <2>1. /\ reader = [at |-> reader.at, authorized |-> reader.authorized, next |-> reader.next,
                     parsed |-> reader.parsed, got |-> reader.got, left |-> reader.left,
                     whole |-> reader.whole]
        /\ reader.authorized \in BOOLEAN
        /\ reader.next \in 1..Len(Bundle!First)
        /\ DOMAIN reader.got = {Bundle!First[i] : i \in 1..(reader.next - 1)}
        /\ \A g \in Bundle!Trusted \cap DOMAIN reader.got : reader.got[g] = Bundle!Plain(0, g, 0)
    BY <1>1 DEF Bundled, HasRead
  <2>2. f \in {"anchor", "authority", "ledger", "head"} /\ f \notin DOMAIN reader.got
    BY <2>1, FirstFiles
  <2>3. f \in Bundle!AllFiles
    BY <2>2, FileNames DEF Bundle!Runs
  <2>4. f \in Bundle!Trusted => disk[f] = Bundle!Plain(0, f, 0)
    BY <1>3 DEF Bundle!Trusted, Bundle!AnchorTrusted, Bundle!AuthorityTrusted, Bundled, OnDisk
  <2>5. /\ reader'.at = next /\ reader'.authorized = reader.authorized
        /\ reader'.next = reader.next + 1 /\ reader'.got = Bundle!With(reader.got, f, disk[f])
        /\ reader' = [at |-> reader'.at, authorized |-> reader'.authorized, next |-> reader'.next,
                      parsed |-> reader'.parsed, got |-> reader'.got, left |-> reader'.left,
                      whole |-> reader'.whole]
    BY <1>3, <2>1
  <2>6. /\ Bundle!First' = Bundle!First /\ Named' = Named
    BY <2>5 DEF Bundle!First, Named
  <2>7. next \in {"ledger", "first"} /\ (next = "ledger" <=> reader.next = Len(Bundle!First))
    OBVIOUS
  <2>8. f = Bundle!First[reader.next]
    OBVIOUS
  <2> HIDE DEF f, next
  <2>9. /\ DOMAIN reader'.got = DOMAIN reader.got \cup {f} /\ reader'.got[f] = disk[f]
        /\ \A g \in DOMAIN reader.got : reader'.got[g] = reader.got[g]
        /\ reader'.got = [g \in DOMAIN reader'.got |-> reader'.got[g]]
        /\ DOMAIN reader'.got \subseteq Bundle!AllFiles
        /\ \A g \in DOMAIN reader'.got : reader'.got[g] \in past[g]
        /\ "ledger" \in DOMAIN reader'.got => LedgerLike(reader'.got["ledger"])
    BY <1>1, <2>2, <2>3, <2>5, AddedBundle
  <2>10. 1..reader.next = 1..(reader.next - 1) \cup {reader.next} /\ reader.next \in 1..4
    BY <2>1, FirstFiles
  <2>11. DOMAIN reader'.got = {Bundle!First[i] : i \in 1..reader.next}
    BY <2>1, <2>8, <2>9, <2>10
  <2>12. \A g \in Bundle!Trusted \cap DOMAIN reader'.got : reader'.got[g] = Bundle!Plain(0, g, 0)
    BY <2>1, <2>4, <2>9
  <2>13. reader'.at = "ledger" => DOMAIN reader'.got = Named
    BY <2>5, <2>7, <2>11, FirstFiles
  <2>14. reader'.at = "first" => reader'.next \in 1..Len(Bundle!First)
    BY <2>1, <2>5, <2>7, FirstFiles
  <2>15. DOMAIN reader'.got = {Bundle!First[i] : i \in 1..(reader'.next - 1)}
    BY <2>5, <2>10, <2>11
  <2>16. LedgerLike(reader'.got["ledger"]) <=> LedgerLike(reader.got["ledger"])'
    BY DEF LedgerLike
  <2>17. reader'.at \in {"first", "ledger"}
    BY <2>5, <2>7
  <2>18. /\ "first" \in Reading /\ "ledger" \in Reading
         /\ "first" \notin {"manifest"} \cup Compared /\ "ledger" \notin {"manifest"} \cup Compared
    BY DEF Reading, Compared
  <2>19. HasRead'
    <3>1. /\ Bundle!AllFiles' = Bundle!AllFiles /\ past' = past
          /\ reader'.at \in Reading /\ reader'.authorized \in BOOLEAN
      BY <1>1, <2>1, <2>5, <2>17, <2>18, TreeRests
    <3>2. reader'.at = "first" =>
            /\ reader'.next \in 1..Len(Bundle!First')
            /\ DOMAIN reader'.got = {Bundle!First'[i] : i \in 1..(reader'.next - 1)}
      BY <2>6, <2>14, <2>15
    <3>3. reader'.at \in {"ledger", "manifest"} => DOMAIN reader'.got = Named'
      BY <2>6, <2>13, <2>17
    <3>4. reader'.at \notin {"manifest"} \cup Compared
      BY <2>17, <2>18
    <3> QED
      BY <2>5, <2>9, <2>12, <2>16, <3>1, <3>2, <3>3, <3>4 DEF HasRead
  <2>20. IsOfRun' /\ IsRechecked'
    BY <2>17, <2>18 DEF IsOfRun, IsRechecked
  <2> QED
    BY <1>1, <2>19, <2>20, TreeRests DEF Bundled
<1> QED
  BY <1>2, <1>3 DEF Bundle!ReadFirst

LEMMA LedgerBundle ==
  ASSUME Bundled, Bundle!VerifyLedger
  PROVE  Bundled'
<1>1. reader.at = "ledger" /\ UNCHANGED <<flow, disk, past, bundleEdits>>
  BY DEF Bundle!VerifyLedger, Bundle!At, Bundle!World
<1>2. CASE Bundle!Go("refused")
  BY <1>1, <1>2, RefusesBundle
<1>3. CASE /\ disk["ledger"].signed /\ disk["head"].signed
           /\ disk["head"].run = disk["ledger"].run
           /\ disk["head"].length = disk["ledger"].length
           /\ reader.got["ledger"].length = Bundle!Length(Bundle!Run)
           /\ Bundle!Go("manifest")
  <2>1. /\ reader = [at |-> reader.at, authorized |-> reader.authorized, next |-> reader.next,
                     parsed |-> reader.parsed, got |-> reader.got, left |-> reader.left,
                     whole |-> reader.whole]
        /\ DOMAIN reader.got = Named
    BY <1>1 DEF Bundled, HasRead
  <2>2. reader' = [at |-> "manifest", authorized |-> reader.authorized, next |-> reader.next,
                   parsed |-> reader.parsed, got |-> reader.got, left |-> reader.left,
                   whole |-> reader.whole]
    BY <1>3, <2>1 DEF Bundle!Go
  <2>3. /\ reader'.at = "manifest" /\ reader'.got = reader.got
        /\ reader'.authorized = reader.authorized
        /\ reader' = [at |-> reader'.at, authorized |-> reader'.authorized, next |-> reader'.next,
                      parsed |-> reader'.parsed, got |-> reader'.got, left |-> reader'.left,
                      whole |-> reader'.whole]
    BY <2>2
  <2>4. /\ Exact' = Exact /\ Named' = Named /\ Bundle!Run' = Bundle!Run
        /\ Bundle!Length(Bundle!Run)' = Bundle!Length(Bundle!Run)
    BY <1>1, <2>3, SameRun DEF Named
  <2>5. ASSUME disk["ledger"] = reader.got["ledger"], disk["head"] = reader.got["head"]
        PROVE  Exact
    <3>1. PICK r \in Bundle!Runs, n \in 1..5, b \in BOOLEAN :
            disk["ledger"] = [run |-> r, length |-> n, signed |-> b]
      BY DEF Bundled, OnDisk, LedgerLike
    <3>2. PICK s \in Bundle!Runs, m \in 1..5, c \in BOOLEAN :
            disk["head"] = [run |-> s, length |-> m, signed |-> c]
      BY DEF Bundled, OnDisk, LedgerLike
    <3>11. disk["ledger"].signed = b /\ disk["head"].signed = c
      BY <3>1, <3>2
    <3>12. disk["ledger"].signed /\ disk["head"].signed
      BY <1>3
    <3>3. b /\ c
      BY <3>11, <3>12, Zenon
    <3>4. s = r /\ m = n
      BY <1>3, <3>1, <3>2
    <3>5. r = Bundle!Run
      BY <2>5, <3>1 DEF Bundle!Run
    <3>6. n = Bundle!Length(Bundle!Run)
      BY <1>3, <2>5, <3>1
    <3>7. b = TRUE /\ c = TRUE
      BY <3>3
    <3>8. Bundle!Ledger(r, n) = [run |-> r, length |-> n, signed |-> b]
      BY <3>7 DEF Bundle!Ledger
    <3>9. Bundle!Ledger(r, n) = [run |-> r, length |-> n, signed |-> c]
      BY <3>7 DEF Bundle!Ledger
    <3>10. disk["ledger"] = Bundle!Ledger(r, n) /\ disk["head"] = Bundle!Ledger(r, n)
      BY <3>1, <3>2, <3>4, <3>8, <3>9
    <3> QED
      BY <2>5, <3>5, <3>6, <3>10 DEF Exact
  <2>6. LedgerLike(reader.got["ledger"])' = LedgerLike(reader.got["ledger"])
    BY <2>3 DEF LedgerLike
  <2>7. \/ disk'["ledger"] # reader'.got["ledger"]
        \/ disk'["head"] # reader'.got["head"]
        \/ Exact'
    BY <1>1, <2>3, <2>4, <2>5
  <2>8. HasRead'
    <3>1. /\ reader.authorized \in BOOLEAN /\ reader.got = [f \in DOMAIN reader.got |-> reader.got[f]]
          /\ DOMAIN reader.got \subseteq Bundle!AllFiles
          /\ \A f \in DOMAIN reader.got : reader.got[f] \in past[f]
          /\ "ledger" \in DOMAIN reader.got => LedgerLike(reader.got["ledger"])
          /\ \A f \in Bundle!Trusted \cap DOMAIN reader.got : reader.got[f] = Bundle!Plain(0, f, 0)
      BY DEF Bundled, HasRead
    <3>2. \A f \in Bundle!Trusted \cap DOMAIN reader'.got : reader'.got[f] = Bundle!Plain(0, f, 0)
      BY <2>3, <3>1
    <3>3. /\ Bundle!AllFiles' = Bundle!AllFiles /\ past' = past
          /\ reader'.at \in Reading /\ reader'.at # "first"
      BY <1>1, <2>3, TreeRests DEF Reading
    <3>4. reader'.got["ledger"].length = Bundle!Length(Bundle!Run)'
      BY <1>3, <2>3, <2>4
    <3> QED
      BY <2>1, <2>3, <2>4, <2>6, <2>7, <3>1, <3>2, <3>3, <3>4 DEF HasRead
  <2>9. IsOfRun' /\ IsRechecked'
    BY <2>3 DEF IsOfRun, IsRechecked, Compared
  <2> QED
    BY <1>1, <2>8, <2>9, TreeRests DEF Bundled
<1> QED
  BY <1>2, <1>3 DEF Bundle!VerifyLedger, Bundle!Check

(* A file is added to those that are compared: the manifest or one it names. *)
LEMMA ComparesBundle ==
  ASSUME Bundled, UNCHANGED <<flow, disk, past, bundleEdits>>, NEW f,
         reader.at \in {"manifest", "hash"},
         reader' = [at |-> "hash", authorized |-> reader.authorized, next |-> reader.next,
                    parsed |-> reader.parsed, got |-> Bundle!With(reader.got, f, disk[f]),
                    left |-> reader.left, whole |-> reader.whole],
         \/ /\ reader.at = "manifest" /\ f = "manifest" /\ disk[f] = Bundle!Signed[f]
            /\ reader.authorized = (Bundle!Run = Bundle!Amended)
         \/ /\ reader.at = "hash" /\ f \in Bundle!Artifacts(Bundle!Run) \ DOMAIN reader.got
            /\ disk[f] = Bundle!Signed[f]
  PROVE  Bundled'
<1>1. /\ reader = [at |-> reader.at, authorized |-> reader.authorized, next |-> reader.next,
                   parsed |-> reader.parsed, got |-> reader.got, left |-> reader.left,
                   whole |-> reader.whole]
      /\ reader.authorized \in BOOLEAN
      /\ reader.at = "manifest" => DOMAIN reader.got = Named
      /\ reader.at = "hash" => Named \cup {"manifest"} \subseteq DOMAIN reader.got
      /\ \A g \in Bundle!Trusted \cap DOMAIN reader.got : reader.got[g] = Bundle!Plain(0, g, 0)
      /\ reader.got["ledger"].length = Bundle!Length(Bundle!Run)
      /\ \/ disk["ledger"] # reader.got["ledger"]
         \/ disk["head"] # reader.got["head"]
         \/ Exact
  BY DEF Bundled, HasRead, IsOfRun, Compared
<1>2. Bundle!Run \in Bundle!Runs
  BY <1>1, RunIsOne DEF Named
<1>3. /\ f \in Bundle!AllFiles /\ f \notin DOMAIN reader.got /\ f \notin Bundle!Trusted
      /\ "ledger" \in DOMAIN reader.got /\ "head" \in DOMAIN reader.got
      /\ f # "ledger" /\ f # "head"
  <2>1. CASE reader.at = "manifest"
    BY <1>1, <1>2, <2>1, FileNames DEF Named, Bundle!Trusted
  <2>2. CASE reader.at = "hash"
    BY <1>1, <1>2, <2>2, FileNames DEF Named, Bundle!Trusted
  <2> QED
    BY <2>1, <2>2
<1>4. /\ reader'.at = "hash" /\ reader'.authorized = reader.authorized
      /\ reader'.got = Bundle!With(reader.got, f, disk[f])
      /\ reader' = [at |-> reader'.at, authorized |-> reader'.authorized, next |-> reader'.next,
                    parsed |-> reader'.parsed, got |-> reader'.got, left |-> reader'.left,
                    whole |-> reader'.whole]
  BY <1>1
<1>5. /\ DOMAIN reader'.got = DOMAIN reader.got \cup {f} /\ reader'.got[f] = disk[f]
      /\ \A g \in DOMAIN reader.got : reader'.got[g] = reader.got[g]
      /\ reader'.got = [g \in DOMAIN reader'.got |-> reader'.got[g]]
      /\ DOMAIN reader'.got \subseteq Bundle!AllFiles
      /\ \A g \in DOMAIN reader'.got : reader'.got[g] \in past[g]
      /\ "ledger" \in DOMAIN reader'.got => LedgerLike(reader'.got["ledger"])
  BY <1>3, <1>4, AddedBundle
<1>6. reader'.got["ledger"] = reader.got["ledger"] /\ reader'.got["head"] = reader.got["head"]
  BY <1>3, <1>5
<1>7. /\ Bundle!Run' = Bundle!Run /\ Bundle!Signed' = Bundle!Signed /\ Exact' = Exact
      /\ Bundle!Artifacts(Bundle!Run)' = Bundle!Artifacts(Bundle!Run)
      /\ Bundle!Length(Bundle!Run)' = Bundle!Length(Bundle!Run) /\ Named' = Named
  BY <1>4, <1>6, SameRun DEF Named
<1>8. HasRead'
  <2>1. /\ Bundle!AllFiles' = Bundle!AllFiles /\ past' = past /\ disk' = disk
        /\ reader'.at \in Reading /\ reader'.at \notin {"first", "ledger", "manifest"}
        /\ reader'.authorized \in BOOLEAN
    BY <1>1, <1>4, TreeRests DEF Reading, Compared
  <2>2. \A g \in Bundle!Trusted \cap DOMAIN reader'.got : reader'.got[g] = Bundle!Plain(0, g, 0)
    BY <1>1, <1>3, <1>5
  <2>3. LedgerLike(reader'.got["ledger"]) <=> LedgerLike(reader.got["ledger"])'
    BY DEF LedgerLike
  <2>4. reader'.got["ledger"].length = Bundle!Length(Bundle!Run)'
    BY <1>1, <1>6, <1>7
  <2>5. \/ disk'["ledger"] # reader'.got["ledger"]
        \/ disk'["head"] # reader'.got["head"]
        \/ Exact'
    BY <1>1, <1>6, <1>7, <2>1
  <2> QED
    BY <1>4, <1>5, <2>1, <2>2, <2>3, <2>4, <2>5 DEF HasRead
<1>9. IsOfRun'
  <2>1. reader.at = "manifest" => \A g \in Bundle!Artifacts(Bundle!Run) : g \notin DOMAIN reader'.got
    BY <1>1, <1>2, <1>5, FileNames DEF Named
  <2>2. /\ Named \cup {"manifest"} \subseteq DOMAIN reader'.got
        /\ DOMAIN reader'.got \subseteq Named \cup {"manifest"} \cup Bundle!Artifacts(Bundle!Run)
    BY <1>1, <1>5 DEF Bundled, IsOfRun, Compared
  <2>3. reader.authorized = (Bundle!Run = Bundle!Amended)
    BY DEF Bundled, IsOfRun, Compared
  <2>4. reader'.got["manifest"] = Bundle!Signed["manifest"]
    BY <1>1, <1>5 DEF Bundled, IsOfRun, Compared
  <2>5. \A g \in Bundle!Artifacts(Bundle!Run) \cap DOMAIN reader'.got : reader'.got[g] = Bundle!Signed[g]
    BY <1>5, <2>1 DEF Bundled, IsOfRun, Compared
  <2> QED
    BY <1>4, <1>7, <2>2, <2>3, <2>4, <2>5 DEF IsOfRun
<1>10. IsRechecked'
  BY <1>4 DEF IsRechecked
<1> QED
  BY <1>8, <1>9, <1>10, TreeRests DEF Bundled

LEMMA ManifestBundle ==
  ASSUME Bundled, Bundle!ReadManifest
  PROVE  Bundled'
<1>1. reader.at = "manifest" /\ UNCHANGED <<flow, disk, past, bundleEdits>>
  BY DEF Bundle!ReadManifest, Bundle!At, Bundle!World
<1>2. CASE Bundle!Go("refused")
  BY <1>1, <1>2, RefusesBundle
<1>3. CASE /\ disk["manifest"] = Bundle!Signed["manifest"] /\ Bundle!RunIsAuthorized
           /\ reader' = [reader EXCEPT !.at = "hash",
                                       !.got = Bundle!With(@, "manifest", disk["manifest"])]
  <2>1. reader.authorized = (Bundle!Run = Bundle!Amended)
    BY <1>3 DEF Bundle!RunIsAuthorized
  <2>2. reader = [at |-> reader.at, authorized |-> reader.authorized, next |-> reader.next,
                  parsed |-> reader.parsed, got |-> reader.got, left |-> reader.left,
                  whole |-> reader.whole]
    BY DEF Bundled, HasRead
  <2>3. PICK w : w = Bundle!With(reader.got, "manifest", disk["manifest"])
    OBVIOUS
  <2>4. reader' = [reader EXCEPT !.at = "hash", !.got = w]
    BY <1>3, <2>3
  <2>5. reader' = [at |-> "hash", authorized |-> reader.authorized, next |-> reader.next,
                   parsed |-> reader.parsed, got |-> w, left |-> reader.left,
                   whole |-> reader.whole]
    BY <2>2, <2>4
  <2> QED
    BY <1>1, <1>3, <2>1, <2>3, <2>5, ComparesBundle
<1> QED
  BY <1>2, <1>3 DEF Bundle!ReadManifest

LEMMA HashBundle ==
  ASSUME Bundled, Bundle!HashArtifact
  PROVE  Bundled'
<1>1. reader.at = "hash" /\ UNCHANGED <<flow, disk, past, bundleEdits>>
  BY DEF Bundle!HashArtifact, Bundle!At, Bundle!World
<1>2. reader = [at |-> reader.at, authorized |-> reader.authorized, next |-> reader.next,
                parsed |-> reader.parsed, got |-> reader.got, left |-> reader.left,
                whole |-> reader.whole]
  BY DEF Bundled, HasRead
<1>3. CASE Bundle!Go("refused")
  BY <1>1, <1>3, RefusesBundle
<1>4. CASE Bundle!Unhashed = {} /\ Bundle!Go("bundle")
  <2>1. PICK p : p = reader.parsed
    OBVIOUS
  <2>2. reader' = [reader EXCEPT !.at = "bundle", !.parsed = p]
    BY <1>2, <1>4, <2>1 DEF Bundle!Go
  <2>3. Bundle!Artifacts(Bundle!Run) \subseteq DOMAIN reader.got
    BY <1>4 DEF Bundle!Unhashed
  <2>4. "bundle" \in Middle /\ reader.at \in Compared
    BY <1>1 DEF Middle, Compared
  <2> QED
    BY <1>1, <2>2, <2>3, <2>4, StaysBundle
<1>5. ASSUME NEW f, f \in Bundle!Unhashed, disk[f] = reader.got["manifest"].of[f],
             reader' = [reader EXCEPT !.got = Bundle!With(@, f, disk[f])]
      PROVE  Bundled'
  <2>1. f \in Bundle!Artifacts(Bundle!Run) \ DOMAIN reader.got
    BY <1>5 DEF Bundle!Unhashed
  <2>2. reader.got["manifest"] = Bundle!Signed["manifest"] /\ "ledger" \in DOMAIN reader.got
    BY <1>1 DEF Bundled, IsOfRun, Compared, Named
  <2>3. Bundle!Run \in Bundle!Runs
    BY <2>2, RunIsOne
  <2>4. Bundle!Signed["manifest"].of = [g \in Bundle!Artifacts(Bundle!Run) |-> Bundle!Signed[g]]
    BY <2>3, WrittenParts DEF Bundle!Signed
  <2>5. disk[f] = Bundle!Signed[f]
    BY <1>5, <2>1, <2>2, <2>4
  <2>6. PICK w : w = Bundle!With(reader.got, f, disk[f])
    OBVIOUS
  <2>7. reader' = [reader EXCEPT !.got = w]
    BY <1>5, <2>6
  <2>8. reader' = [at |-> "hash", authorized |-> reader.authorized, next |-> reader.next,
                   parsed |-> reader.parsed, got |-> w, left |-> reader.left,
                   whole |-> reader.whole]
    BY <1>1, <1>2, <2>7
  <2> QED
    BY <1>1, <2>1, <2>5, <2>6, <2>8, ComparesBundle
<1>6. Bundle!Unhashed # {} => (CHOOSE g \in Bundle!Unhashed : TRUE) \in Bundle!Unhashed
  OBVIOUS
<1> QED
  BY <1>3, <1>4, <1>5, <1>6 DEF Bundle!HashArtifact

(* What is read again and compared with what was read.                       *)
LEMMA MiddleBundle ==
  ASSUME Bundled,
         \/ Bundle!ReadBundle \/ Bundle!ReadReport \/ Bundle!ReadResult \/ Bundle!ReadLearning
         \/ Bundle!ReadAuthority \/ Bundle!ReadInputs \/ Bundle!ReadData
  PROVE  Bundled'
<1>1. /\ UNCHANGED <<flow, disk, past, bundleEdits>>
      /\ reader.at \in {"bundle", "report", "result", "learning", "authority", "inputs", "data"}
  BY DEF Bundle!ReadBundle, Bundle!ReadReport, Bundle!ReadResult, Bundle!ReadLearning,
         Bundle!ReadAuthority, Bundle!ReadInputs, Bundle!ReadData, Bundle!At, Bundle!World
<1>2. /\ reader = [at |-> reader.at, authorized |-> reader.authorized, next |-> reader.next,
                   parsed |-> reader.parsed, got |-> reader.got, left |-> reader.left,
                   whole |-> reader.whole]
      /\ reader.at \in Compared /\ Bundle!Artifacts(Bundle!Run) \subseteq DOMAIN reader.got
  BY <1>1 DEF Bundled, HasRead, IsOfRun, Compared
<1>3. {"report", "result", "learning", "authority", "inputs", "data", "adjudicated"} \subseteq Middle
  BY DEF Middle, Compared
<1>4. ASSUME NEW next, next \in Middle \cup {"refused"}, Bundle!Go(next)
      PROVE  Bundled'
  <2>1. PICK p : p = reader.parsed
    OBVIOUS
  <2>2. reader' = [reader EXCEPT !.at = next, !.parsed = p]
    BY <1>2, <1>4, <2>1 DEF Bundle!Go
  <2> QED
    BY <1>1, <1>2, <1>4, <2>2, StaysBundle
<1>5. CASE Bundle!ReadReport
  <2>1. CASE Bundle!Go("refused")
    BY <1>4, <2>1
  <2>2. CASE reader' = [reader EXCEPT !.at = "result", !.parsed = disk["report"]]
    BY <1>1, <1>2, <1>3, <2>2, StaysBundle
  <2> QED
    BY <1>5, <2>1, <2>2 DEF Bundle!ReadReport
<1>6. CASE Bundle!ReadBundle
  <2>1. Bundle!Go("report") \/ Bundle!Go("refused")
    BY <1>6 DEF Bundle!ReadBundle, Bundle!Check
  <2> QED
    BY <1>3, <1>4, <2>1
<1>7. CASE Bundle!ReadResult
  <2>1. Bundle!Go("learning") \/ Bundle!Go("refused")
    BY <1>7 DEF Bundle!ReadResult, Bundle!Check
  <2> QED
    BY <1>3, <1>4, <2>1
<1>8. CASE Bundle!ReadLearning
  <2>1. Bundle!Go("authority") \/ Bundle!Go("inputs") \/ Bundle!Go("refused")
    BY <1>8 DEF Bundle!ReadLearning, Bundle!Check
  <2> QED
    BY <1>3, <1>4, <2>1
<1>9. CASE Bundle!ReadAuthority
  <2>1. Bundle!Go("inputs") \/ Bundle!Go("refused")
    BY <1>9 DEF Bundle!ReadAuthority, Bundle!Check
  <2> QED
    BY <1>3, <1>4, <2>1
<1>10. CASE Bundle!ReadInputs
  <2>1. Bundle!Go("data") \/ Bundle!Go("refused")
    BY <1>10 DEF Bundle!ReadInputs, Bundle!Check
  <2> QED
    BY <1>3, <1>4, <2>1
<1>11. CASE Bundle!ReadData
  <2>1. Bundle!Go("adjudicated") \/ Bundle!Go("refused")
    BY <1>11 DEF Bundle!ReadData, Bundle!Check
  <2> QED
    BY <1>3, <1>4, <2>1
<1> QED
  BY <1>5, <1>6, <1>7, <1>8, <1>9, <1>10, <1>11

(* The reading again begins, and goes on.                                    *)
LEMMA AgainBundle ==
  ASSUME Bundled, UNCHANGED <<flow, disk, past, bundleEdits>>,
         reader' = [at |-> reader'.at, authorized |-> reader'.authorized, next |-> reader'.next,
                    parsed |-> reader'.parsed, got |-> reader'.got, left |-> reader'.left,
                    whole |-> reader'.whole],
         reader'.got = reader.got, reader'.authorized = reader.authorized,
         reader'.parsed = reader.parsed, reader'.at \in {"recheck", "verified"},
         reader.at \in Compared \ {"hash"}, reader'.left \subseteq DOMAIN reader.got,
         reader'.at = "verified" => reader'.left = {},
         Bundle!Verdict(reader.parsed) = Bundle!Verdict(Bundle!Signed["report"]),
         (\E f \in reader'.left : disk[f] # reader.got[f]) \/ (reader'.whole /\ Exact)
  PROVE  Bundled'
<1>4. /\ Bundle!Run' = Bundle!Run /\ Bundle!Signed' = Bundle!Signed /\ Exact' = Exact
      /\ Bundle!Artifacts(Bundle!Run)' = Bundle!Artifacts(Bundle!Run)
      /\ Bundle!Length(Bundle!Run)' = Bundle!Length(Bundle!Run) /\ Named' = Named
  BY SameRun DEF Named
<1>5. reader'.at \in Reading /\ reader'.at \in Compared /\ reader'.at \notin {"first", "ledger", "manifest", "hash"}
  BY DEF Reading, Compared
<1>6. HasRead'
  <2>1. /\ reader.got["ledger"].length = Bundle!Length(Bundle!Run)
        /\ \/ disk["ledger"] # reader.got["ledger"]
           \/ disk["head"] # reader.got["head"]
           \/ Exact
        /\ reader.authorized \in BOOLEAN /\ reader.got = [f \in DOMAIN reader.got |-> reader.got[f]]
        /\ DOMAIN reader.got \subseteq Bundle!AllFiles
        /\ \A f \in DOMAIN reader.got : reader.got[f] \in past[f]
        /\ "ledger" \in DOMAIN reader.got => LedgerLike(reader.got["ledger"])
        /\ \A f \in Bundle!Trusted \cap DOMAIN reader.got : reader.got[f] = Bundle!Plain(0, f, 0)
    BY DEF Bundled, HasRead
  <2>2. LedgerLike(reader.got["ledger"])' = LedgerLike(reader.got["ledger"])
    BY DEF LedgerLike
  <2>3. \A f \in Bundle!Trusted \cap DOMAIN reader'.got : reader'.got[f] = Bundle!Plain(0, f, 0)
    BY <2>1
  <2> QED
    BY <1>4, <1>5, <2>1, <2>2, <2>3, TreeRests DEF HasRead
<1>7. IsOfRun'
  BY <1>4, <1>5 DEF Bundled, IsOfRun
<1>8. IsRechecked'
  <2>1. Bundle!Verdict(reader.parsed)' = Bundle!Verdict(reader.parsed)
    BY DEF Bundle!Verdict
  <2>2. Bundle!Verdict(Bundle!Signed["report"])' = Bundle!Verdict(Bundle!Signed["report"])
    BY <1>4 DEF Bundle!Verdict
  <2>3. (\E f \in reader'.left : disk'[f] # reader'.got[f]) \/ (reader'.whole /\ Exact')
    BY <1>4
  <2> QED
    BY <2>1, <2>2, <2>3 DEF IsRechecked
<1> QED
  BY <1>6, <1>7, <1>8, TreeRests DEF Bundled

LEMMA AdjudicatedBundle ==
  ASSUME Bundled, Bundle!CheckAdjudicated
  PROVE  Bundled'
<1>1. reader.at = "adjudicated" /\ UNCHANGED <<flow, disk, past, bundleEdits>>
  BY DEF Bundle!CheckAdjudicated, Bundle!At, Bundle!World
<1>2. CASE Bundle!Go("refused")
  BY <1>1, <1>2, RefusesBundle
<1>3. CASE /\ Bundle!Verdict(reader.parsed) = Bundle!Verdict(Bundle!Signed["report"])
           /\ reader' = [reader EXCEPT !.at = "recheck", !.left = DOMAIN reader.got,
                          !.whole = \A f \in DOMAIN reader.got : disk[f] = reader.got[f]]
  <2>1. PICK w : w = (\A f \in DOMAIN reader.got : disk[f] = reader.got[f])
    OBVIOUS
  <2>2. reader' = [reader EXCEPT !.at = "recheck", !.left = DOMAIN reader.got, !.whole = w]
    BY <1>3, <2>1
  <2>3. /\ "ledger" \in DOMAIN reader.got /\ "head" \in DOMAIN reader.got
        /\ \/ disk["ledger"] # reader.got["ledger"]
           \/ disk["head"] # reader.got["head"]
           \/ Exact
    BY <1>1 DEF Bundled, HasRead, IsOfRun, Compared, Named
  <2>4. (\E f \in DOMAIN reader.got : disk[f] # reader.got[f]) \/ (w /\ Exact)
    BY <2>1, <2>3
  <2>5. reader.at \in Compared \ {"hash"}
    BY <1>1 DEF Compared
  <2>6. reader = [at |-> reader.at, authorized |-> reader.authorized, next |-> reader.next,
                  parsed |-> reader.parsed, got |-> reader.got, left |-> reader.left,
                  whole |-> reader.whole]
    BY DEF Bundled, HasRead
  <2>7. reader' = [at |-> "recheck", authorized |-> reader.authorized, next |-> reader.next,
                   parsed |-> reader.parsed, got |-> reader.got, left |-> DOMAIN reader.got,
                   whole |-> w]
    BY <2>2, <2>6
  <2>8. /\ reader'.at = "recheck" /\ reader'.got = reader.got /\ reader'.parsed = reader.parsed
        /\ reader'.authorized = reader.authorized /\ reader'.left = DOMAIN reader.got
        /\ reader'.whole = w
        /\ reader' = [at |-> reader'.at, authorized |-> reader'.authorized, next |-> reader'.next,
                      parsed |-> reader'.parsed, got |-> reader'.got, left |-> reader'.left,
                      whole |-> reader'.whole]
    BY <2>7
  <2> QED
    BY <1>1, <1>3, <2>4, <2>5, <2>8, AgainBundle
<1> QED
  BY <1>2, <1>3 DEF Bundle!CheckAdjudicated

LEMMA RecheckBundle ==
  ASSUME Bundled, Bundle!Recheck
  PROVE  Bundled'
<1>1. reader.at = "recheck" /\ UNCHANGED <<flow, disk, past, bundleEdits>>
  BY DEF Bundle!Recheck, Bundle!At, Bundle!World
<1>2. CASE Bundle!Go("refused")
  BY <1>1, <1>2, RefusesBundle
<1>3. /\ Bundle!Verdict(reader.parsed) = Bundle!Verdict(Bundle!Signed["report"])
      /\ reader.left \subseteq DOMAIN reader.got
      /\ (\E f \in reader.left : disk[f] # reader.got[f]) \/ (reader.whole /\ Exact)
  BY <1>1 DEF Bundled, IsRechecked
<1>4. /\ reader = [at |-> reader.at, authorized |-> reader.authorized, next |-> reader.next,
                   parsed |-> reader.parsed, got |-> reader.got, left |-> reader.left,
                   whole |-> reader.whole]
      /\ reader.at \in Compared \ {"hash"}
  BY <1>1 DEF Bundled, HasRead, Compared
<1>5. ASSUME NEW next \in {"recheck", "verified"}, NEW l,
             reader' = [at |-> next, authorized |-> reader.authorized, next |-> reader.next,
                        parsed |-> reader.parsed, got |-> reader.got, left |-> l,
                        whole |-> reader.whole],
             l \subseteq reader.left, \A f \in reader.left \ l : disk[f] = reader.got[f],
             next = "verified" => l = {}
      PROVE  Bundled'
  <2>1. /\ reader'.at = next /\ reader'.got = reader.got /\ reader'.parsed = reader.parsed
        /\ reader'.authorized = reader.authorized /\ reader'.left = l
        /\ reader'.whole = reader.whole
        /\ reader' = [at |-> reader'.at, authorized |-> reader'.authorized, next |-> reader'.next,
                      parsed |-> reader'.parsed, got |-> reader'.got, left |-> reader'.left,
                      whole |-> reader'.whole]
    BY <1>5
  <2>2. (\E f \in l : disk[f] # reader.got[f]) \/ (reader.whole /\ Exact)
    BY <1>3, <1>5
  <2>3. (\E f \in reader'.left : disk[f] # reader.got[f]) \/ (reader'.whole /\ Exact)
    BY <2>1, <2>2
  <2>4. reader'.left \subseteq DOMAIN reader.got /\ (reader'.at = "verified" => reader'.left = {})
    BY <1>3, <1>5, <2>1
  <2> QED
    BY <1>1, <1>3, <1>4, <2>1, <2>3, <2>4, AgainBundle
<1>6. CASE reader.left = {} /\ Bundle!Go("verified")
  <2>1. reader' = [at |-> "verified", authorized |-> reader.authorized, next |-> reader.next,
                   parsed |-> reader.parsed, got |-> reader.got, left |-> reader.left,
                   whole |-> reader.whole]
    BY <1>4, <1>6 DEF Bundle!Go
  <2> QED
    BY <1>5, <1>6, <2>1
<1>7. ASSUME NEW f \in reader.left, disk[f] = reader.got[f],
             reader' = [reader EXCEPT !.left = @ \ {f}]
      PROVE  Bundled'
  <2>1. reader' = [at |-> "recheck", authorized |-> reader.authorized, next |-> reader.next,
                   parsed |-> reader.parsed, got |-> reader.got, left |-> reader.left \ {f},
                   whole |-> reader.whole]
    BY <1>1, <1>4, <1>7
  <2> QED
    BY <1>5, <1>7, <2>1
<1>8. reader.left # {} => (CHOOSE g \in reader.left : TRUE) \in reader.left
  OBVIOUS
<1> QED
  BY <1>2, <1>6, <1>7, <1>8 DEF Bundle!Recheck

LEMMA InitBundle == PartsInit => BundleInv
<1> SUFFICES ASSUME PartsInit, part = "bundle" PROVE Bundled
  BY DEF BundleInv
<1>1. Bundle!Init
  BY DEF PartsInit
<1>2. PICK r \in Bundle!Runs : disk = Bundle!Written(r)
  BY <1>1 DEF Bundle!Init
<1>3. PICK authorized \in BOOLEAN : reader = Bundle!Start(authorized)
  BY <1>1 DEF Bundle!Init
<1>4. /\ bundleEdits \in Nat /\ flow \in [Bundle!Runs -> {"normal", "invalid"}]
      /\ past = [f \in Bundle!AllFiles |-> {disk[f]}]
  BY <1>1 DEF Bundle!Init
<1>5. /\ disk = [f \in Bundle!AllFiles |-> disk[f]]
      /\ disk["ledger"] = Bundle!Ledger(r, Bundle!Length(r))
      /\ disk["head"] = Bundle!Ledger(r, Bundle!Length(r))
      /\ \A f \in Bundle!Trusted : disk[f] = Bundle!Plain(0, f, 0)
  BY <1>2, WrittenParts
<1>6. LedgerLike(disk["ledger"]) /\ LedgerLike(disk["head"])
  <2>1. Bundle!Length(r) \in 1..5
    BY LengthBound
  <2>2. LedgerLike(Bundle!Ledger(r, Bundle!Length(r)))
    BY <2>1, LedgerIsLike
  <2> QED
    BY <1>5, <2>2
<1>7. OnDisk
  BY <1>4, <1>5, <1>6 DEF OnDisk
<1>8. /\ reader.at = "first" /\ reader.authorized = authorized /\ reader.next = 1
      /\ reader.got = [f \in {} |-> {}]
      /\ reader = [at |-> reader.at, authorized |-> reader.authorized, next |-> reader.next,
                   parsed |-> reader.parsed, got |-> reader.got, left |-> reader.left,
                   whole |-> reader.whole]
  BY <1>3 DEF Bundle!Start
<1>9. HasRead
  <2>1. DOMAIN reader.got = {} /\ reader.got = [f \in DOMAIN reader.got |-> reader.got[f]]
    BY <1>8
  <2>2. /\ reader.next \in 1..Len(Bundle!First)
        /\ DOMAIN reader.got = {Bundle!First[i] : i \in 1..(reader.next - 1)}
    <3>1. Len(Bundle!First) \in {3, 4}
      BY DEF Bundle!First
    <3> QED
      BY <1>8, <2>1, <3>1
  <2> QED
    BY <1>8, <2>1, <2>2 DEF HasRead, Reading, Compared
<1>10. IsOfRun /\ IsRechecked
  BY <1>8 DEF IsOfRun, IsRechecked, Compared
<1> QED
  BY <1>7, <1>9, <1>10 DEF Bundled

LEMMA NextBundle == BundleInv /\ [PartsNext]_allVars => BundleInv'
<1> SUFFICES ASSUME BundleInv, [PartsNext]_allVars, part' = "bundle" PROVE Bundled'
  BY DEF BundleInv
<1>1. CASE UNCHANGED <<part, bundleVars>>
  <2>1. /\ Bundled /\ UNCHANGED <<flow, disk, past, bundleEdits, reader>>
    BY <1>1 DEF BundleInv, bundleVars
  <2>2. /\ disk = [f \in Bundle!AllFiles |-> disk[f]] /\ past = [f \in Bundle!AllFiles |-> past[f]]
        /\ bundleEdits \in Nat /\ \A f \in Bundle!AllFiles : disk[f] \in past[f]
        /\ LedgerLike(disk["ledger"]) /\ LedgerLike(disk["head"])
        /\ \A f \in Bundle!Trusted : disk[f].edit = 0 => disk[f] = Bundle!Plain(0, f, 0)
    BY <2>1 DEF Bundled, OnDisk
  <2> QED
    BY <2>1, <2>2, WorldBundle
<1>2. CASE BundleStep
  <2>1. Bundled /\ Bundle!Next
    BY <1>2 DEF BundleInv, BundleStep
  <2>2. CASE \/ \E f \in Bundle!AllFiles : Bundle!Edit(f)
             \/ \E r \in Bundle!Runs : \/ \E f \in Bundle!AllFiles : Bundle!TakeFrom(r, f)
                                       \/ \E n \in 1..(Bundle!Length(r) - 1) : Bundle!CutBack(r, n)
                                       \/ Bundle!Rebuild(r)
    BY <2>1, <2>2, OthersBundle
  <2>3. CASE \/ Bundle!ReadFirst \/ Bundle!VerifyLedger \/ Bundle!ReadManifest
             \/ Bundle!HashArtifact \/ Bundle!CheckAdjudicated \/ Bundle!Recheck
    BY <2>1, <2>3, FirstBundle, LedgerBundle, ManifestBundle, HashBundle, AdjudicatedBundle,
       RecheckBundle
  <2>4. CASE \/ Bundle!ReadBundle \/ Bundle!ReadReport \/ Bundle!ReadResult
             \/ Bundle!ReadLearning \/ Bundle!ReadAuthority \/ Bundle!ReadInputs
             \/ Bundle!ReadData
    BY <2>1, <2>4, MiddleBundle
  <2> QED
    BY <2>1, <2>2, <2>3, <2>4 DEF Bundle!Next
<1>3. part' = part
  BY DEF PartsNext, LedgerStep, IngestionStep, ReadinessStep, BundleStep, CorrectionStep, Ended,
         allVars
<1> QED
  BY <1>1, <1>2, <1>3 DEF PartsNext, LedgerStep, IngestionStep, ReadinessStep, BundleStep,
     CorrectionStep, Ended, allVars

(* A bundle that verifies is all of one run and nothing but that run's, and  *)
(* stood on disk at one moment, however the tree is edited, rebuilt, cut     *)
(* back or mixed beside the reading (_verify_iter000_proof_bundle).          *)
THEOREM BundlesAreOneRun == PartsSpec => []VerifiedIsOneRun
<1>1. BundleInv => VerifiedIsOneRun
  <2> SUFFICES ASSUME Bundled, reader.at = "verified" PROVE Bundle!VerifiedIsOneRun
    BY DEF BundleInv, VerifiedIsOneRun, Bundle!VerifiedIsOneRun
  <2>1. /\ reader.left = {} /\ reader.whole /\ Exact
        /\ Bundle!Verdict(reader.parsed) = Bundle!Verdict(Bundle!Signed["report"])
    BY DEF Bundled, IsRechecked
  <2>2. /\ Named \cup {"manifest"} \subseteq DOMAIN reader.got
        /\ DOMAIN reader.got \subseteq Named \cup {"manifest"} \cup Bundle!Artifacts(Bundle!Run)
        /\ reader.authorized = (Bundle!Run = Bundle!Amended)
        /\ reader.got["manifest"] = Bundle!Signed["manifest"]
        /\ \A f \in Bundle!Artifacts(Bundle!Run) \cap DOMAIN reader.got :
             reader.got[f] = Bundle!Signed[f]
        /\ Bundle!Artifacts(Bundle!Run) \subseteq DOMAIN reader.got
    BY DEF Bundled, IsOfRun, Compared
  <2>3. \A f \in Bundle!Trusted \cap DOMAIN reader.got : reader.got[f] = Bundle!Plain(0, f, 0)
    BY DEF Bundled, HasRead
  <2>4. Bundle!Run \in Bundle!Runs
    BY <2>2, RunIsOne DEF Named
  <2>5. DOMAIN reader.got \cup {"authority"} = Bundle!Files(Bundle!Run)
    BY <2>2, <2>4, FileNames DEF Named
  <2>6. \A f \in DOMAIN reader.got : reader.got[f] = Bundle!Signed[f]
    <3> SUFFICES ASSUME NEW f \in DOMAIN reader.got PROVE reader.got[f] = Bundle!Signed[f]
      OBVIOUS
    <3>0. PICK r \in Bundle!Runs : r = Bundle!Run
      BY <2>4
    <3>5. Bundle!Signed = Bundle!Written(r)
      BY <3>0 DEF Bundle!Signed
    <3>1. CASE f \in {"ledger", "head"}
      <4>1. reader.got[f] = Bundle!Ledger(r, Bundle!Length(r))
        BY <2>1, <3>0, <3>1 DEF Exact
      <4>2. Bundle!Written(r)[f] = Bundle!Ledger(r, Bundle!Length(r))
        BY <3>1, WrittenParts
      <4> QED
        BY <3>5, <4>1, <4>2
    <3>2. CASE f \in Bundle!Trusted
      <4>1. reader.got[f] = Bundle!Plain(0, f, 0)
        BY <2>3, <3>2
      <4>2. Bundle!Written(r)[f] = Bundle!Plain(0, f, 0)
        BY <3>2, WrittenParts
      <4> QED
        BY <3>5, <4>1, <4>2
    <3>3. CASE f = "manifest"
      BY <2>2, <3>3
    <3>4. CASE f \in Bundle!Artifacts(Bundle!Run)
      BY <2>2, <3>4
    <3> QED
      BY <2>2, <3>1, <3>2, <3>3, <3>4 DEF Named, Bundle!Trusted
  <2> QED
    BY <2>1, <2>2, <2>5, <2>6 DEF Bundle!VerifiedIsOneRun, Bundle!Signed
<1> QED
  BY <1>1, InitBundle, NextBundle, PTL DEF PartsSpec
==============================================================================
