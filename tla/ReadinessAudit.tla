----------------------------- MODULE ReadinessAudit -----------------------------
(***************************************************************************)
(* From the ingested dataset to a verified verdict (experiment.py and      *)
(* readiness.py).  A run copies what the ingestion wrote into its proof    *)
(* root, signs the hashes of the copies, judges readiness from the         *)
(* originals, bundles the proof, and has it verified, which judges again   *)
(* from the copies alone.  Meanwhile somebody may change any of the files, *)
(* and put back what was there before.                                     *)
(*                                                                         *)
(* How the ingestion writes is the subject of DatasetIngestion, how the    *)
(* verifier reads that of ProofBundle: here the one has just ended, and    *)
(* the other is one step.  The floor of thirty incidents is three.         *)
(***************************************************************************)
EXTENDS Integers, Sequences, FiniteSets, Functions

CONSTANTS
    MaxChanges    \* bound on the changes of files

VARIABLES
    corpus,      \* leaking markers, and the hashes of the derived artifacts
    source,      \* the files of the run: raw, derived and the dataset lock
    proof,       \* the copies in the proof root
    changes,     \* changes so far
    run          \* the state of the run

vars == <<corpus, source, proof, changes, run>>

Floor == 3

(***************************************************************************)
(* Contents.  A truth manifest is named by what it would make of the       *)
(* corpus; the ingestion's is "poor".  Evidence commits to the truth.      *)
(***************************************************************************)

Poor == [reviews |-> {}, hardware |-> 1, fault |-> 1]
Rich(i) == [reviews |-> {"cause", "ambiguity", "safe_test"}, hardware |-> i, fault |-> i]

Records(truth) ==
    CASE truth = "poor" -> [i \in 1..Floor |-> Poor]
      [] truth = "rich" -> [i \in 1..Floor |-> Rich(i)]
      [] truth = "alike" -> [i \in 1..Floor |-> [Rich(i) EXCEPT !.fault = i % 2]]
      [] truth = "fewer" -> [i \in 1..(Floor - 1) |-> Rich(i)]

Incidents(truth) == DOMAIN Records(truth)

Evidence == [commits |-> "poor", marked |-> corpus.leak = "manifest", items |-> corpus.items]
Coverage == [files |-> Floor, leaks |-> corpus.leak # "none"]
Receipt == [lock |-> 0, evidence |-> Evidence, truth |-> "poor", coverage |-> Coverage,
            items |-> corpus.items, separated |-> corpus.leak = "none"]

Ingested ==
    [raw |-> 0, lock |-> 0, artifacts |-> corpus.items, evidence |-> Evidence,
     truth |-> "poor", coverage |-> Coverage, receipt |-> Receipt]

Others ==
    [raw |-> {1}, lock |-> {1},
     artifacts |-> {<<8, 9>>},
     evidence |-> {[Evidence EXCEPT !.commits = t] : t \in {"rich", "fewer"}}
                    \cup {[Evidence EXCEPT !.marked = ~@], [Evidence EXCEPT !.items = <<8, 9>>]},
     truth |-> {"rich", "alike", "fewer"},
     coverage |-> {[Coverage EXCEPT !.leaks = ~@], [Coverage EXCEPT !.files = @ - 1]},
     receipt |-> {[Receipt EXCEPT !.separated = ~@], [Receipt EXCEPT !.truth = "rich"],
                  [Receipt EXCEPT !.coverage.leaks = ~@]}]

Contents(f) == {Ingested[f]} \cup Others[f]
Copied == <<"receipt", "coverage", "evidence", "truth">>
Kept == Range(Copied) \cup {"lock"}

(***************************************************************************)
(* Changes by others.                                                      *)
(***************************************************************************)

Change ==
    /\ changes < MaxChanges /\ run.outcome = "open"
    /\ changes' = changes + 1
    /\ UNCHANGED <<corpus, run>>

Edit(f) ==
    /\ \E c \in Contents(f) \ {source[f]} : source' = [source EXCEPT ![f] = c]
    /\ UNCHANGED proof
    /\ Change

(* Both manifests are replaced by ones that fit each other, or put back.   *)
Swap ==
    /\ \E t \in {"poor", "rich"} :
         source' = [source EXCEPT !["evidence"] = [Evidence EXCEPT !.commits = t],
                                  !["truth"] = t]
    /\ source' # source
    /\ UNCHANGED proof
    /\ Change

EditProof(f) ==
    /\ f \in DOMAIN proof
    /\ \E c \in Contents(f) \ {proof[f]} : proof' = [proof EXCEPT ![f] = c]
    /\ UNCHANGED source
    /\ Change

(***************************************************************************)
(* The gates, of evidence and truth as they were read.                     *)
(***************************************************************************)

Covered(truth, kind) ==
    Cardinality({i \in Incidents(truth) : kind \in Records(truth)[i].reviews})

(* As many components as there are incidents: no two share a dimension.    *)
Transfers(truth) ==
    LET records == Records(truth)
        Values(d) == {records[i][d] : i \in DOMAIN records}
    IN  /\ Cardinality(Values("hardware")) >= 2 /\ Cardinality(Values("fault")) >= 2
        /\ Cardinality(DOMAIN records) >= 3
        /\ \A i, j \in DOMAIN records : i # j =>
              records[i].hardware # records[j].hardware /\ records[i].fault # records[j].fault

Gates(evidence, truth) ==
    [count |-> Covered(truth, "cause") >= Floor,
     ambiguity |-> Covered(truth, "ambiguity") >= Floor,
     action |-> Covered(truth, "safe_test") >= Floor,
     transfer |-> Transfers(truth),
     usefulness |-> Cardinality(Incidents(evidence.commits)) >= Floor]

Verdict(integrity, gates) ==
    IF FALSE \in integrity THEN "INVALID"
    ELSE IF FALSE \in Range(gates) THEN "BLOCKED_EVIDENCE" ELSE "PASS"

(* The report shows the failures themselves, and the gates.                *)
Report(sourceFailures, failures, leaks, separated, evidence, truth) ==
    [source |-> sourceFailures, parser |-> failures, leaks |-> leaks,
     separated |-> separated, gates |-> Gates(evidence, truth),
     verdict |-> Verdict({sourceFailures = {}, failures = {}, separated},
                         Gates(evidence, truth))]

Failure(condition, name) == IF condition THEN {<<name>>} ELSE {}

(* Join and commitments, checked alike by both audits.                     *)
JoinFailures(evidence, truth) ==
    LET bundled == Records(evidence.commits)
        records == Records(truth)
    IN  Failure(DOMAIN bundled # DOMAIN records, "evidence-truth-join")
          \cup {<<"truth-commitment", i>> :
                  i \in {j \in DOMAIN records : \/ j \notin DOMAIN bundled
                                                \/ bundled[j] # records[j]}}

(***************************************************************************)
(* The run.                                                                *)
(***************************************************************************)

At(step) == run.at = step /\ UNCHANGED <<corpus, changes>>

Copy ==
    /\ At("copy")
    /\ LET f == Copied[run.next]
       IN  proof' = [g \in DOMAIN proof \cup {f} |-> IF g = f THEN source[f] ELSE proof[g]]
    /\ run' = IF run.next = Len(Copied) THEN [run EXCEPT !.at = "sign"]
                                        ELSE [run EXCEPT !.next = @ + 1]
    /\ UNCHANGED source

(* The event has the hashes of the copies, and those of the receipt that   *)
(* the ingestion returned.                                                 *)
Sign ==
    /\ At("sign")
    /\ run' = [run EXCEPT !.at = "evidence", !.signed =
                 [receipt |-> proof["receipt"], coverage |-> proof["coverage"],
                  copy |-> proof["evidence"], evidence |-> Receipt.evidence,
                  truth |-> Receipt.truth, separated |-> Receipt.separated]]
    /\ UNCHANGED <<source, proof>>

Read(step, f, next) ==
    /\ At(step)
    /\ run' = [run EXCEPT !.at = next, ![step] = source[f]]
    /\ UNCHANGED <<source, proof>>

Note(step, failures, next) ==
    /\ At(step)
    /\ run' = [run EXCEPT !.at = next, !.failures = @ \cup failures]
    /\ UNCHANGED <<source, proof>>

LoadEvidence == Read("evidence", "evidence", "truth")
LoadTruth == Read("truth", "truth", "raw")
SourceIntegrity == Read("raw", "raw", "objects")

CompareObjects ==
    Note("objects", Failure(source["receipt"] # Receipt, "receipt-object")
                      \cup Failure(source["coverage"] # Coverage, "coverage-object"), "hashes")

HashManifests ==
    Note("hashes", {<<"producer-artifact-hash", f>> :
                      f \in {g \in {"evidence", "truth", "coverage"} : source[g] # Receipt[g]}}
                    \cup JoinFailures(run.evidence, run.truth), "artifacts")

ArtifactIntegrity ==
    Note("artifacts", Failure(source["artifacts"] # run.evidence.items, "artifact-bytes")
                        \cup Failure(Range(source["artifacts"]) # Range(Receipt.items),
                                     "derived-artifact-set"), "text")

ReadText == Note("text", Failure(source["evidence"].marked, "truth-marker"), "judge")

(* audit_adapt_readiness, and the copy of the dataset lock.                *)
Judge ==
    /\ At("judge")
    /\ LET failures == run.failures
           leaks == Coverage.leaks
       IN  run' = [run EXCEPT !.at = "bundle", !.report =
                     Report(Failure(run.raw # 0, "raw-bytes"), failures, leaks,
                            Receipt.separated /\ failures = {} /\ ~leaks,
                            run.evidence, run.truth)]
    /\ proof' = [f \in Kept |-> IF f = "lock" THEN source["lock"] ELSE proof[f]]
    /\ UNCHANGED source

Bundle ==
    /\ At("bundle")
    /\ run' = [run EXCEPT !.at = "verify", !.bundled = proof]
    /\ UNCHANGED <<source, proof>>

(***************************************************************************)
(* The verification: audit_adapt_proof_readiness, on the copies.           *)
(***************************************************************************)

ProofFailures ==
    LET evidence == proof["evidence"]
        coverage == proof["coverage"]
        receipt == proof["receipt"]
    IN  Failure(evidence # receipt.evidence, "evidence-manifest-hash")
          \cup Failure(proof["truth"] # receipt.truth, "truth-manifest-hash")
          \cup Failure(coverage # receipt.coverage, "coverage-report-hash")
          \cup Failure(coverage.files # Floor, "coverage-exactness")
          \cup Failure(1..coverage.files # Incidents(evidence.commits), "coverage-evidence-join")
          \cup Failure(receipt.items # evidence.items, "derived-artifact-set")
          \cup Failure(evidence.marked, "truth-marker")
          \cup JoinFailures(evidence, proof["truth"])

ProofReport ==
    LET failures == ProofFailures
        leaks == proof["coverage"].leaks
    IN  Report(Failure(proof["receipt"].lock # proof["lock"], "dataset-lock-content"),
               failures, leaks,
               proof["receipt"].separated /\ failures = {} /\ ~leaks,
               proof["evidence"], proof["truth"])

(* Mutant for VerdictIsIngested: the copies are intact, so the verdict is. *)
SameVerdict == TRUE

SameReport == run.report = ProofReport

Committed ==
    /\ run.bundled = proof
    /\ proof["receipt"].coverage = proof["coverage"]
    /\ proof["receipt"].evidence = proof["evidence"]
    /\ proof["receipt"].truth = proof["truth"]
    /\ run.signed = [receipt |-> proof["receipt"], coverage |-> proof["coverage"],
                     copy |-> proof["evidence"], evidence |-> proof["receipt"].evidence,
                     truth |-> proof["truth"], separated |-> proof["receipt"].separated]

Verify ==
    /\ At("verify")
    /\ run' = [run EXCEPT !.at = "end", !.outcome =
                 IF Committed /\ SameReport THEN "verified" ELSE "refused"]
    /\ UNCHANGED <<source, proof>>

Init ==
    /\ corpus \in [leak : {"none", "telemetry", "manifest"}, items : {<<1, 2>>}]
                   \cup [leak : {"none"}, items : {<<1, 1>>}]
    /\ source = Ingested
    /\ proof = [f \in {} |-> 0]
    /\ changes = 0
    /\ run = [at |-> "copy", next |-> 1, signed |-> {}, evidence |-> {}, truth |-> "",
              raw |-> 0, failures |-> {}, report |-> {}, bundled |-> {}, outcome |-> "open"]

Next ==
    \/ \E f \in DOMAIN Ingested : Edit(f) \/ EditProof(f)
    \/ Swap
    \/ Copy \/ Sign
    \/ LoadEvidence \/ LoadTruth \/ SourceIntegrity \/ CompareObjects
    \/ HashManifests \/ ArtifactIntegrity \/ ReadText \/ Judge
    \/ Bundle \/ Verify

Spec == Init /\ [][Next]_vars

(***************************************************************************)
(* A verdict that is verified is that of what was ingested, whatever was   *)
(* changed or put back while the audit read; and the two audits agree when *)
(* nothing was: a run among untouched files is never refused.              *)
(***************************************************************************)
VerdictIsIngested ==
    /\ run.outcome = "verified" =>
          /\ run.report.verdict = IF corpus.leak = "none" THEN "BLOCKED_EVIDENCE" ELSE "INVALID"
          /\ proof["evidence"] = Evidence /\ proof["truth"] = "poor"
    /\ run.outcome = "refused" => changes > 0
=============================================================================
