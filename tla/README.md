# A TLA+ model of inbar

This directory is a verification project for `inbar` (the `fieldtrue` package under
`src/src/fieldtrue/`): TLA+ modules that model parts of the program, TLC configurations
that model-check them on small instances, and theorems about them with proofs checked
by TLAPS. All source paths below are relative to `src/src/fieldtrue/` unless they say
otherwise. `PROJECT.json` maps every definition to the lines it models.

Inbar is a research engine that runs pre-registered experiments and refuses to let
their evidence be rewritten. Nearly all its state is in files and in one Git
repository; nearly all its hard behaviour comes from processes that share those files,
fail half way, and are started again, or from files that are read one by one while
somebody else changes them.

    tlc -workers 2 -config ProofEvidence.cfg MCProofEvidence.tla   # check a run
    tlapm SignedLedgerProofs.tla                                   # check the proofs

## The system

| Component | State it keeps | Operations | What is hard |
|---|---|---|---|
| Signed execution ledger, `receipts.py` | a JSON-lines file, a head file, the signing key, signer anchors | `SignedLedger.append`, `verify_ledger`, `load_or_create_signing_key`, `write_signer_anchor` | appenders in several processes under an advisory lock; readers without it; a crash between line and newline, between line and head |
| Iteration 000 run, `experiment.py` | a run lock, the authority consumption receipt, one proof root per attempt | `run_iter000`, `run_iter000_amendment_001`, `_finalize_iter000` | single use across races and crashes; the failure handler on a half-written proof; order of bundle, manifest, last event |
| Proof verification and correction, `verification.py` | correction receipt, corrected proof | `verify_iter000_proof_bundle`, the one-shot correction | dozens of files read one after another; an exclusive create with no lock |
| Readiness, `readiness.py` | none | `audit_adapt_readiness`, `audit_adapt_proof_readiness` | two audits written twice, of originals and of copies, which must agree |
| ADAPT adapter, `adapters/adapt.py` | dataset cache, extracted and derived data | download with a digest check, safe extraction, ingestion | the fixed name extraction uses, remove-then-rename, a crash between the two |
| Handoff cycle, `memory_cycle.py` | the Git repository: HEAD, index, working tree | `produce_handoff_cycle` | dozens of steps, each reading shared state again, with no lock at all |
| Research memory, `memory.py` | a hash-chained JSON-lines file | `append_memory`, `load_memory_records`, verification | append under a lock the cycle does not take; torn last lines |
| Handoff document, `handoff.py` | HANDOFF.md | `render`, `write_handoff`, `check_handoff` | rendered from a snapshot of many files, published to the live tree |
| Validation receipts, `validation_producer.py` | `evidence/validation/<receipt>` | `produce_validation_receipt` | tree checked before and after a plan that runs for minutes |
| Census execution, `census_execution.py` | lease, session directory, blobs, manifest | `verify_census_lease`, `CensusSession.retrieve` | ceilings checked around a network call; single-use sessions; blobs trusted by name |
| Census, `census.py` | none | screenings, `verify_census_report` | which locators are checked, and where |
| Control launcher, producer, authority, `control_*.py` | staging directory, control bundle, admission receipt | `generate_admission_control_bundle`, `_produce_fixture_bundle`, `_run_control` | a child process with a timeout, publication by one rename, take-back; exit status 0 that shows nothing |
| Runner trust, `runner_trust.py` | a shared cache, private runner roots | `prepare_authenticated_runner`, `resolve_locked_packages`, `tree_digest` | a cache others write to; a worklist with a limit; a tree its own child writes to |
| Acquisition audit, `acquisition.py` | dossiers, certificates | `_verify_dossier`, `audit_acquisition`, `verify_preregistration_binding` | some thirty comparisons of signed times; failures noted and gone on from; Git and files read in turn |
| Terminal authority, `terminal_authority.py` | terminal record | `snapshot_acquisition_input` and its replay | a tree read while it changes |
| Mission validator, `mission.py` | none | gate controls run again, and many file checks | the controls share their tree with the verifier |
| Splits, `splits.py`; Shortcut V2, `shortcut_v2_*.py` | none, or one sealed directory | `freeze_group_split`, `validate_split_lock`, cross-fit folds | transitive leakage, greedy balance, folds brought by the caller |
| Approvals, planning, diagnosis, selection, laboratories | none | pure algorithms over one request | boundaries, ties |
| Atomic files and canonical JSON, `canonical.py` | none | `atomic_write`, `canonical_json_bytes` | crash between temporary file and rename |
| Runtime identity, git trust, schemas, command line, CI guards | none | observation and checking | I/O |

How they interact. The run appends to its ledger (`experiment.py` calls
`SignedLedger.append` at eight points), calls the adapter and readiness between appends, and
ends by calling the proof verifier, which calls readiness again. The handoff cycle calls the
validation producer, appends to the research memory in its own way, and starts `inbar memory
verify`, `inbar handoff render` and `inbar handoff check` as child processes; all four meet
only in the repository's files. The correction re-verifies a finished run's proof root. The
control launcher starts the producer as a bounded child and reads what it published; the
producer prepares a runner and runs each control in it, and a contract that adopts the
receipt is what `audit_acquisition` and the preregistration's binding start from. The mission
validator runs the historical gate's controls in a runner of the same kind. A dossier's
incident is chosen by a census and ends in a split.

What makes each correct:

- *Ledger*: append-only, one unbroken chain, never an event vouched for that the head
  does not cover.
- *Run*: at most one execution per authority, whatever races or restarts; an event never
  claims more than what was in place before it; the lock is always given back.
- *Ingestion, readiness, proof*: what is ingested is whole and one process's; the verdict
  that verifies is that of what was ingested; the bundle that verifies is one run's.
- *Correction*: one-shot, like the run's authority, and signed with the committed key.
- *Handoff cycle, memory and document*: success means the promised topology is in the
  history; the history never loses a record; a document returned is of one moment.
- *Census*: no lease is served twice, nothing is kept beyond the ceiling, records name whole
  blobs, and a nomination rests on the candidate's own bytes.
- *Control production*: the output is complete or absent; a launcher vouches only for its own
  child's bundle; a control that is accepted showed what it had to.
- *Runner*: only pinned bytes, exactly the distributions needed, unchanged while in use.
- *Acquisition*: a counted incident was blind and approved when it ran; a positive verdict
  has enough independent events behind it; what it binds was committed and in place.
- *Splits and folds*: no chain of shared values crosses a split; no prediction uses its own
  incidents' truth.

## Modules

| Module | Models | Kind |
|---|---|---|
| `LedgerRules` | the lifecycle table of `_verify_events` | operators |
| `AttemptLedger` | what an execution ledger promises | abstract specification |
| `SignedLedger` | `SignedLedger.append` and `verify_ledger`, many processes | detailed, implements `AttemptLedger` |
| `OneShotAuthority` | what a single-use authority promises | abstract specification |
| `Iter000Run` | both attempts at iteration 000, many runners | detailed, implements `OneShotAuthority` and, per attempt, `AttemptLedger` |
| `DatasetIngestion` | fetch, extraction, parsing and derivation, many processes | detailed |
| `ReadinessAudit` | from the ingested files to a verified verdict, while files change | detailed |
| `ProofBundle` | `verify_iter000_proof_bundle` while files change | detailed |
| `ProofCorrection` | signing key, anchor and the one-shot correction | detailed, implements `OneShotAuthority` |
| `HandoffCycle` | `produce_handoff_cycle` with the receipt producer, renderer and checker, beside `append_memory` and a person | composition over one repository |
| `HandoffSnapshot` | `write_handoff` and `check_handoff`, file by file | detailed |
| `PreregistrationBinding` | `verify_preregistration_binding`, reading by reading | detailed |
| `CensusSession` | leased retrieval sessions, many processes | detailed |
| `CensusScreening` | screenings, the report and its verification | detailed |
| `SplitLock` | union-find, greedy split, lock validation | algorithm, step by step |
| `CrossFit` | folds, fitting, prediction, completeness | algorithm, step by step |
| `ControlProduction` | launcher, child producer, publication and verifier | composition |
| `ControlRun` | one control under pytest and its judgement | detailed |
| `IncidentDossier` | the acts behind a dossier and `_verify_dossier` | detailed |
| `AcquisitionAudit` | `audit_acquisition`: failures, gates, verdict, report | detailed |
| `TreeCensus` | two ways of reading a tree that changes | detailed |
| `GateControl` | the historical gate's controls in their tree | composition |
| `RunnerPreparation` | `prepare_authenticated_runner`, many processes | detailed |
| `LockedClosure` | `resolve_locked_packages` and `resolve_locked_wheels` | algorithm, step by step |
| `RepositoryParts` | `HandoffCycle`, `HandoffSnapshot` and `PreregistrationBinding`, side by side | composition |
| `EvidenceParts` | `SignedLedger`, `DatasetIngestion`, `ReadinessAudit`, `ProofBundle` and `ProofCorrection`, side by side | composition |
| `AcquisitionParts` | `IncidentDossier` and the six modules after it, side by side | composition |
| `CensusParts` | `CensusSession` and the three modules after it, side by side | composition |
| `SignedLedgerProofs`, `Iter000RunProofs`, `ControlProductionProofs`, `IncidentDossierProofs` | theorems about the module of that name | proofs |
| `EvidenceProofs` | theorems about the parts of `EvidenceParts` beside the ledger | proofs |
| `AcquisitionProofs` | theorems about the six other parts of `AcquisitionParts` | proofs |
| `RepositoryProofs` | theorems about the three parts of `RepositoryParts` | proofs |
| `CensusProofs` | theorems about the four parts of `CensusParts` | proofs |
| `MC...` | constants of the small instances | model checking |

Where a module models a reader and a writer that share files, one reading is one action,
because anything may happen between two readings; computation on what was read is part of
the action that ends it. Contents stand for their own hashes (collision resistance), signatures
are ideal, and a *stamp* stands for what a `stat` call returns.

### SignedLedger

`events`, `tail` and `head` are the two files: the events the ledger file parses to, how
the file ends, and the head. `lock` is the `flock` on the ledger file. Each writer has a
program counter with the points of `append` where something else can happen: `locked`,
`parsed`, `built`, `written`. `Lock`, `Parse`, `Build`, `WriteLine`, `WriteHead` are the
successful path; `RefuseLedger` and `RefuseEvent` the two places it raises
`LedgerVerificationError`; `Interrupt` a crash or exception between effects, and
`CutShort` one within the write. `ReadLedger` and `ReadHead` are the two unlocked reads of
`verify_ledger`.

Hashes are distinct numbers, so two different events never share one. `origin` stands for
what one ledger may not mix (signing key, run ID, runtime). Timestamps are small numbers read
nondeterministically: a clock may go backwards, and the event is then refused.

`Remains` says what an interrupted write may leave. The event and its newline are two
`write` calls on a buffered text file; an event longer than the buffer can therefore reach
the file without its newline. With `{"fragment"}` this does not happen; with
`{"fragment", "unterminated"}` it does. Which one holds is an assumption about the
platform and the size of events, so it is a constant, and both cases are checked.

### Iter000Run

One action per step of a run: `Begin` (lock), `PassPreflight`, `Consume` and `Seal` (the
exclusive create of the receipt, then its content), `Start`, `Fetch`, `Ingest`, `Audit`,
`Report`, `Bundle`, `Checkpoint`, `Return`. Every append is `AppendLine` then `AppendHead`.
`Raise` and `RaiseWriting` bring a run to its `except` handler (`RecordFailure`,
`MaskFailure`, `Reraise`), `Stop` and `StopWriting` end it where it is. The handler is
modelled on whatever it finds: a torn ledger, or a ledger that already says
`run-completed` when the final verification raised; it then cannot append, and the
refusal masks the original failure.

A proof root is a record of its ledger, report, bundle, manifest and checkpoint; the
verdict stands for their content. A torn line is simply `torn` here: the unterminated case
is `SignedLedger`'s subject. An operator may delete a proof root no run is writing
(`Delete`); this is not in the code and is there because the receipt exists to survive it.

### DatasetIngestion, ReadinessAudit, ProofBundle, ProofCorrection

*DatasetIngestion.* Directories are objects that the two names (`temp`, `dest`) point to, so
that a file that was opened goes on being written wherever its directory is moved. `Clear`,
`Make`, `OpenMember`, `WritePart`, `RemoveOld`, `Move` are `_safe_extract_zip`; `List`, `Parse`,
`Parsed`, `Derive`, `Manifests`, `Receipt` are `ingest_adapt_dataset`. `Begin` takes the run
lock, `FetchAlone` is the command line's fetch, which does not, and `Kill` comes anywhere.

*ReadinessAudit.* `Copy` and `Sign` are the four copies and the `dataset-ingested` event;
`LoadEvidence` to `ReadText` are the readings of the audit, `Judge` its gates; `Bundle` and
`Verify` the proof and its second audit. Others may `Edit` an original, `EditProof` a copy, or
`Swap` both manifests for a pair that fits. A truth manifest is named by what it would make
of the corpus (all gates, all but transfer, fewer incidents); the floor of thirty is three.

*ProofBundle.* The verifier's readings in order (`ReadFirst`, `VerifyLedger`, `ReadManifest`,
`HashArtifact`, ..., `Recheck`), each compared with what had been read. Others `Edit` files, take
them `from` another run signed with the same key, cut the ledger back, or `Rebuild` what the
program derives; a derived file carries what it was derived from.

*ProofCorrection.* `CreateKey` and `FillKey` are the exclusive create and the write,
`WriteAnchor` the anchor, `Select` the owner's commit; `Consume`, `Record`, `Verify`, `Recheck`,
`Publish` the correction. `Crash` and `Retry` come anywhere, `LoseKey` is a deleted key file.

### HandoffCycle, HandoffSnapshot, PreregistrationBinding

*HandoffCycle.* A tree of files is a record (`source`, `records`, `torn`, `evidence`, `doc`);
`commits` is the history, `head`, `index` and `tree` are Git's three states. The cycle's steps are
one action per Git command or file effect, because each reads shared state anew: `git commit`
commits the *index*, `git rev-parse HEAD` is a step after the commit, `_append_event`
chains to what this cycle appended last and not to the file's last line. `Renders` and
`Checks` are what `handoff render` and `handoff check` demand of the memory and of the
commits it binds. `ReadMemory`, `WriteMemory` and `StopNote` are `append_memory`, under a
lock the cycle does not take. The person is an environment taken from how the repository is
worked with: `Edit`, `Save`, `SaveMemory` (commit a memory that verifies, between cycles) and
`Reset` (to where a failed cycle began, never past what has landed). Merges are left out here.

*HandoffSnapshot.* One command, `write` or `check`: head, manifest of stamped files, private
clone, copies, the worker that renders, and the second reading of everything; then the write
or the comparison with the document and the finalized topology. Others edit, commit, merge and
check out. The content of a document is what it was rendered from.

*PreregistrationBinding.* The steps of the verification in the code's order, among them
`ReadContract`, `ReadHead`, `ReadStatus`, `CheckAncestry`, `CheckSources` and `CheckCommitted`, beside
edits, commits and checkouts. The three authorities are the three forms the selection takes.

### CensusSession, CensusScreening, SplitLock, CrossFit

*CensusSession.* `store`, `blobs`, `manifest` and `torn` are on disk; `spent`, `failed` and
`counted` are one process's memory of its session. `MakeRoot` and `MakeBlobs` are the two `mkdir`
calls of which the second decides who is served; `Retrieve`, `Answer`, `Admit` a retrieval around
its network call; `OpenBlob` and `FillBlob` the write in place; `KeepRecord` and `AppendLine` the
record. A write may fail (the process goes on) or be cut by a crash (it does not).

*CensusScreening.* An author who may err in everything writes screenings; the models'
validators (`File`, `Conclude`) refuse what they refuse, and `Verify` is `verify_census_report`.

*SplitLock.* `Unite` is a union over one shared value, `Freeze` computes components, `Assign`
gives one to a split whose deficit is largest, in any order of the hashes; `Receive` is a lock
from elsewhere; `Validate` is `validate_split_lock`. The property uses chains of shared values
directly (no set that is closed under sharing has one without the other), not components.

*CrossFit.* `Derive`, `Fit`, `Predict`, `Validate`, with whatever fold the caller brings.

### ControlProduction, ControlRun, GateControl, RunnerPreparation, LockedClosure

*ControlProduction.* `lpc`, `cpc` and `vpc` are the program counters of launchers, their children
and a verifier; `staging` and `bundle` are directories, named by the launch that filled them. The
child compares repository and runner around each control, publishes by one rename, looks
again (`Settle`) and may take back. A launcher `Timeout`s whatever its child does; it or its child
may die; a developer edits and commits; an operator deletes.

*ControlRun.* The tests pytest collects, the outcome of each phase, one observation, the
lifecycle file, the exit status and left-over processes are free; `Judge` is the code's.

*GateControl.* The verifier parses, reads history, prepares, walks the tree before and after
(`Walk`, `ReadEntries`, `WalkAgain`, `Settle`), and judges; its child runs between and shares the
tree, and may leave a process behind.

*RunnerPreparation.* `Look`, `UseCache`, `Download`, `WriteTemp`, `Replace`, `UsePersisted` for each
artifact, then `RunUv`, `CheckInstall`, `Extract`, `Probe`, `Bind`; others tamper with cache and root.

*LockedClosure.* `Pop` is one turn of the worklist, `ChooseWheel` the best wheel of one name. The
roots and the dependencies of a package are met in any order (`SetToSeqs`), as a lock lists them.

### IncidentDossier, AcquisitionAudit, TreeCensus

*IncidentDossier.* The people are outside the code: honest, but they may act in the wrong
order, repeat an act, or share an independence group (a *slip*). The clock counts acts, so
equal times stand for equal contents. `Admit` is any dossier that can be compiled from the signed
statements and passes `_verify_dossier`; the compiler also fills in the unsigned times. When the
truth's custodian opens the seal, the statement says whether it had been opened before
(`opened`; `truth_custody.unauthorized_access_detected` in the code).

*AcquisitionAudit.* A good corpus with at most two slips goes through the audit's checks in
order; a failed check is noted and the audit goes on; `Report` derives the verdict and applies the
report's own validator. Of each incident a design says its family, domain, machine and fault, and its
identities are its own unless a slip gives it another incident's.

*TreeCensus.* Two readers of one tree, beside a writer that puts, removes and writes files. The second
look of the census takes one directory after the other, the root by its path, and then each file.

### Parts

A module with several components (`EvidenceParts`, `RepositoryParts`, `CensusParts`,
`AcquisitionParts`) puts them side by side: `part` says which one a behaviour is of, and the
variables of the others rest. The components of one run do not act on each other there; each
brings its own environment. A property of the run has its module's name and holds the module's
property for its part. Each has constants of its own, so that its properties can be proved for all their values;
`MCProofEvidence`, `MCRepository`, `MCCensus` and `MCAcquisition` give them the small instance's.

## Runs

| Run | Instance | Distinct states | Shows |
|---|---|---|---|
| `ProofEvidence` | ledger: 3 writers, 2 origins, 1 reader, 2 clock readings, 5 events; ingestion: 2 processes, 4 runs; readiness: 2 changes; bundle: 2 edits; correction: 1 initializer, 2 correctors, 2 edits, 2 keys | 1,093,690 | `LedgerVerifies`, `AttestationIsCommitted`, `EventsSurvive`, `KeepsPromise`, `ReceiptIsWhole`, `VerdictIsIngested`, `VerifiedIsOneRun`, `FinalIsBacked`, `CorrectionIsOneShot` |
| `Iter000Run` | 2 runners, both attempts, 1 deletion | 461,789 | `NoSecondExecution`, `CompletionIsBacked`, `InvalidIsFinal`, `AuthorityIsOneShot`, `LedgersKeepPromise`, `EveryRunEnds` |
| `Repository` | 2 cycles, 5 commits, 5 records, symmetric; snapshot: 2 changes; binding: 4 changes | 1,358,018 | `LandedIsSound`, `HistoryIsAppendOnly`, `DocumentIsCurrent`, `BindingIsWhole` |
| `HandoffBesideWork` | 1 cycle, 1 append, 2 source versions, 4 commits, 5 records | 1,720,960 | `LandedIsSound` |
| `Census` | 2 processes, 2 candidates, 2 bodies, ceiling 4, 3 retrievals, symmetric; screening: 2 sources, 2 gates; split: 4 incidents, 2 dimensions; folds: 4 incidents | 704,762 | `OneLeaseOneSession`, `CeilingIsKept`, `RecordsAreBacked`, `StopRule`, `NominationIsBacked`, `SplitsDoNotLeak`, `NoOwnTruth` |
| `ControlProduction` | 2 launches, 2 controls, 2 commits, 1 deletion | 564,584 | `PublishedIsWhole`, `AcceptedIsOneBundle`, `PublishedIsFinal`, `LauncherVouches`, `EveryLaunchEnds` |
| `Acquisition` | dossier: 2 slips, approvals of 4 steps; audit: 4 incidents, 2 slips; tree: 2 changes; control: 2 tests; gate: 3 writes, 1 edit; runner: 2 processes, 2 preparations, 1 change; closure: 3 names | 2,732,042 | `CountedIsBlind`, `RanAsApproved`, `PassIsEarned`, `AcceptedTreeExisted`, `AcceptedIsDemonstrated`, `VerdictIsExact`, `RunnerIsAuthentic`, `ClosureIsExact` |
| `LedgerUnterminated` | the ledger, `Remains` with `"unterminated"` | (violation) | `EventsSurvive` fails |
| `HandoffNotOwn` | 2 cycles, 1 append, 5 commits, 6 records, symmetric | (violation) | `OwnHandoffIsFinished` fails |
| `ReceiptOfTestedTree` | 1 cycle, 2 source versions | (violation) | `ReceiptBindsTestedTree` fails |
| `AuditReports` | as `Acquisition` | (violation) | `FailureIsInvalid` fails |
| `CensusBorrowing` | as `Census` | (violation) | `NoFieldBorrowing` fails |

What each property says is stated above its definition. Why the bounds are enough.

- *SignedLedger.* Two writers of one origin race, the third has a foreign key and must be
  refused; the longest event path (`run-started` to `run-completed`) needs five events and
  a failing one no more, so `MaxHash = 5` reaches both ends of the lifecycle table. Two clock
  readings are enough for equal, later and earlier times. When the bound is used up, appenders
  still lock, refuse and leave, so there is no deadlock; `ProofEvidence` checks it for the ledger.
- *DatasetIngestion.* Two processes, one of which the lock should keep out, and runs enough
  for two kills before an ingestion that ends; a file has two parts, so that one may be short.
- *ReadinessAudit, ProofBundle, TreeCensus, HandoffSnapshot, PreregistrationBinding.* Two
  changes are what it takes to put something back, or to change two files that must agree;
  the binding has four, since a commit needs edits before it. In `HandoffSnapshot` two changes
  already break the property without its `steady` condition.
- *ProofCorrection.* Two correctors race, and crash at each of their steps; two keys are one to
  be committed and one that is not.
- *Iter000Run.* Two runners are all that can race for one lock. Histories are finite by
  themselves: the lifecycle is acyclic and a proof root is written once per deletion, so
  the only bound is `MaxDeletions = 1`, which lets `attempt_000` legitimately run twice and
  tempts `attempt_001` to.
- *HandoffCycle.* One successful cycle makes two commits and two of the modelled events;
  five commits and five records (the first exist already) let two cycles both succeed,
  one after the other or interleaved. Of the four or more events a cycle appends, the
  instance keeps the two the renderer looks at (`execution`, `handoff`). `HandoffBesideWork`
  keeps one cycle and adds everything a person and `append_memory` can do. `HandoffNotOwn` needs two
  cycles and one append, hence a sixth record.
- *CensusSession.* Bodies of one and two units under a ceiling of four reach it exactly and
  pass it by one; the lease opens and expires within the clock; three retrievals repeat a body.
- *SplitLock, CrossFit, LockedClosure.* Every corpus of four incidents in two dimensions
  (all pairs of partitions), every truth and selector of four incidents in two censuses, every
  graph of three names with marked edges and one oddity: the inputs of these runs are
  exhaustive at their size, which has transitive chains, ties, circles and the limit.
- *ControlProduction.* Two launches overlap, follow each other, and meet a deleted bundle.
- *IncidentDossier.* Two slips are two acts out of order, or one out of order and one repeated
  or by the wrong group; the approval's four steps let it lapse with one postponed act.
- *AcquisitionAudit.* The floors are scaled (`MCFloor`) so that the good corpus just reaches
  each of them, and any slip may bring it below.
- *GateControl, RunnerPreparation.* Three writes are a change, its reversal and the report; two
  preparers share the cache with one change by somebody else.
- Symmetry is used for the two cycles and for the two session processes, in runs that check no
  liveness property.

Where a run says `CHECK_DEADLOCK FALSE` its parts are commands that end.

Fairness is assumed in two places. `Iter000Run!FairSpec` has weak fairness on each runner's
`Work`. A run is straight-line code with no unbounded loop; the downloads it waits for
have a timeout on every read; nothing in it waits for another runner, because the lock is
non-blocking. `ControlProduction!FairSpec` has weak fairness on each launcher's step, and on
nothing of its child: the launcher waits with a deadline and then stops the child, so that it
ends though the child hang. No fairness is assumed of a failure, of a person or of a child.
`SignedLedger` has no liveness property: a blocking `flock` promises no order. The handoff
cycle has none either: any other participant may make it fail.

Each property of a passing run has a *mutant*: an operator beside the original that changes
it the way a plausible bug would (no lock, a head that is one behind, a receipt never
consumed, a check left out), under which the property fails. They are marked `Mutant` in
the modules and belong to no specification.

The type invariants (`TypeOK`) of the ledger, the run, the census session, the control production,
the handoff cycle and the dossier are theorems and are therefore in no configuration.

## What the runs found

1. **A whole event without its newline is lost** (`LedgerUnterminated`). `_parse_events`
   accepts a last line without a newline, so an append interrupted between the event and
   its newline is followed by one that writes on the same line; both events become
   unreadable and the second append reports success. The research memory refuses such a
   file; the ledger does not. This needs an event larger than the write buffer.
2. **A receipt can pass on bytes that are not its commit's** (`ReceiptOfTestedTree`). The
   tree is compared before and after the plan; an edit made and reverted in between is
   seen by the tests and by neither comparison. The comment at the second comparison says
   it closes this window.
3. **A cycle may report success on another cycle's handoff** (`HandoffNotOwn`). `inbar handoff
   check` judges HEAD, the memory and HANDOFF.md as they are, not the cycle that asks. A note
   appended between a cycle's rendering and its `git add` leaves a final commit whose memory does not
   end in the cycle's handoff; a second cycle that starts there and ends before the first one's
   check leaves a handoff of its own, which the check accepts. The first cycle then returns commits
   of which none finishes its handoff. This needs a pause as long as a whole cycle before the check.
   It was found by trying to prove the property; a run with two cycles alone, or with one cycle and
   an append, does not show it. `LandedIsSound` is what does hold: the cycle's events are in a
   finished handoff at or after the commit it returns, and if that one is its own, the commit returned
   finishes it. Without any append the commit returned may still be another cycle's, since
   `git rev-parse HEAD` runs after the commit; a test expects its parent to be the evidence commit
   (`test_memory_cycle.py:414`).
4. **An audit with a failure may end without a verdict** (`AuditReports`). A dossier that
   verifies but is not registered, or is the second of its incident, is noted as a failure and
   still counted as eligible; the report's own validator then refuses the report, and
   `audit_acquisition` raises instead of saying `INVALID`.
5. **A screening's chronology may borrow** (`CensusBorrowing`). Only the locators of the gates
   are held against the screening's own source; those of the chronology are not, although the
   docstring speaks of every locator.

Smaller things the modelling showed, which no run states:

- An INVALID readiness report about something the proof does not hold (raw bytes changed after
  the fetch, a derived artifact changed) is refused by the verification at the end of the run
  (`verification.py:1784`), for the second audit cannot see what the first saw; the learning
  artifact says that invalid results take the same path as others (`experiment.py:446`). A
  run among untouched files is never refused (`VerdictIsIngested`).
- A hypothesis set, a discriminating test, a recovery plan and a truth record carry no signature
  of their own; their times are bound only through the statements about them.
- `audit_acquisition` refuses every contract with the canonical profile (`acquisition.py:3147`).
- A registered candidate without a dossier is not flagged; a census gate may pass with no
  chronology, or with its first five conditions false.
- A census that says `BLOCKED_RIGHTS` may have nominations (`census.py:563-569` forbids it for
  `null` only), so `NominationIsBacked` says what `qualifying` and `null` rest on, not the converse.
- The source manifest a dossier names is bound by the dossier itself, not by the steward's signed
  statement, which names the source.
- A snapshot alone may join an old file with a new one; its replay rules that out.
- `check_handoff` reads the memory again after rendering (`handoff.py:3725`) and holds it against the
  head, but never against the memory the document was rendered from. A memory that was changed
  before the rendering and changed back before line 3725 lets a check accept a committed document
  that another memory gives. `DocumentIsCurrent` therefore speaks of checks beside which the memory
  did not go and come back; that it has to say so was found by trying to prove it.
- `validate_complete_rule_prediction_manifests` checks the membership of the held-out set only.
- A preparer of a runner may refuse although its own download was right, when another replaces
  the cache file between its rename and its reading back (`runner_trust.py:1037`).
- A launcher's timeout stops the child's process group; a control's own session may survive it.
- `verify_target_manifest_reveal` does not verify the attestation of the receipt; an envelope's
  salt is claimed before it is used, so that a failure afterwards leaves it spent.
- The census transport reads one byte more than its limit at most, and `urlopen` follows
  redirects itself (`census_execution.py:307`).

## Proofs

`SignedLedgerProofs` proves, for any sets of writers, readers and origins, any clock and
any bound:

- `TypeCorrect` and `LedgerAlwaysVerifies`, for both kinds of remains. `LedgerVerifies` is
  not inductive: whether a write keeps the chain depends on what the writer parsed before.
  The inductive invariant `LedgerInv` adds `LockHeld` (only the holder is past `idle`) and
  `ViewIsCurrent` (between parsing and writing, what a writer knows is what the file holds,
  and what it is about to write verifies at its end).
- `AttestationsAreCommitted`, `LedgerIsAppendOnly` and `LedgerKeepsPromise`, assuming
  `Remains \subseteq {"fragment"}`. Their invariant `CommitInv` adds that the head never
  counts past the file, that a writer about to replace the head knows all but the last
  event, and that what a reader has in hand is a prefix of the file. The last theorem is a
  refinement: `Init` maps to `AttemptLedger!Init` and each step to `Record`, `Certify` or a
  stutter. The lemmas on sequences (`PrefixVerifies`, `PrefixOfAppend`, `TypesAppend`) carry
  the arithmetic. The assumption is not a convenience: without it the second theorem is
  false, which is finding 1.

`Iter000RunProofs` proves, for any number of runners and deletions:

- `TypeCorrect`.
- `ExecutionsAreSingle`: `[]NoSecondExecution`. The invariant `SingleUse` needs three more
  facts: `Alone` (only the lock's holder is in a run), `Entitled` (what a runner may rely
  on between its preflight and its first append: no root; before the exclusive create an
  absent receipt, after it an unspent one) and `Accounted` (how executions, receipt, roots
  and deletions add up).
- `RunsImplementAuthority`: the run implements `OneShotAuthority`, by the same invariant.
- `CompletionsAreBacked` and `InvalidOutcomesStand`. The files and the ledger are written one at a
  time, so neither property is inductive: `Backed` says of each proof root that it is `Sound`, and
  of each runner what it may rely on in its own root at its place in the program (`Grounded`).
  `OwnStep` uses `Alone`: a step has to answer for one runner and one root only.
- `AttemptLedgersKeepPromise`: each attempt's ledger implements `AttemptLedger`.

`RepositoryProofs` has theorems for each part of `RepositoryParts`:

- `CycleTypeCorrect` and `MemoryIsAppendOnly`, for any cycles, notes, sources and events. That a
  commit's memory extends its parent's says nothing of what will be committed next. `Grows` adds that
  the memory grows from HEAD to the index to the working tree, and `Continues` that nothing goes on
  from a torn line; `TreeChanges`, `IndexChanges`, `CommitAdds` and `ResetReturns` are the four ways
  a step changes the repository. `PartsAreCycles` carries both over to `PartsSpec`.
- `LandedHandoffsAreSound`, for any cycles, appends, torn writes, edits, commits and resets. `Lines`
  says that the commits a cycle has noted follow each other up to HEAD, `Checkpoints` that the memory
  holds the checkpoint of a cycle that has appended it unless a line is torn, and `Landings` that what
  has landed is sound, with a commit that has a parent. If the handoff the check accepts is the
  cycle's own, its evidence is the parent of HEAD, and the final commit noted lies between the two
  (`SuccessLands`). `Ancestor` is a recursive function: that there is one is shown by the least set
  with the older commit and all children of its members (`LineRecursion`), and what later commits do
  to it by a least commit at which two lines differ (`LineStays`).
- `BindingsAreWhole`, for any number of commits, checkouts and edits between any two of the
  verification's readings. `Got` and `Checked` say what has been read and what Git's objects were
  found to say. That the head, the contract and the sources were one state of the repository is
  `Moved`: if they were not when the second reading began, something differs from what was read that
  the rest of the second reading still comes to (`Outstanding`), and `NothingReturns` is why it
  still differs by then.
- `DocumentsAreCurrent`, for any number of edits, commits, merges and checkouts beside a rendering.
  Everything carries the stamp of the change that put it there (`Stamped`), so a file that was
  overtaken cannot look unmoved again (`OvertakenStays`), a recheck that passes shows that the file
  had not moved when the worker had done, and a head with its old stamp is the commit it was.
  `Rendering` follows that through the program, once for `check` and twice for `write`; `Checking`
  adds what a check knows of the commit and its document as long as nothing was put back.

`CensusProofs` has theorems for each part of `CensusParts`:

- `SessionTypeCorrect`, `OneIsEverServed`, `RecordsHaveBlobs`, `CeilingHolds` and the action property
  `StopRuleHolds`, for any processes, candidates, bodies and ceiling. `SessionInv` says who is served
  (the store opens once, and a process that dies leaves it open), that the served process's memory is the session's,
  and what it finds of the blobs while no write has failed. `Charged` is what the ceiling needs: the
  claims of the manifest and the sizes of the stored blobs are covered by what the served process
  has charged, with the retrieval under way (`Due`) until it has been written. A sum is a fold over
  any order; `SumIsHeap` identifies it with the size of a set (as many elements for each index as
  the number there), whence `SumAdds`, what one more index does to it, without an induction.
- `NominationsAreBacked`, for any sequence of screenings an author writes. The results of a screening
  are of increasing gates (`Ordered`), so as many as there are gates are of every gate
  (`PassedEveryGate`).
- `LocksDoNotLeak`, for any number of incidents, any corpus, any order of the unions and any choice
  among ties. `Together` is the union-find's invariant in both directions: what has one root is
  linked by a chain, and a shared value that was looked at has one root; at the end components are
  exactly the classes of linked incidents (`PreviousShares`: to join each incident to the first with
  its value joins all that have it). `Freezing` counts: the components left are never fewer than
  the splits still empty, because the next one goes to an empty split while there is one
  (`LeastIsEmpty`). That an infeasible corpus cannot be split by
  anybody is `ThreeComponents`: a separating split would pick three of them.
- `PredictionsAreBlind`, for any finite set of incidents, any census and truth. `Fitted` and `Predicted`
  say that the modes are those of the training set and the predictions those of the modes, for
  incidents outside it, whatever fold was brought; completeness (`ValidateFolds`) then makes them the
  canonical group, and `ModeIsStrict` says what a mode is in terms of counts.

`ControlProductionProofs`, for any launches, controls and commits: `ProductionTypeCorrect`,
`BundlesAreWhole`, `VerifierReadsOneBundle`, and the action properties `BundlesAreFinal` and
`SuccessIsVouchedFor`. `ProductionInv` follows a bundle through the program: `Progress` says how much
of it each child has behind it, `Published` that only a finished one is moved, for the commit its
launch was asked for, `Settled` that until an operator deletes something a child still finds its
own, `Answered` and `Verifying` what a launcher and a verifier have in hand.

`IncidentDossierProofs`, for any number of slips and any life of an approval: `DossierTypeCorrect`,
`CountedRanAsApproved` and `CountedIsOutcomeBlind`. `DossierInv` dates the statements (`Dating`: each
has a time of its own, and is about what was before it) and says who can know the mechanism before it
is unsealed (`Blindness`); the properties then follow from the comparisons of `_verify_dossier` for
whatever statements were chosen. The proof needs the custodian's word on an earlier opening: without
it a dossier may rest on a second unsealing, after people knew.

`AcquisitionProofs` has a theorem for each of the other parts of `AcquisitionParts`:

- `PassesAreEarned`, for any floors that ask for every fault in two families (`FloorAssumption`; the
  contract asks for it, `acquisition.py:1466`). A failed check is noted and the audit goes on, so
  `AuditInv` says after each check what it has shown if nothing was noted. The
  property is stated of every two submitted dossiers, that they share no identity the audit holds
  unique; `NothingIsShared` gets it from the comparisons, which count distinct values instead.
- `AcceptedTreesExisted`, for any number of changes while a tree is read. `WorldFits` says that no
  stamp and no content is of a later change; `Seen` that what was read of a file is what the object
  holds as long as its stamp is the one noted. For the census, `Rechecks` is the argument why
  looking again at everything suffices: if the tree was not what was found when the second
  look began, something is already different that the look will come to, and no change can
  put it back. For the snapshot, `Outgrown` is why only the replay settles it: if the manifest
  joined two moments, some part of it has been overtaken, and a replay cannot read it again.
- `AcceptedControlsAreDemonstrated`, for any tests collected and any outcome of every phase.
- `GateVerdictsAreExact`, for any number of writes and edits. The verdict is exact in both directions,
  so `GateInv` has both: what a digest that agrees rules out (`GateTree`), and what the tree, the
  registry and the tests look like while nobody is to blame (`Blameless`).
- `RunnersAreAuthentic`, for any preparers and any changes to the cache they share: what a preparer
  has in hand depends on its own reading only (`Gathered`).
- `ClosuresAreExact`, for any finite number of names, any graph of dependencies and one name with no
  package, two of them or no best wheel. `Frontier` is the worklist's invariant: what is selected or
  waiting is needed, has the roots in it, and has what the selected packages depend on in it. The
  count of a selection that is refused for the limit goes through `FiniteSetTheorems`.

`EvidenceProofs` has a theorem for each part of `EvidenceParts` beside the ledger:

- `FinalReceiptsAreBacked` and `CorrectionsAreOneShot`, for any number of initializers, correctors,
  keys and edits. The exclusive create of the receipt makes one process the holder (`Held`), and
  every later step of the holder finds the receipt as it left it; `Signed` says that a corrector past
  the check of the signer holds the committed key. The second theorem maps every step to a step of
  `OneShotAuthority` or to none.
- `ReceiptsAreWhole`, for any number of ingesting processes, of their runs and of kills.
  `IngestionInv` says that only the holder of the run lock is past `idle`, and, for each of its
  program points, what it has extracted, moved and parsed so far (`Stage`), and that what there is
  of an output was derived from all of the files, by one process, in the order of the code
  (`Derived`).
- `VerdictsAreIngested`, for any number of changes beside the audit. A verdict that verifies was
  derived from what the signed event pins (`AuditPinned`, `AuditVerified`). That untouched files are
  never refused is the other direction and needs an account of every reading and every comparison
  while nothing was changed (`AuditUntouched`).
- `BundlesAreOneRun`, for any number of edits, rebuildings, cuts and mixtures beside the verifier.
  `IsOfRun` says that what was compared is what the run named by the ledger wrote. `IsRechecked` is
  the argument for the reading again at the end: what was not in place when it began is not in place
  later (no content returns), so the reading again comes to it; and the ledger and its head, which
  were read twice, are the run's whole ones unless they differ on disk by then (`Exact`). The lemma
  `RebuiltKeeps` says what the program's own derivation leaves alone.

The assumptions of these theorems are those of the modules on their constants: `SessionAssumption`
(there are candidates and bodies), `ProductionAssumption`, `NoneIsNoBundle`, `CycleAssumption`,
`DossierAssumption`, `FloorAssumption`, `NamesAssumption`, `CensusAssumption` (finitely many incidents),
`RepositoryAssumption` (the bounds are numbers), `EvidenceAssumption` (the value of a free run lock is not a process). Only `AttestationsAreCommitted` and the two
theorems after it have a hypothesis besides.

Every safety invariant and every action property of the passing runs is a theorem.

Out of the prover's reach, and left to TLC for good: `EveryRunEnds` and `EveryLaunchEnds` (liveness
under fairness; `ENABLED`), and induction over data, such as what a recursive definition computes for
every input. Where an argument wants an induction over finitely many things, the proofs take a
least element instead (`HasLeast`, `HasLatest`), from the theorems on well-founded orders.

## Not modelled

- Text and layout (HANDOFF.md's wording, reports, schemas, canonical JSON), cryptography
  (ideal), file-system metadata checks (ownership, modes, link counts), interpreter and Git
  observation, the command line, vendored and generated data.
- The writing of the audit's report (`write_admission_output`): a directory filled beside its place
  and renamed once.
- The mission validator outside `GateControl`: a list of independent file checks without
  state, which appears as a preflight that passes or stops.
- The certificate and terminal record of `terminal_authority.py`: comparisons of one set of
  hashes with another. The chain of owner authority of the census, likewise.
- Shortcut V2's tree rule, salted roots, sealed targets, release and terminal files.
- Runner trust's redirect policy and its parsing of lock, wheel and uv files; the download's
  redirects and the instrument format of the adapter.
- Planning, diagnosis, selection, masking and the laboratories: deterministic arithmetic over
  one request in one call, of which a model would be a copy.
- `verify_history`, which compares two histories in one call.
- A file put back to what it was between two readings, in `ProofBundle`, `TreeCensus`,
  `PreregistrationBinding` and the last conjunct of `HandoffSnapshot`: the code cannot see it, and
  its documents do not say it could. `ReadinessAudit` and `GateControl` do have it.

## Plan

No property of a passing run is left to prove but those out of reach. What could follow is listed
under "Not modelled".
