----------------------------- MODULE Iter000Run -----------------------------
(***************************************************************************)
(* src/fieldtrue/experiment.py: the two attempts at iteration 000, run by  *)
(* any number of processes that may be interrupted, may raise, and may be  *)
(* started again.  A run holds one non-blocking lock throughout, refuses   *)
(* an attempt whose proof root exists, consumes the attempt's single-use   *)
(* authority (attempt_001), and then writes its proof root step by step:   *)
(* ledger events, artifacts, a manifest, the last event, a verification.   *)
(*                                                                         *)
(* An append to the attempt's ledger (receipts.py, see SignedLedger) is    *)
(* two steps here, the event's line and the head; the run lock makes it    *)
(* the only writer.  What a run does when it raises past its handlers is   *)
(* what a crash leaves, so one action stands for both.                     *)
(***************************************************************************)
EXTENDS LedgerRules, FiniteSets

CONSTANTS
  Runners,       \* processes that execute the command
  Nobody,        \* the holder of a free lock
  MaxDeletions   \* bound on how often an operator deletes a proof root

ASSUME RunAssumption ==
  /\ Nobody \notin Runners
  /\ MaxDeletions \in Nat

Attempts == {"attempt_000", "attempt_001"}
Authorized == "attempt_001"   \* the attempt that consumes an authority

\* The verdicts of a readiness report; "none" where there is no report.
Verdicts == {"PASS", "BLOCKED_EVIDENCE", "INVALID"}

VARIABLES
  lock,        \* holder of .local/locks/iter000.lock
  receipt,     \* the authority consumption receipt: "absent", "empty" or "sealed"
  proof,       \* the proof root of each attempt
  pc,          \* where each runner is
  attempt,     \* the attempt a runner executes
  queued,      \* the event a runner is appending
  verdict,     \* the verdict of the report a runner holds
  starts,      \* executions of each attempt that got as far as the proof root
  deletions    \* proof roots deleted so far

locals == <<pc, attempt, queued, verdict>>
vars == <<lock, receipt, proof, pc, attempt, queued, verdict, starts, deletions>>

NoProof == [root |-> FALSE, events |-> <<>>, torn |-> FALSE, head |-> 0,
            report |-> "none", bundle |-> FALSE, manifest |-> "none", checkpoint |-> 0]

Init ==
  /\ lock = Nobody
  /\ receipt = "absent"
  /\ proof = [a \in Attempts |-> NoProof]
  /\ pc = [p \in Runners |-> "idle"]
  /\ attempt = [p \in Runners |-> "attempt_000"]
  /\ queued = [p \in Runners |-> "run-started"]
  /\ verdict = [p \in Runners |-> "none"]
  /\ starts = [a \in Attempts |-> 0]
  /\ deletions = 0

Goto(p, label) == pc' = [pc EXCEPT ![p] = label]

\* The proof root of p's attempt, with some of its files replaced.
Mine(p) == proof[attempt[p]]
Write(p, new) == proof' = [proof EXCEPT ![attempt[p]] = new]
----------------------------------------------------------------------------
\* Mutant: a run does not look whether another holds the lock.
BeginUnlocked(p, a) ==
  /\ pc[p] = "idle"
  /\ lock' = p
  /\ attempt' = [attempt EXCEPT ![p] = a]
  /\ Goto(p, "preflight")
  /\ UNCHANGED <<receipt, proof, queued, verdict, starts, deletions>>

\* run_iter000 and run_iter000_amendment_001 take the lock or raise at once.
Begin(p, a) ==
  /\ pc[p] = "idle" /\ lock = Nobody
  /\ lock' = p
  /\ attempt' = [attempt EXCEPT ![p] = a]
  /\ Goto(p, "preflight")
  /\ UNCHANGED <<receipt, proof, queued, verdict, starts, deletions>>

\* The output root and the receipt must not exist.  (The specification, command,
\* mission, runtime and key must check out too: where they do not, see Stop.)
Fresh(p) == ~Mine(p).root /\ (attempt[p] = Authorized => receipt = "absent")

\* Mutant: the authority is checked and never consumed.
PassUnconsumed(p) ==
  /\ pc[p] = "preflight" /\ Fresh(p)
  /\ Goto(p, "start")
  /\ UNCHANGED <<lock, receipt, proof, attempt, queued, verdict, starts, deletions>>

PassPreflight(p) ==
  /\ pc[p] = "preflight" /\ Fresh(p)
  /\ Goto(p, IF attempt[p] = Authorized THEN "consume" ELSE "start")
  /\ UNCHANGED <<lock, receipt, proof, attempt, queued, verdict, starts, deletions>>

\* The exclusive create: from here the authority is consumed, whatever follows.
Consume(p) ==
  /\ pc[p] = "consume"
  /\ receipt = "absent"
  /\ receipt' = "empty"
  /\ Goto(p, "seal")
  /\ UNCHANGED <<lock, proof, attempt, queued, verdict, starts, deletions>>

\* The receipt is written, synced with its directory, read back and verified.
Seal(p) ==
  /\ pc[p] = "seal"
  /\ receipt' = "sealed"
  /\ Goto(p, "start")
  /\ UNCHANGED <<lock, proof, attempt, queued, verdict, starts, deletions>>

Queue(p, t) ==
  /\ queued' = [queued EXCEPT ![p] = t]
  /\ Goto(p, "line")

\* The first append creates the proof root.
Start(p) ==
  /\ pc[p] = "start"
  /\ Write(p, [Mine(p) EXCEPT !.root = TRUE])
  /\ starts' = [starts EXCEPT ![attempt[p]] = @ + 1]
  /\ Queue(p, "run-started")
  /\ UNCHANGED <<lock, receipt, attempt, verdict, deletions>>

\* SignedLedger.append parses and verifies the file, then writes the line ...
CanAppend(p, t) == ~Mine(p).torn /\ Admissible(Mine(p).events, t)

AppendLine(p) ==
  /\ pc[p] = "line" /\ CanAppend(p, queued[p])
  /\ Write(p, [Mine(p) EXCEPT !.events = Append(@, queued[p])])
  /\ Goto(p, "head")
  /\ UNCHANGED <<lock, receipt, attempt, queued, verdict, starts, deletions>>

\* Where the run goes once an event is in; "leave" raises the recorded failure.
After(t) ==
  CASE t = "run-started"           -> "fetch"
    [] t = "sources-verified"      -> "ingest"
    [] t = "dataset-ingested"      -> "audit"
    [] t \in {"source-invalid", "ingestion-invalid"} -> "finalize"
    [] t = "readiness-adjudicated" -> "bundle"
    [] t = "run-completed"         -> "verify"
    [] t = "run-failed"            -> "leave"

\* Mutant: the head is replaced by one that does not cover the new line.
AppendHeadBehind(p) ==
  /\ pc[p] = "head"
  /\ Write(p, [Mine(p) EXCEPT !.head = Len(Mine(p).events) - 1])
  /\ Goto(p, After(queued[p]))
  /\ UNCHANGED <<lock, receipt, attempt, queued, verdict, starts, deletions>>

\* ... and replaces the head.
AppendHead(p) ==
  /\ pc[p] = "head"
  /\ Write(p, [Mine(p) EXCEPT !.head = Len(Mine(p).events)])
  /\ Goto(p, After(queued[p]))
  /\ UNCHANGED <<lock, receipt, attempt, queued, verdict, starts, deletions>>

\* Mutant: the invalid outcome is recorded and the verdict left to the audit.
StageUndecided(p, label, valid, invalid) ==
  /\ pc[p] = label
  /\ \E t \in {valid, invalid} : Queue(p, t)
  /\ \E v \in Verdicts : verdict' = [verdict EXCEPT ![p] = v]
  /\ UNCHANGED <<lock, receipt, proof, attempt, starts, deletions>>

\* A stage that can find its input invalid: the invalid outcome fixes the verdict.
Stage(p, label, valid, invalid) ==
  /\ pc[p] = label
  /\ \/ Queue(p, valid) /\ UNCHANGED verdict
     \/ Queue(p, invalid) /\ verdict' = [verdict EXCEPT ![p] = "INVALID"]
  /\ UNCHANGED <<lock, receipt, proof, attempt, starts, deletions>>

\* fetch_adapt_dataset returns receipts, or a ValueError makes the run INVALID.
Fetch(p) == Stage(p, "fetch", "sources-verified", "source-invalid")

\* ingest_adapt_dataset returns manifests, or a ValueError makes the run INVALID.
Ingest(p) == Stage(p, "ingest", "dataset-ingested", "ingestion-invalid")

\* audit_adapt_readiness adjudicates what was ingested.
Audit(p) ==
  /\ pc[p] = "audit"
  /\ \E v \in Verdicts : verdict' = [verdict EXCEPT ![p] = v]
  /\ Goto(p, "finalize")
  /\ UNCHANGED <<lock, receipt, proof, attempt, queued, starts, deletions>>

\* _finalize_iter000 copies the trust inputs, writes the report, its rendering
\* and the learning record, and appends the adjudication.
Report(p) ==
  /\ pc[p] = "finalize"
  /\ Write(p, [Mine(p) EXCEPT !.report = verdict[p]])
  /\ Queue(p, "readiness-adjudicated")
  /\ UNCHANGED <<lock, receipt, attempt, verdict, starts, deletions>>

\* The artifact bundle hashes every artifact.
Bundle(p) ==
  /\ pc[p] = "bundle"
  /\ Write(p, [Mine(p) EXCEPT !.bundle = TRUE])
  /\ Goto(p, "checkpoint")
  /\ UNCHANGED <<lock, receipt, attempt, queued, verdict, starts, deletions>>

\* Mutant: the manifest is left for after the last event.
CheckpointLater(p) ==
  /\ pc[p] = "checkpoint"
  /\ ~Mine(p).torn /\ Mine(p).head = Len(Mine(p).events)
  /\ Queue(p, "run-completed")
  /\ UNCHANGED <<lock, receipt, proof, attempt, verdict, starts, deletions>>

\* The ledger is verified and checkpointed in the manifest; then the last event.
Checkpoint(p) ==
  /\ pc[p] = "checkpoint"
  /\ ~Mine(p).torn /\ Mine(p).head = Len(Mine(p).events)
  /\ Write(p, [Mine(p) EXCEPT !.manifest = verdict[p], !.checkpoint = Mine(p).head])
  /\ Queue(p, "run-completed")
  /\ UNCHANGED <<lock, receipt, attempt, verdict, starts, deletions>>

\* What verify_iter000_proof_bundle demands of a finished proof root.
Sealed(a, v) ==
  /\ ~proof[a].torn /\ proof[a].head = Len(proof[a].events)
  /\ proof[a].events[Len(proof[a].events)] = "run-completed"
  /\ proof[a].bundle
  /\ proof[a].report = v /\ proof[a].manifest = v
  /\ proof[a].checkpoint = Len(proof[a].events) - 1

Leave(p) ==
  /\ lock' = Nobody
  /\ pc' = [pc EXCEPT ![p] = "idle"]
  /\ attempt' = [attempt EXCEPT ![p] = "attempt_000"]
  /\ queued' = [queued EXCEPT ![p] = "run-started"]
  /\ verdict' = [verdict EXCEPT ![p] = "none"]
  /\ UNCHANGED <<receipt, starts, deletions>>

\* ExperimentAlreadyExecutedError.
RefuseAttempt(p) == pc[p] = "preflight" /\ ~Fresh(p) /\ Leave(p) /\ UNCHANGED proof

\* The finished proof is verified and the report returned.
Return(p) ==
  /\ pc[p] = "verify" /\ Sealed(attempt[p], verdict[p])
  /\ Leave(p)
  /\ UNCHANGED proof

\* The recorded failure is raised.
Reraise(p) == pc[p] = "leave" /\ Leave(p) /\ UNCHANGED proof

\* The program points inside the try block whose handler records a failure.
InTry(p) ==
  \/ pc[p] \in {"fetch", "ingest", "audit", "finalize", "bundle", "checkpoint", "verify"}
  \/ pc[p] \in {"line", "head"} /\ queued[p] \notin {"run-started", "run-failed"}

\* An exception other than ExperimentFinalizationError reaches the handler.
Raise(p) ==
  /\ InTry(p)
  /\ Goto(p, "failing")
  /\ UNCHANGED <<lock, receipt, proof, attempt, queued, verdict, starts, deletions>>

\* The write of a line fails part way: the handler finds a file it cannot parse.
RaiseWriting(p) ==
  /\ pc[p] = "line" /\ InTry(p) /\ CanAppend(p, queued[p])
  /\ Write(p, [Mine(p) EXCEPT !.torn = TRUE])
  /\ Goto(p, "failing")
  /\ UNCHANGED <<lock, receipt, attempt, queued, verdict, starts, deletions>>

\* The handler appends run-failed.
RecordFailure(p) ==
  /\ pc[p] = "failing" /\ CanAppend(p, "run-failed")
  /\ Queue(p, "run-failed")
  /\ UNCHANGED <<lock, receipt, proof, attempt, verdict, starts, deletions>>

\* Mutant: a refusal by the ledger ends the handler with the lock still held.
MaskFailureHeld(p) ==
  /\ pc[p] = "failing" /\ ~CanAppend(p, "run-failed")
  /\ Goto(p, "idle")
  /\ UNCHANGED <<lock, receipt, proof, attempt, queued, verdict, starts, deletions>>

\* A file the handler cannot parse, or a ledger that already says run-completed,
\* refuses the event, and the run raises that refusal instead of the failure.
MaskFailure(p) ==
  /\ pc[p] = "failing" /\ ~CanAppend(p, "run-failed")
  /\ Leave(p)
  /\ UNCHANGED proof

\* The run ends where it is: a crash, a refusal, an exception no handler records.
Stop(p) ==
  /\ pc[p] # "idle"
  /\ Leave(p)
  /\ UNCHANGED proof

\* The run ends while it writes a line.
StopWriting(p) ==
  /\ pc[p] = "line" /\ CanAppend(p, queued[p])
  /\ Leave(p)
  /\ Write(p, [Mine(p) EXCEPT !.torn = TRUE])

\* An operator deletes a proof root no run is writing.
Delete(a) ==
  /\ lock = Nobody /\ proof[a].root /\ deletions < MaxDeletions
  /\ proof' = [proof EXCEPT ![a] = NoProof]
  /\ deletions' = deletions + 1
  /\ UNCHANGED <<lock, receipt, locals, starts>>

\* What a runner does next when nothing outside it fails.
Work(p) ==
  \/ PassPreflight(p) \/ RefuseAttempt(p) \/ Consume(p) \/ Seal(p) \/ Start(p)
  \/ AppendLine(p) \/ AppendHead(p)
  \/ Fetch(p) \/ Ingest(p) \/ Audit(p)
  \/ Report(p) \/ Bundle(p) \/ Checkpoint(p)
  \/ Return(p) \/ Reraise(p) \/ RecordFailure(p) \/ MaskFailure(p)

Next ==
  \/ \E p \in Runners : \/ \E a \in Attempts : Begin(p, a)
                        \/ Work(p)
                        \/ Raise(p) \/ RaiseWriting(p) \/ Stop(p) \/ StopWriting(p)
  \/ \E a \in Attempts : Delete(a)

Spec == Init /\ [][Next]_vars

\* A runner inside the lock keeps executing: it is a straight line of calls with
\* no unbounded loop, and the downloads it waits for have timeouts.
FairSpec == Spec /\ \A p \in Runners : WF_vars(Work(p))
----------------------------------------------------------------------------
ProofRoot ==
  [root : BOOLEAN, events : Seq(EventTypes), torn : BOOLEAN, head : Nat,
   report : Verdicts \cup {"none"}, bundle : BOOLEAN,
   manifest : Verdicts \cup {"none"}, checkpoint : Nat]

Labels ==
  {"idle", "preflight", "consume", "seal", "start", "line", "head", "fetch", "ingest",
   "audit", "finalize", "bundle", "checkpoint", "verify", "failing", "leave"}

TypeOK ==
  /\ lock \in Runners \cup {Nobody}
  /\ receipt \in {"absent", "empty", "sealed"}
  /\ proof \in [Attempts -> ProofRoot]
  /\ pc \in [Runners -> Labels]
  /\ attempt \in [Runners -> Attempts]
  /\ queued \in [Runners -> EventTypes]
  /\ verdict \in [Runners -> Verdicts \cup {"none"}]
  /\ starts \in [Attempts -> Nat]
  /\ deletions \in Nat

Happened(a, t) == \E i \in 1..Len(proof[a].events) : proof[a].events[i] = t

\* No attempt is executed twice, by concurrent runners or by a run after a crash.
\* Deleting its output lets attempt_000 run again but never attempt_001, whose
\* authority is gone.
NoSecondExecution ==
  /\ starts[Authorized] <= 1
  /\ starts["attempt_000"] <= 1 + deletions

\* A ledger says run-completed only when everything that event vouches for was in
\* place before it: bundle, report, and a manifest with the same verdict that
\* checkpoints exactly the events before it.
CompletionIsBacked ==
  \A a \in Attempts : Happened(a, "run-completed") =>
    /\ proof[a].bundle
    /\ proof[a].manifest = proof[a].report /\ proof[a].report \in Verdicts
    /\ proof[a].checkpoint = Len(proof[a].events) - 1

\* Once a stage found its input invalid, no report or manifest of the attempt says
\* anything but INVALID, and an attempt that recorded a failure never completes.
InvalidIsFinal ==
  \A a \in Attempts :
    /\ Happened(a, "source-invalid") \/ Happened(a, "ingestion-invalid") =>
         {proof[a].report, proof[a].manifest} \subseteq {"none", "INVALID"}
    /\ ~(Happened(a, "run-failed") /\ Happened(a, "run-completed"))

\* The execution authority of attempt_001 is one-shot: consumed before the proof
\* root exists, paying for one execution, never restored by deleting the output.
Authority == INSTANCE OneShotAuthority
  WITH consumed <- receipt # "absent", output <- proof[Authorized].root,
       runs <- starts[Authorized]
AuthorityIsOneShot == Authority!Spec

\* While its root exists, an attempt's ledger and head keep the abstract ledger's
\* promise at every step of the run that writes it.
Ledger(a) == INSTANCE AttemptLedger
  WITH recorded <- proof[a].events, certified <- proof[a].head
LedgersKeepPromise ==
  [][\A a \in Attempts : proof'[a].root => [Ledger(a)!Next]_(Ledger(a)!vars)]_vars

\* Nobody is locked out for ever: a run that took the lock gives it back.
EveryRunEnds == \A p \in Runners : lock = p ~> lock = Nobody
=============================================================================
