------------------------- MODULE ControlProduction -------------------------
(***************************************************************************)
(* src/fieldtrue/control_launcher.py, control_producer.py and              *)
(* control_authority.py: the admission-control bundle.  A launch starts a  *)
(* child process on a private snapshot of HEAD and waits for it until a    *)
(* deadline.  The child runs every control, assembles and signs a receipt  *)
(* in a staging directory of its own, and publishes it with one rename     *)
(* that replaces nothing.  A contract then adopts the receipt, and a       *)
(* verifier, which reads the bundle file by file, accepts the pair.        *)
(*                                                                         *)
(* Meanwhile a developer edits and commits, an operator may delete the     *)
(* published bundle, launchers die, and the runner's files may change.  A  *)
(* change of the runner is not undone: one undone within a single control  *)
(* is invisible to the code.  Bytes, hashes and signatures are abstracted  *)
(* to the launch that made them: a hash names its launch's file.           *)
(***************************************************************************)
EXTENDS Naturals, Sequences, SequencesExt

CONSTANTS
  Launches,      \* calls of generate_admission_control_bundle
  None,          \* no bundle, no control suite
  Controls,      \* how many controls the frozen suite has
  MaxCommits,    \* bound on the length of the history
  MaxDeletions   \* bound on how often an operator deletes the bundle

ASSUME ProductionAssumption ==
  /\ None \notin Launches
  /\ {Controls, MaxCommits, MaxDeletions} \subseteq Nat
  /\ MaxCommits > 0

VARIABLES
  commits,     \* the history: the contract at each commit, HEAD last
  work,        \* the contract in the working tree
  lpc,         \* where each launcher is
  want,        \* the commit a launch was requested for
  cpc,         \* where each child is
  staging,     \* each child's staging directory: what is in it, or None
  altered,     \* has a launch's runner changed since it was prepared
  response,    \* what a child answered: "none", "published" or "rejected"
  bundle,      \* the published bundle, or None
  deletions,
  vpc,         \* where the verifier is
  held,        \* the contract and the receipt the verifier has read
  seen         \* the launches whose files the verifier has read

repo == <<commits, work>>
launcher == <<lpc, want>>
child == <<cpc, staging, altered, response>>
verifier == <<vpc, held, seen>>
vars == <<repo, launcher, child, bundle, deletions, verifier>>

\* An acquisition contract: its frozen part, and the control suite it binds.
Contract == [base : {"test_fixture", "canonical"}, suite : Launches \cup {None}]

\* What a staging directory holds: evidence of the controls run so far, whether
\* one of them ran on a changed runner, the manifest and the signed receipt.
Staging == [controls : 0..Controls, tainted : BOOLEAN, manifest : BOOLEAN, receipt : BOOLEAN]
EmptyStaging == [controls |-> 0, tainted |-> FALSE, manifest |-> FALSE, receipt |-> FALSE]
Bundle == [by : Launches, commit : 1..MaxCommits, files : Staging]

ASSUME NoneIsNoBundle == None \notin Bundle

HEAD == Len(commits)
Clean == work = commits[HEAD]

NothingHeld == [contract |-> [base |-> "test_fixture", suite |-> None], by |-> None, commit |-> 1]

Init ==
  /\ commits = <<[base |-> "test_fixture", suite |-> None]>>
  /\ work = commits[1]
  /\ lpc = [l \in Launches |-> "idle"]
  /\ want = [l \in Launches |-> 1]
  /\ cpc = [l \in Launches |-> "off"]
  /\ staging = [l \in Launches |-> None]
  /\ altered = [l \in Launches |-> FALSE]
  /\ response = [l \in Launches |-> "none"]
  /\ bundle = None
  /\ deletions = 0
  /\ vpc = "idle"
  /\ held = NothingHeld
  /\ seen = {}

Launcher(l, from, to) == lpc[l] = from /\ lpc' = [lpc EXCEPT ![l] = to]
Child(l, from, to) == cpc[l] = from /\ cpc' = [cpc EXCEPT ![l] = to]
Stage(l, new) == staging' = [staging EXCEPT ![l] = new]
----------------------------------------------------------------------------
(* The world around: developer, operator, and whatever touches the runner. *)

Edit ==
  /\ \E c \in Contract :
       /\ c.suite # None => bundle # None /\ c.suite = bundle.by
       /\ work' = c /\ c # work
  /\ UNCHANGED <<commits, launcher, child, bundle, deletions, verifier>>

Commit ==
  /\ ~Clean /\ HEAD < MaxCommits
  /\ commits' = Append(commits, work)
  /\ UNCHANGED <<work, launcher, child, bundle, deletions, verifier>>

Delete ==
  /\ bundle # None /\ deletions < MaxDeletions
  /\ bundle' = None
  /\ deletions' = deletions + 1
  /\ UNCHANGED <<repo, launcher, child, verifier>>

Alter(l) ==
  /\ cpc[l] \in {"before", "after"} /\ ~altered[l]
  /\ altered' = [altered EXCEPT ![l] = TRUE]
  /\ UNCHANGED <<repo, launcher, cpc, staging, response, bundle, deletions, verifier>>
----------------------------------------------------------------------------
(* generate_admission_control_bundle: the launcher                         *)

\* The output must not exist and the repository must be clean; the request names
\* HEAD, the runner is prepared from that commit and started.
Launch(l) ==
  /\ Launcher(l, "idle", "wait")
  /\ bundle = None /\ Clean
  /\ want' = [want EXCEPT ![l] = HEAD]
  /\ Child(l, "off", "check")
  /\ UNCHANGED <<repo, staging, altered, response, bundle, deletions, verifier>>

\* Mutant: the deadline is looked at only when the child has said something.
TimeoutOfTalker(l) ==
  /\ cpc[l] = "done"
  /\ Launcher(l, "wait", "failed")
  /\ UNCHANGED <<repo, want, child, bundle, deletions, verifier>>

\* The deadline passes: the child's process group is terminated wherever it is,
\* with no chance to clear its staging directory, and the runner is removed.
Timeout(l) ==
  /\ Launcher(l, "wait", "failed")
  /\ cpc' = [cpc EXCEPT ![l] = "dead"]
  /\ altered' = [altered EXCEPT ![l] = FALSE]
  /\ UNCHANGED <<repo, want, staging, response, bundle, deletions, verifier>>

\* The launcher itself dies; the child, in a session of its own, goes on.
LauncherDies(l) ==
  /\ Launcher(l, "wait", "failed")
  /\ UNCHANGED <<repo, want, child, bundle, deletions, verifier>>

\* _validated_producer_response: the child ended, and answered this request.
ReadResponse(l) ==
  /\ cpc[l] = "done"
  /\ IF response[l] = "published" THEN Launcher(l, "wait", "identity")
                                  ELSE Launcher(l, "wait", "failed")
  /\ UNCHANGED <<repo, want, child, bundle, deletions, verifier>>

CheckIdentity(l) ==
  /\ IF Clean /\ HEAD = want[l] THEN Launcher(l, "identity", "receipt")
                                ELSE Launcher(l, "identity", "failed")
  /\ UNCHANGED <<repo, want, child, bundle, deletions, verifier>>

\* Mutant: any receipt at the fixed path will do.
CheckReceiptAny(l) ==
  /\ IF bundle # None THEN Launcher(l, "receipt", "succeeded")
                      ELSE Launcher(l, "receipt", "failed")
  /\ UNCHANGED <<repo, want, child, bundle, deletions, verifier>>

\* The receipt at the fixed path must be the one the child hashed.
CheckReceipt(l) ==
  /\ IF bundle # None /\ bundle.by = l THEN Launcher(l, "receipt", "succeeded")
                                       ELSE Launcher(l, "receipt", "failed")
  /\ UNCHANGED <<repo, want, child, bundle, deletions, verifier>>
----------------------------------------------------------------------------
(* producer_child_main, _produce_fixture_bundle: the child                 *)

\* A check fails or a call raises: the staging directory is removed on the way out.
Fail(l) ==
  /\ cpc[l] \in {"check", "mkdir", "before", "after", "assemble", "sign", "publish"}
  /\ cpc' = [cpc EXCEPT ![l] = "clear"]
  /\ UNCHANGED <<repo, launcher, staging, altered, response, bundle, deletions, verifier>>

\* _assert_clean_repo, _git_identity, _load_execution_contract: the committed and
\* the working contract agree and are the requested commit's.
IdentityHolds(l) == Clean /\ HEAD = want[l]

\* Mutant: nobody looks whether the runner changed.
RunnerIsTrusted(l) == l \in Launches

\* runner_is_unchanged, from before the first control to the assembly.
RunnerUnchanged(l) == ~altered[l]

\* The contract must be a fixture's; the closure and the preregistration are the
\* commit's, like the snapshot the runner was prepared from.
CheckAuthority(l) ==
  /\ Child(l, "check", "mkdir")
  /\ IdentityHolds(l) /\ work.base = "test_fixture"
  /\ UNCHANGED <<repo, launcher, staging, altered, response, bundle, deletions, verifier>>

\* The target must not exist; the staging directory has a name of its own.
MakeStaging(l) ==
  /\ Child(l, "mkdir", "before")
  /\ bundle = None
  /\ Stage(l, EmptyStaging)
  /\ UNCHANGED <<repo, launcher, altered, response, bundle, deletions, verifier>>

BeforeControl(l) ==
  /\ Child(l, "before", "after")
  /\ RunnerUnchanged(l) /\ staging[l].controls < Controls
  /\ UNCHANGED <<repo, launcher, staging, altered, response, bundle, deletions, verifier>>

\* The control has run, its observation is the expected one, its evidence is
\* written, and the runner is compared again.
AfterControl(l) ==
  /\ cpc[l] = "after" /\ RunnerUnchanged(l)
  /\ Stage(l, [staging[l] EXCEPT !.controls = @ + 1, !.tainted = @ \/ altered[l]])
  /\ IF staging[l].controls + 1 = Controls THEN Child(l, "after", "assemble")
                                           ELSE Child(l, "after", "before")
  /\ UNCHANGED <<repo, launcher, altered, response, bundle, deletions, verifier>>

\* Identity, contract, sources, closure and runner are compared once more.
Assemble(l) ==
  /\ Child(l, "assemble", "sign")
  /\ IdentityHolds(l) /\ RunnerUnchanged(l)
  /\ Stage(l, [staging[l] EXCEPT !.manifest = TRUE])
  /\ UNCHANGED <<repo, launcher, altered, response, bundle, deletions, verifier>>

\* And again before the key is read; the receipt is signed and written.
Sign(l) ==
  /\ Child(l, "sign", "publish")
  /\ IdentityHolds(l)
  /\ Stage(l, [staging[l] EXCEPT !.receipt = TRUE])
  /\ UNCHANGED <<repo, launcher, altered, response, bundle, deletions, verifier>>

NewBundle(l) == [by |-> l, commit |-> want[l], files |-> staging[l]]

\* Mutant: a rename that replaces what is there.
PublishOver(l) ==
  /\ Child(l, "publish", "settle")
  /\ bundle' = NewBundle(l)
  /\ Stage(l, None)
  /\ UNCHANGED <<repo, launcher, altered, response, deletions, verifier>>

\* _rename_no_replace_at; the census of the staging directory was exact.
Publish(l) ==
  /\ Child(l, "publish", "settle")
  /\ bundle = None
  /\ bundle' = NewBundle(l)
  /\ Stage(l, None)
  /\ UNCHANGED <<repo, launcher, altered, response, deletions, verifier>>

\* What is at the published path is the directory that was renamed.
Settle(l) ==
  /\ Child(l, "settle", "answer")
  /\ bundle # None /\ bundle.by = l
  /\ UNCHANGED <<repo, launcher, staging, altered, response, bundle, deletions, verifier>>

\* It is not, or the directory cannot be synced.
SettleFails(l) ==
  /\ Child(l, "settle", "takeback")
  /\ UNCHANGED <<repo, launcher, staging, altered, response, bundle, deletions, verifier>>

\* Whatever is at the published path is renamed back; if nothing is, that raises.
TakeBack(l) ==
  /\ Child(l, "takeback", "clear")
  /\ bundle' = None
  /\ Stage(l, IF bundle = None THEN None ELSE bundle.files)
  /\ UNCHANGED <<repo, launcher, altered, response, deletions, verifier>>

\* The renaming back raises, and the bundle stays.
TakeBackFails(l) ==
  /\ Child(l, "takeback", "clear")
  /\ UNCHANGED <<repo, launcher, staging, altered, response, bundle, deletions, verifier>>

\* The outermost finally: what was not published is removed.
Clear(l) ==
  /\ Child(l, "clear", "done")
  /\ Stage(l, None)
  /\ response' = [response EXCEPT ![l] = "rejected"]
  /\ altered' = [altered EXCEPT ![l] = FALSE]
  /\ UNCHANGED <<repo, launcher, bundle, deletions, verifier>>

Answer(l) ==
  /\ Child(l, "answer", "done")
  /\ response' = [response EXCEPT ![l] = "published"]
  /\ UNCHANGED <<repo, launcher, staging, altered, bundle, deletions, verifier>>
----------------------------------------------------------------------------
(* verify_admission_control_bundle                                         *)

\* The contract in use is the working tree's; the receipt is the one it binds.
ReadReceipt ==
  /\ vpc = "idle" /\ bundle # None
  /\ work.base # "canonical" /\ work.suite = bundle.by
  /\ held' = [contract |-> work, by |-> bundle.by, commit |-> bundle.commit]
  /\ seen' = {bundle.by}
  /\ vpc' = "manifest"
  /\ UNCHANGED <<repo, launcher, child, bundle, deletions>>

\* Mutant: a file of the bundle is taken as it is found.
UnboundFile(l) == bundle # None /\ l \in Launches

\* _read_bound_json: a file is the one whose hash and length were bound.
BoundFile(l) == bundle # None /\ bundle.by = l

\* Mutant: the transition compares the suite and nothing else.
TransitionOfSuite(execution, contract, suite) == contract.suite = suite

\* _verify_execution_contract_transition
Transition(execution, contract, suite) == contract = [execution EXCEPT !.suite = suite]

\* The manifest is read; then _verify_execution_ancestry, _verify_historical_sources
\* and the transition, which look at commits that no longer change.
ReadManifest ==
  /\ vpc = "manifest" /\ BoundFile(held.by)
  /\ held.commit <= HEAD
  /\ Transition(commits[held.commit], held.contract, held.by)
  /\ seen' = seen \cup {bundle.by}
  /\ vpc' = "evidence"
  /\ UNCHANGED <<repo, launcher, child, bundle, deletions, held>>

ReadEvidence ==
  /\ vpc = "evidence" /\ BoundFile(held.by)
  /\ seen' = seen \cup {bundle.by}
  /\ vpc' = "accepted"
  /\ UNCHANGED <<repo, launcher, child, bundle, deletions, held>>

\* It raises, or is called again.
Reverify ==
  /\ vpc # "idle"
  /\ vpc' = "idle" /\ seen' = {} /\ held' = NothingHeld
  /\ UNCHANGED <<repo, launcher, child, bundle, deletions>>
----------------------------------------------------------------------------
LauncherStep(l) == Timeout(l) \/ ReadResponse(l) \/ CheckIdentity(l) \/ CheckReceipt(l)

ChildStep(l) ==
  \/ CheckAuthority(l) \/ MakeStaging(l) \/ BeforeControl(l) \/ AfterControl(l)
  \/ Assemble(l) \/ Sign(l) \/ Publish(l) \/ Settle(l) \/ Answer(l)
  \/ Fail(l) \/ SettleFails(l) \/ TakeBack(l) \/ TakeBackFails(l) \/ Clear(l)

Next ==
  \/ Edit \/ Commit \/ Delete
  \/ \E l \in Launches :
       Launch(l) \/ LauncherStep(l) \/ LauncherDies(l) \/ ChildStep(l) \/ Alter(l)
  \/ ReadReceipt \/ ReadManifest \/ ReadEvidence \/ Reverify

Spec == Init /\ [][Next]_vars

\* A launcher that is scheduled reaches its deadline, whatever its child does.
FairSpec == Spec /\ \A l \in Launches : WF_vars(LauncherStep(l))
----------------------------------------------------------------------------
TypeOK ==
  /\ commits \in Seq(Contract) /\ work \in Contract
  /\ lpc \in [Launches -> {"idle", "wait", "identity", "receipt", "failed", "succeeded"}]
  /\ want \in [Launches -> 1..MaxCommits]
  /\ cpc \in [Launches -> {"off", "check", "mkdir", "before", "after", "assemble", "sign",
                           "publish", "settle", "takeback", "clear", "answer", "done", "dead"}]
  /\ staging \in [Launches -> Staging \cup {None}]
  /\ altered \in [Launches -> BOOLEAN]
  /\ response \in [Launches -> {"none", "published", "rejected"}]
  /\ bundle \in Bundle \cup {None}
  /\ deletions \in 0..MaxDeletions
  /\ vpc \in {"idle", "manifest", "evidence", "accepted"}
  /\ held \in [contract : Contract, by : Launches \cup {None}, commit : 1..MaxCommits]
  /\ seen \subseteq Launches

\* What is at the published path is always a finished bundle: every control, none
\* of them run on a changed runner, the manifest and the receipt, under the fixture
\* contract of the commit it names, whoever was killed and wherever.
PublishedIsWhole ==
  bundle # None =>
    /\ bundle.files = [controls |-> Controls, tainted |-> FALSE,
                       manifest |-> TRUE, receipt |-> TRUE]
    /\ commits[bundle.commit].base = "test_fixture"

\* A published bundle is changed by nobody, and removed only by an operator or by
\* its own producer taking it back; a producer whose bundle an operator deleted
\* may, in that window, take back another's.
PublishedIsFinal ==
  [][bundle # None /\ bundle' # bundle =>
       /\ bundle' = None
       /\ \/ deletions' # deletions
          \/ cpc[bundle.by] = "takeback"
          \/ deletions > 0]_vars

\* A launch that reports success has just seen the bundle of its own child, made
\* for the commit it asked for; a launch whose child was told to stop, or whose
\* child rejected, never does.
LauncherVouches ==
  [][\A l \in Launches : lpc[l] # "succeeded" /\ lpc'[l] = "succeeded" =>
       /\ bundle # None /\ bundle.by = l /\ bundle.commit = want[l]
       /\ response[l] = "published"]_vars

\* An accepted verification read every file from one bundle, although the bundle
\* may be replaced between two reads, and the accepted contract differs from the
\* one the controls ran under by the receipt it adopts and by nothing else.
AcceptedIsOneBundle ==
  vpc = "accepted" =>
    /\ seen = {held.by}
    /\ held.contract.base = commits[held.commit].base

\* Every launch returns, though its child hang.
EveryLaunchEnds ==
  \A l \in Launches : (lpc[l] # "idle") ~> (lpc[l] \in {"failed", "succeeded"})
=============================================================================
