---------------------------- MODULE HandoffCycle ----------------------------
(***************************************************************************)
(* src/fieldtrue/memory_cycle.py: produce_handoff_cycle, which validates   *)
(* the commit at HEAD, commits the evidence, appends the cycle's events to *)
(* the research memory, renders HANDOFF.md, commits both files and has the *)
(* result checked (handoff.py).  The validation receipt comes from         *)
(* validation_producer.py.  Beside the cycles run append_memory            *)
(* (memory.py), which takes a lock the cycle does not take, and a person   *)
(* who edits and commits source, commits what append_memory added, and     *)
(* resets a failed cycle.                                                  *)
(*                                                                         *)
(* A tree of files is a record: `source' is the version of everything but  *)
(* the rest, `records' the research memory, `torn' whether the memory file *)
(* no longer parses, `evidence' each cycle's directory under               *)
(* evidence/validation, and `doc' the last record HANDOFF.md was rendered  *)
(* from.  Hashes are ideal: each record built has a hash of its own.       *)
(***************************************************************************)
EXTENDS Naturals, Sequences

CONSTANTS
  Cycles,       \* invocations of the cycle, each with its own receipt and event IDs
  Appenders,    \* invocations of append_memory, each with its own event ID
  Nobody,       \* the holder of a free lock, and who wrote the first record
  Sources,      \* versions of the source
  FirstSource,  \* the version the history starts with
  Events,       \* the kinds of the events a cycle appends, in order
  MaxCommits,   \* bound on the commits ever made
  MaxHash       \* bound on the records ever built

ASSUME CycleAssumption ==
  /\ Nobody \notin Cycles \cup Appenders
  /\ Cycles \cap Appenders = {}
  /\ FirstSource \in Sources
  /\ Events \in Seq(STRING) /\ Events # <<>>
  /\ \A i \in 1..Len(Events) : Events[i] \notin {"note", "verify"}
  /\ \E i \in 1..Len(Events) : Events[i] = "execution"
  /\ MaxCommits \in Nat /\ MaxHash \in Nat

VARIABLES
  commits,   \* the commits made so far, each with its parent and files
  head,      \* the commit HEAD names
  index,     \* the files the next commit would have
  tree,      \* the files of the working tree
  run,       \* the local state of each cycle
  landed,    \* what the cycles that succeeded returned
  lock,      \* holder of the lock append_memory takes
  note,      \* the local state of each append_memory
  minted     \* hashes given out so far

vars == <<commits, head, index, tree, run, landed, lock, note, minted>>
git == <<commits, head, index>>
notes == <<lock, note>>

Genesis == 0
Unbound == [implementation |-> 0, evidence |-> 0]
NoReceipt == [result |-> "none", subject |-> 0, tested |-> FirstSource]
Receipt == [result : {"none", "logs", "pass", "fail"}, subject : Nat, tested : Sources]

\* A record's event ID is its writer and kind; only the checkpoint binds commits.
FirstRecord == [hash |-> 1, seq |-> 0, prev |-> Genesis, by |-> Nobody,
                kind |-> "handoff", binds |-> Unbound]
FirstFiles == [source |-> FirstSource, records |-> <<FirstRecord>>, torn |-> FALSE,
               evidence |-> [c \in Cycles |-> NoReceipt], doc |-> 1]

Idle == [pc |-> "idle", implementation |-> 0, subject |-> 0, tested |-> FirstSource,
         evidence |-> 0, final |-> 0, next |-> 1, last |-> [hash |-> Genesis, seq |-> 0]]
Quiet == [pc |-> "idle", saw |-> <<>>]

Init ==
  /\ commits = <<[parent |-> 0, files |-> FirstFiles]>>
  /\ head = 1
  /\ index = FirstFiles /\ tree = FirstFiles
  /\ run = [c \in Cycles |-> Idle]
  /\ landed = {}
  /\ lock = Nobody
  /\ note = [a \in Appenders |-> Quiet]
  /\ minted = 1
----------------------------------------------------------------------------
Files(commit) == commits[commit].files

\* git status --porcelain prints nothing.
Clean == tree = Files(head) /\ index = Files(head)

\* _verify_records: contiguous, chained, no event ID twice.
Verified(records) ==
  /\ \A i \in 1..Len(records) :
       /\ records[i].seq = i - 1
       /\ records[i].prev = IF i = 1 THEN Genesis ELSE records[i - 1].hash
  /\ \A i, j \in 1..Len(records) :
       records[i].by = records[j].by /\ records[i].kind = records[j].kind => i = j

\* load_memory_records accepts a memory file with these contents.
Loads(files) == ~files.torn /\ Verified(files.records)

Extends(longer, shorter) ==
  Len(shorter) <= Len(longer) /\ SubSeq(longer, 1, Len(shorter)) = shorter

LastOf(s) == s[Len(s)]

\* git commit: what is staged becomes a child of HEAD.  Nothing staged is an error.
Commit(files) ==
  /\ files # Files(head) /\ Len(commits) < MaxCommits
  /\ commits' = Append(commits, [parent |-> head, files |-> files])
  /\ head' = Len(commits) + 1

At(c, label) == run[c].pc = label
Step(c, label) == run' = [run EXCEPT ![c].pc = label]
----------------------------------------------------------------------------
\* The cycle starts on a clean tree and notes the implementation commit.
Begin(c) ==
  /\ At(c, "idle") /\ Clean
  /\ run' = [run EXCEPT ![c].pc = "load", ![c].implementation = head]
  /\ UNCHANGED <<git, tree, landed, notes, minted>>

\* _load_ledger: the only time the cycle reads the memory.
Load(c) ==
  /\ At(c, "load") /\ Loads(tree)
  /\ run' = [run EXCEPT ![c].pc = "observe", ![c].last =
               [hash |-> LastOf(tree.records).hash, seq |-> LastOf(tree.records).seq]]
  /\ UNCHANGED <<git, tree, landed, notes, minted>>

\* produce_validation_receipt: a clean tree again, the subject, the first logs.
Observe(c) ==
  /\ At(c, "observe") /\ Clean
  /\ run' = [run EXCEPT ![c].pc = "test", ![c].subject = head]
  /\ tree' = [tree EXCEPT !.evidence[c].result = "logs"]
  /\ UNCHANGED <<git, landed, notes, minted>>

\* The plan's commands read the working tree.
Test(c) ==
  /\ At(c, "test")
  /\ run' = [run EXCEPT ![c].pc = "confirm", ![c].tested = tree.source]
  /\ UNCHANGED <<git, tree, landed, notes, minted>>

\* Nothing but this run's evidence may differ from HEAD when the plan has ended.
OnlyEvidence(c) ==
  \A files \in {tree, index} :
    files = [Files(head) EXCEPT !.evidence[c] = files.evidence[c]]

\* The receipt is written; one that failed or names another commit ends the cycle.
Confirm(c, result) ==
  /\ At(c, "confirm")
  /\ head = run[c].subject /\ OnlyEvidence(c)
  /\ tree' = [tree EXCEPT !.evidence[c] =
                [result |-> result, subject |-> run[c].subject, tested |-> run[c].tested]]
  /\ IF result = "pass" /\ run[c].subject = run[c].implementation
     THEN Step(c, "stage evidence")
     ELSE run' = [run EXCEPT ![c] = Idle]
  /\ UNCHANGED <<git, landed, notes, minted>>

\* git add evidence/validation/<receipt> ...
StageEvidence(c) ==
  /\ At(c, "stage evidence")
  /\ index' = [index EXCEPT !.evidence[c] = tree.evidence[c]]
  /\ Step(c, "commit evidence")
  /\ UNCHANGED <<commits, head, tree, landed, notes, minted>>

\* ... and git commit, which takes whatever else is staged along.
CommitEvidence(c) ==
  /\ At(c, "commit evidence")
  /\ Commit(index)
  /\ Step(c, "note evidence")
  /\ UNCHANGED <<index, tree, landed, notes, minted>>

\* git rev-parse HEAD
NoteEvidence(c) ==
  /\ At(c, "note evidence")
  /\ run' = [run EXCEPT ![c].pc = "append", ![c].evidence = head]
  /\ UNCHANGED <<git, tree, landed, notes, minted>>

\* The next event: the finding, corrections if the cycle was asked for any, the
\* resource, the execution checkpoint, the handoff.
EventOf(c) ==
  [hash |-> minted + 1, seq |-> run[c].last.seq + 1, prev |-> run[c].last.hash,
   by |-> c, kind |-> Events[run[c].next],
   binds |-> IF Events[run[c].next] = "execution"
             THEN [implementation |-> run[c].implementation, evidence |-> run[c].evidence]
             ELSE Unbound]

\* Mutant: the file is rewritten from the records its writer once read.
WrittenBack(record) ==
  [tree EXCEPT !.records = Append(SubSeq(@, 1, record.seq), record)]

\* A line written after a torn one belongs to it.
Written(record) ==
  IF tree.torn THEN tree ELSE [tree EXCEPT !.records = Append(@, record)]

\* _append_event chains to the event this cycle appended last, not to the file's
\* last, and takes no lock.
AppendEvent(c) ==
  /\ At(c, "append")
  /\ minted < MaxHash
  /\ tree' = Written(EventOf(c))
  /\ minted' = minted + 1
  /\ run' = [run EXCEPT ![c].pc = IF run[c].next = Len(Events) THEN "verify" ELSE "append",
                        ![c].next = @ + 1,
                        ![c].last = [hash |-> minted + 1, seq |-> run[c].last.seq + 1]]
  /\ UNCHANGED <<git, landed, notes>>

\* inbar memory verify
VerifyMemory(c) ==
  /\ At(c, "verify") /\ Loads(tree)
  /\ Step(c, "render")
  /\ UNCHANGED <<git, tree, landed, notes, minted>>

\* The commits bound by the checkpoint the last record, a handoff, links.
Checkpoint(records) ==
  LET by == LastOf(records).by
  IN  (CHOOSE r \in {records[i] : i \in 1..Len(records)} :
         r.by = by /\ r.kind = "execution").binds

\* _verify_checkpoint_v2_receipt: the evidence commit is the child of its subject,
\* changes one receipt only, and that receipt passed on that subject.
EvidenceHolds(c, bound) ==
  LET receipt == Files(bound.evidence).evidence[c]
  IN  /\ commits[bound.evidence].parent = bound.implementation
      /\ Files(bound.evidence) = [Files(bound.implementation) EXCEPT !.evidence[c] = receipt]
      /\ receipt.result = "pass" /\ receipt.subject = bound.implementation
      /\ tree.evidence[c] = receipt

\* _verify_v2_final_handoff_commit: a single-parent child of the evidence commit
\* that changes the memory and the handoff and only appends to the memory.  (No
\* merges here, so no integration wrapper.)
IsFinal(commit, evidence) ==
  /\ commits[commit].parent = evidence
  /\ Files(commit) = [Files(evidence) EXCEPT !.records = Files(commit).records,
                                             !.torn = Files(commit).torn,
                                             !.doc = Files(commit).doc]
  /\ Files(commit).doc # Files(evidence).doc
  /\ Extends(Files(commit).records, Files(evidence).records)
  /\ Files(commit).records # Files(evidence).records

\* _verify_v2_checkout_state: at the evidence commit with nothing but the memory
\* and the handoff changed, or at its final commit with nothing changed.
CheckoutHolds(evidence) ==
  IF head = evidence
  THEN \A files \in {tree, index} :
         files = [Files(head) EXCEPT !.records = files.records, !.torn = files.torn,
                                     !.doc = files.doc]
  ELSE IsFinal(head, evidence) /\ Clean

\* What rendering demands of the memory and of the commits it binds.
Renders ==
  /\ Loads(tree)
  /\ LastOf(tree.records).kind = "handoff" /\ LastOf(tree.records).by \in Cycles
  /\ EvidenceHolds(LastOf(tree.records).by, Checkpoint(tree.records))
  /\ CheckoutHolds(Checkpoint(tree.records).evidence)

\* inbar handoff render: write_handoff renders, replaces HANDOFF.md, renders again.
Render(c) ==
  /\ At(c, "render") /\ Renders
  /\ tree' = [tree EXCEPT !.doc = LastOf(tree.records).hash]
  /\ Step(c, "stage")
  /\ UNCHANGED <<git, landed, notes, minted>>

\* git add of the memory and the handoff, as they are now; anything else staged, or
\* one of the two unchanged, ends the cycle.
Stage(c) ==
  /\ At(c, "stage")
  /\ index' = [index EXCEPT !.records = tree.records, !.torn = tree.torn, !.doc = tree.doc]
  /\ IF /\ index' = [Files(head) EXCEPT !.records = tree.records, !.torn = tree.torn,
                                        !.doc = tree.doc]
        /\ <<tree.records, tree.torn>> # <<Files(head).records, Files(head).torn>>
        /\ tree.doc # Files(head).doc
     THEN Step(c, "commit final")
     ELSE run' = [run EXCEPT ![c] = Idle]
  /\ UNCHANGED <<commits, head, tree, landed, notes, minted>>

CommitFinal(c) ==
  /\ At(c, "commit final")
  /\ Commit(index)
  /\ Step(c, "note final")
  /\ UNCHANGED <<index, tree, landed, notes, minted>>

NoteFinal(c) ==
  /\ At(c, "note final")
  /\ run' = [run EXCEPT ![c].pc = "check", ![c].final = head]
  /\ UNCHANGED <<git, tree, landed, notes, minted>>

\* Mutant: the check compares the document and the checkout, not the topology.
ChecksDocumentOnly == tree.doc = LastOf(tree.records).hash /\ Clean

\* inbar handoff check: HANDOFF.md is what renders, HEAD is the final commit of the
\* evidence the memory binds, and the tree is clean.
Checks ==
  /\ Renders /\ tree.doc = LastOf(tree.records).hash
  /\ head # Checkpoint(tree.records).evidence
  /\ Clean

Returned(c) ==
  [implementation |-> run[c].implementation, evidence |-> run[c].evidence,
   final |-> run[c].final, receipt |-> c]

\* Mutant: the cycle reports success without the check.
SucceedUnchecked(c) ==
  /\ At(c, "check")
  /\ landed' = landed \cup {Returned(c)}
  /\ run' = [run EXCEPT ![c] = Idle]
  /\ UNCHANGED <<git, tree, notes, minted>>

Succeed(c) ==
  /\ At(c, "check") /\ Checks
  /\ landed' = landed \cup {Returned(c)}
  /\ run' = [run EXCEPT ![c] = Idle]
  /\ UNCHANGED <<git, tree, notes, minted>>

\* The cycle ends where it is: a crash, a refused step, a failed command.
Stop(c) ==
  /\ ~At(c, "idle")
  /\ run' = [run EXCEPT ![c] = Idle]
  /\ UNCHANGED <<git, tree, landed, notes, minted>>

\* The cycle ends while it writes a line of the memory.
StopWriting(c) ==
  /\ At(c, "append")
  /\ tree' = [tree EXCEPT !.torn = TRUE]
  /\ run' = [run EXCEPT ![c] = Idle]
  /\ UNCHANGED <<git, landed, notes, minted>>
----------------------------------------------------------------------------
\* append_memory locks, reads and verifies the file ...
ReadMemory(a) ==
  /\ note[a].pc = "idle" /\ lock = Nobody
  /\ Loads(tree)
  /\ \A i \in 1..Len(tree.records) : tree.records[i].by # a
  /\ lock' = a
  /\ note' = [note EXCEPT ![a] = [pc |-> "read", saw |-> tree.records]]
  /\ UNCHANGED <<git, tree, run, landed, minted>>

\* ... appends one record to what the file holds now, chained to what it read,
\* compares the size with what it expects, and returns or raises.
WriteMemory(a) ==
  /\ note[a].pc = "read" /\ minted < MaxHash
  /\ tree' = Written([hash |-> minted + 1, seq |-> Len(note[a].saw),
                      prev |-> LastOf(note[a].saw).hash, by |-> a, kind |-> "note",
                      binds |-> Unbound])
  /\ minted' = minted + 1
  /\ lock' = Nobody
  /\ note' = [note EXCEPT ![a] = Quiet]
  /\ UNCHANGED <<git, run, landed>>

\* append_memory ends before it writes, or while it does.
StopNote(a, torn) ==
  /\ note[a].pc = "read"
  /\ tree' = [tree EXCEPT !.torn = @ \/ torn]
  /\ lock' = Nobody
  /\ note' = [note EXCEPT ![a] = Quiet]
  /\ UNCHANGED <<git, run, landed, minted>>
----------------------------------------------------------------------------
\* A person changes the source, perhaps back again ...
Edit(s) ==
  /\ s # tree.source
  /\ tree' = [tree EXCEPT !.source = s]
  /\ UNCHANGED <<git, run, landed, notes, minted>>

\* ... and commits it by its path.
Save ==
  /\ tree.source # Files(head).source
  /\ Commit([Files(head) EXCEPT !.source = tree.source])
  /\ index' = [index EXCEPT !.source = tree.source]
  /\ UNCHANGED <<tree, run, landed, notes, minted>>

Resting == lock = Nobody /\ \A c \in Cycles : At(c, "idle")

\* Between cycles, a person commits a memory that verifies.
SaveMemory ==
  /\ Resting
  /\ Loads(tree)
  /\ Commit([Files(head) EXCEPT !.records = tree.records, !.torn = FALSE])
  /\ index' = [index EXCEPT !.records = tree.records, !.torn = FALSE]
  /\ UNCHANGED <<tree, run, landed, notes, minted>>

\* Between cycles, git reset --hard and git clean, to HEAD or to where a failed
\* cycle began; what has landed is not reset away.
Ancestor(older, newer) ==
  LET up[i \in 1..Len(commits)] == i = older \/ (i > 1 /\ up[commits[i].parent])
  IN  up[newer]

Reset(commit) ==
  /\ Resting
  /\ Ancestor(commit, head)
  /\ \A l \in landed : Ancestor(l.final, commit)
  /\ head' = commit
  /\ index' = Files(commit) /\ tree' = Files(commit)
  /\ UNCHANGED <<commits, run, landed, notes, minted>>

Work(c) ==
  \/ Begin(c) \/ Load(c) \/ Observe(c) \/ Test(c)
  \/ Confirm(c, "pass") \/ Confirm(c, "fail")
  \/ StageEvidence(c) \/ CommitEvidence(c) \/ NoteEvidence(c)
  \/ AppendEvent(c) \/ VerifyMemory(c) \/ Render(c) \/ Stage(c)
  \/ CommitFinal(c) \/ NoteFinal(c) \/ Succeed(c)
  \/ Stop(c) \/ StopWriting(c)

Next ==
  \/ \E c \in Cycles : Work(c)
  \/ \E a \in Appenders : \/ ReadMemory(a) \/ WriteMemory(a)
                          \/ \E torn \in BOOLEAN : StopNote(a, torn)
  \/ \E s \in Sources : Edit(s)
  \/ Save \/ SaveMemory
  \/ \E commit \in 1..Len(commits) : Reset(commit)

Spec == Init /\ [][Next]_vars
----------------------------------------------------------------------------
Record ==
  [hash : Nat, seq : Nat, prev : Nat, by : Cycles \cup Appenders \cup {Nobody},
   kind : {Events[i] : i \in 1..Len(Events)} \cup {"handoff", "note"}, binds : [implementation : Nat, evidence : Nat]]

FileSet ==
  [source : Sources, records : Seq(Record), torn : BOOLEAN,
   evidence : [Cycles -> Receipt], doc : Nat]

TypeOK ==
  /\ commits \in Seq([parent : Nat, files : FileSet])
  /\ head \in 1..Len(commits)
  /\ index \in FileSet /\ tree \in FileSet
  /\ \A c \in Cycles :
       /\ {run[c].implementation, run[c].subject, run[c].evidence, run[c].final}
            \subseteq 0..Len(commits)
       /\ run[c].tested \in Sources
  /\ landed \subseteq [implementation : Nat, evidence : Nat, final : Nat, receipt : Cycles]
  /\ lock \in Appenders \cup {Nobody}
  /\ \A a \in Appenders : note[a].saw \in Seq(Record)
  /\ minted \in Nat

Binds(l) == [implementation |-> l.implementation, evidence |-> l.evidence]

\* The memory has a cycle's checkpoint, which binds these commits.
Bears(records, c, binds) ==
  \E i \in 1..Len(records) :
    records[i].by = c /\ records[i].kind = "execution" /\ records[i].binds = binds

\* A commit that ends a handoff: directly on top of the evidence its memory's last
\* record, a handoff, binds, which is the child of its implementation; with a memory
\* that verifies and extends the evidence's, the document rendered from it, and a
\* passing receipt for the implementation.
Finished(commit) ==
  LET files == Files(commit)
      c == LastOf(files.records).by
      bound == Checkpoint(files.records)
  IN  /\ Loads(files) /\ LastOf(files.records).kind = "handoff" /\ c \in Cycles
      /\ IsFinal(commit, bound.evidence)
      /\ commits[bound.evidence].parent = bound.implementation
      /\ files.doc = LastOf(files.records).hash
      /\ files.evidence[c].result = "pass"
      /\ files.evidence[c].subject = bound.implementation

\* A cycle that succeeds leaves its events in a finished handoff at or after the
\* commits it returns, which follow each other; and if that handoff is its own, it
\* is the final commit returned.
LandedIsSound ==
  \A l \in landed :
    /\ Ancestor(l.implementation, l.evidence) /\ Ancestor(l.evidence, l.final)
    /\ \E commit \in 1..Len(commits) :
         /\ Ancestor(l.final, commit) /\ Finished(commit)
         /\ Bears(Files(commit).records, l.receipt, Binds(l))
         /\ LastOf(Files(commit).records).by = l.receipt => commit = l.final

\* A cycle that succeeds has finished its own handoff at or before the final commit
\* it returns.
OwnHandoffIsFinished ==
  \A l \in landed : \E commit \in 1..Len(commits) :
    /\ Ancestor(commit, l.final) /\ Finished(commit)
    /\ Checkpoint(Files(commit).records) = Binds(l)

\* The history never rewrites a byte of the memory: every commit's memory extends
\* its parent's, also the commits of cycles that failed, and a torn last line stays.
HistoryIsAppendOnly ==
  \A i \in 2..Len(commits) :
    LET before == Files(commits[i].parent)
    IN  /\ Extends(Files(i).records, before.records)
        /\ before.torn => Files(i).torn /\ Files(i).records = before.records

\* A committed receipt describes the commit it names: the source its plan ran on is
\* that commit's source.
ReceiptBindsTestedTree ==
  \A i \in 1..Len(commits), c \in Cycles :
    LET receipt == Files(i).evidence[c]
    IN  receipt.result = "pass" => receipt.tested = Files(receipt.subject).source
=============================================================================
