-------------------------- MODULE RepositoryProofs --------------------------
(***************************************************************************)
(* Proofs about what runs on one repository, for every bound on what       *)
(* others do beside it: the cycles of HandoffCycle, for every set of       *)
(* cycles, appenders and sources and every list of events; the binding of  *)
(* a preregistration; and the rendering of the handoff document.           *)
(***************************************************************************)
EXTENDS RepositoryParts, SequenceTheorems, WellFoundedInduction, TLAPS

(***************************************************************************)
(* HandoffCycle.                                                           *)
(***************************************************************************)

-----------------------------------------------------------------------------
(* Where a cycle is, with the types of what it noted.  A cycle that has not  *)
(* appended all its events has one to append.                                *)
Places == {"idle", "load", "observe", "test", "confirm", "stage evidence", "commit evidence",
           "note evidence", "append", "verify", "render", "stage", "commit final",
           "note final", "check"}
EarlyPlaces == Places \ {"verify", "render", "stage", "commit final", "note final", "check"}

RunState ==
  [pc : Places, implementation : Nat, subject : Nat, tested : Sources, evidence : Nat,
   final : Nat, next : Nat, last : [hash : Nat, seq : Nat]]

Noted(state) == {state.implementation, state.subject, state.evidence, state.final}

Runs ==
  /\ run \in [Cycles -> RunState]
  /\ \A c \in Cycles :
       /\ run[c].pc \in EarlyPlaces => run[c].next \in 1..Len(Events)
       /\ Noted(run[c]) \subseteq 0..Len(commits)

\* What an append_memory that has the lock read was not empty; no memory ever is.
Remembers(files) == files.records # <<>>
Memories ==
  /\ Remembers(tree) /\ Remembers(index)
  /\ \A i \in 1..Len(commits) : Remembers(Files(i))
  /\ note \in [Appenders -> [pc : {"idle", "read"}, saw : Seq(Record)]]
  /\ \A a \in Appenders : note[a].pc = "read" => note[a].saw # <<>>

\* One file's memory goes on from another's; nothing goes on from a torn line.
Continues(later, earlier) ==
  /\ Extends(later.records, earlier.records)
  /\ earlier.torn => later.torn /\ later.records = earlier.records

\* The memory grows from HEAD to the index to the working tree, and every commit
\* goes on from its parent.
Grows ==
  /\ Continues(tree, index) /\ Continues(index, Files(head))
  /\ \A i \in 2..Len(commits) :
       commits[i].parent \in 1..(i - 1) /\ Continues(Files(i), Files(commits[i].parent))

\* The inductive invariant.
HandoffInv == TypeOK /\ Runs /\ Memories /\ Grows

-----------------------------------------------------------------------------
(* Sequences and sets of files.                                              *)

LEMMA ExtendsByElement ==
  ASSUME NEW S, NEW s \in Seq(S), NEW t \in Seq(S)
  PROVE  Extends(t, s) <=> Len(s) <= Len(t) /\ \A i \in 1..Len(s) : t[i] = s[i]
<1> SUFFICES ASSUME Len(s) <= Len(t)
             PROVE  SubSeq(t, 1, Len(s)) = s <=> \A i \in 1..Len(s) : t[i] = s[i]
  BY DEF Extends
<1> DEFINE p == SubSeq(t, 1, Len(s))
<1>1. Len(s) \in Nat /\ Len(t) \in Nat
  BY LenProperties
<1>2. \A i \in 1..Len(s) : t[i] \in S
  BY <1>1, ElementOfSeq
<1>3. p \in Seq(S) /\ Len(p) = Len(s) /\ \A i \in 1..Len(s) : p[i] = t[i]
  BY <1>1, <1>2, SubSeqProperties
<1> HIDE DEF p
<1>4. p = s <=> \A i \in 1..Len(s) : p[i] = s[i]
  BY <1>3, SeqEqual
<1>5. QED
  BY <1>3, <1>4 DEF p

LEMMA ContinuesReflexive ==
  ASSUME NEW f \in FileSet PROVE Continues(f, f)
BY ExtendsByElement DEF Continues, FileSet

LEMMA ContinuesTransitive ==
  ASSUME NEW f \in FileSet, NEW g \in FileSet, NEW h \in FileSet, Continues(h, g), Continues(g, f)
  PROVE  Continues(h, f)
<1> DEFINE a == f.records
           b == g.records
           d == h.records
<1>1. a \in Seq(Record) /\ b \in Seq(Record) /\ d \in Seq(Record)
  BY DEF FileSet
<1>2. Len(a) \in Nat /\ Len(b) \in Nat /\ Len(d) \in Nat
  BY <1>1, LenProperties
<1>3. Extends(d, b) /\ Extends(b, a)
  BY DEF Continues
<1> HIDE DEF a, b, d
<1>4. Extends(d, a)
  <2>1. Len(b) <= Len(d) /\ \A i \in 1..Len(b) : d[i] = b[i]
    BY <1>1, <1>3, ExtendsByElement
  <2>2. Len(a) <= Len(b) /\ \A i \in 1..Len(a) : b[i] = a[i]
    BY <1>1, <1>3, ExtendsByElement
  <2>3. Len(a) <= Len(d) /\ \A i \in 1..Len(a) : d[i] = a[i]
    BY <1>2, <2>1, <2>2
  <2>4. QED
    BY <1>1, <2>3, ExtendsByElement
<1>5. QED
  BY <1>4 DEF Continues, a, b, d

\* Continues looks at the memory only.
LEMMA ContinuesOfMemory ==
  ASSUME NEW f, NEW g, NEW h, NEW k, Continues(g, f),
         h.records = f.records, h.torn = f.torn, k.records = g.records, k.torn = g.torn
  PROVE  Continues(k, h)
BY DEF Continues

LEMMA SourceUpdated ==
  ASSUME NEW f \in FileSet, NEW s \in Sources
  PROVE  LET g == [f EXCEPT !.source = s]
         IN  g \in FileSet /\ g.records = f.records /\ g.torn = f.torn
BY DEF FileSet

LEMMA DocUpdated ==
  ASSUME NEW f \in FileSet, NEW doc \in Nat
  PROVE  LET g == [f EXCEPT !.doc = doc]
         IN  g \in FileSet /\ g.records = f.records /\ g.torn = f.torn
BY DEF FileSet

LEMMA TornUpdated ==
  ASSUME NEW f \in FileSet, NEW torn \in BOOLEAN
  PROVE  LET g == [f EXCEPT !.torn = torn]
         IN  g \in FileSet /\ g.records = f.records /\ g.torn = torn
BY DEF FileSet

LEMMA MemoryUpdated ==
  ASSUME NEW f \in FileSet, NEW rs \in Seq(Record), NEW torn \in BOOLEAN
  PROVE  LET g == [f EXCEPT !.records = rs, !.torn = torn]
         IN  g \in FileSet /\ g.records = rs /\ g.torn = torn
BY DEF FileSet

LEMMA EvidenceUpdated ==
  ASSUME NEW f \in FileSet, NEW c \in Cycles, NEW receipt \in Receipt
  PROVE  /\ [f EXCEPT !.evidence[c] = receipt] \in FileSet
         /\ [f EXCEPT !.evidence[c] = receipt].records = f.records
         /\ [f EXCEPT !.evidence[c] = receipt].torn = f.torn
         /\ [f EXCEPT !.evidence[c].result = "logs"] \in FileSet
         /\ [f EXCEPT !.evidence[c].result = "logs"].records = f.records
         /\ [f EXCEPT !.evidence[c].result = "logs"].torn = f.torn
<1>1. f.evidence \in [Cycles -> Receipt]
  BY DEF FileSet
<1>2. ASSUME NEW es \in [Cycles -> Receipt]
      PROVE  /\ [f EXCEPT !.evidence = es] \in FileSet
             /\ [f EXCEPT !.evidence = es].records = f.records
             /\ [f EXCEPT !.evidence = es].torn = f.torn
  BY DEF FileSet
<1>3. [f.evidence EXCEPT ![c] = receipt] \in [Cycles -> Receipt]
  BY <1>1
<1>4. [f.evidence EXCEPT ![c].result = "logs"] \in [Cycles -> Receipt]
  BY <1>1 DEF Receipt
<1>5. QED
  BY <1>2, <1>3, <1>4

\* A record appended to what is there goes on from it; so does a torn line.
LEMMA WrittenContinues ==
  ASSUME tree \in FileSet, Remembers(tree), NEW r \in Record
  PROVE  Written(r) \in FileSet /\ Remembers(Written(r)) /\ Continues(Written(r), tree)
<1> DEFINE longer == Append(tree.records, r)
           new == [tree EXCEPT !.records = longer]
<1>1. tree.records \in Seq(Record) /\ tree.torn \in BOOLEAN
  BY DEF FileSet
<1>2. /\ longer \in Seq(Record) /\ longer # <<>> /\ Len(longer) = Len(tree.records) + 1
      /\ \A i \in 1..Len(tree.records) : longer[i] = tree.records[i]
  BY <1>1, AppendProperties
<1>3. Extends(longer, tree.records)
  <2>1. Len(tree.records) \in Nat
    BY <1>1, LenProperties
  <2>2. Len(tree.records) <= Len(longer)
    BY <1>2, <2>1
  <2> HIDE DEF longer
  <2>3. QED
    BY <1>1, <1>2, <2>2, ExtendsByElement
<1> HIDE DEF longer
<1>4. new \in FileSet /\ new.records = longer /\ new.torn = tree.torn
  BY <1>2 DEF FileSet
<1>5. CASE tree.torn
  BY <1>5, ContinuesReflexive DEF Written
<1>6. CASE ~tree.torn
  <2>1. Written(r) = new
    BY <1>6 DEF Written, longer
  <2> HIDE DEF new
  <2>2. QED
    BY <1>2, <1>3, <1>4, <1>6, <2>1 DEF Continues, Remembers
<1>7. QED
  BY <1>1, <1>5, <1>6

LEMMA TornContinues ==
  ASSUME NEW f \in FileSet, NEW torn \in BOOLEAN, f.torn => torn
  PROVE  Continues([f EXCEPT !.torn = torn], f)
<1> DEFINE g == [f EXCEPT !.torn = torn]
<1>1. g.records = f.records /\ g.torn = torn /\ f.records \in Seq(Record)
  BY DEF FileSet
<1> HIDE DEF g
<1>2. Extends(f.records, f.records)
  BY ContinuesReflexive DEF Continues
<1>3. QED
  BY <1>1, <1>2 DEF Continues, g

-----------------------------------------------------------------------------
(* What a step may do to the repository, and why the memory still grows.     *)

\* The part of the invariant that is about the commits, the index and the tree.
Repository ==
  /\ commits \in Seq([parent : Nat, files : FileSet]) /\ head \in 1..Len(commits)
  /\ index \in FileSet /\ tree \in FileSet
  /\ Remembers(tree) /\ Remembers(index) /\ \A i \in 1..Len(commits) : Remembers(Files(i))
  /\ Grows

LEMMA FilesTyped ==
  ASSUME commits \in Seq([parent : Nat, files : FileSet])
  PROVE  Len(commits) \in Nat /\ \A i \in 1..Len(commits) : Files(i) \in FileSet
<1>1. \A i \in 1..Len(commits) : commits[i] \in [parent : Nat, files : FileSet]
  BY ElementOfSeq
<1>2. \A r \in [parent : Nat, files : FileSet] : r.files \in FileSet
  OBVIOUS
<1>3. QED
  BY <1>1, <1>2, LenProperties DEF Files

LEMMA TreeChanges ==
  ASSUME Repository, UNCHANGED git, tree' \in FileSet, Remembers(tree'), Continues(tree', tree)
  PROVE  Repository'
<1>1. Continues(tree', index)
  BY ContinuesTransitive DEF Repository, Grows
<1>2. QED
  BY <1>1 DEF Repository, Grows, git, Files

\* What is staged is as long as the index was, or as the tree is.
LEMMA IndexChanges ==
  ASSUME Repository, UNCHANGED <<commits, head, tree>>, index' \in FileSet,
         \/ index'.records = index.records /\ index'.torn = index.torn
         \/ index'.records = tree.records /\ index'.torn = tree.torn
  PROVE  Repository'
<1>1. Files(head) \in FileSet
  BY FilesTyped DEF Repository
<1>2. Continues(tree, index) /\ Continues(index, Files(head)) /\ Continues(tree, tree)
      /\ Continues(tree, Files(head))
  BY <1>1, ContinuesTransitive, ContinuesReflexive DEF Repository, Grows
<1>3. Continues(tree, index') /\ Continues(index', Files(head)) /\ Remembers(index')
  BY <1>2 DEF Continues, Remembers, Repository
<1>4. QED
  BY <1>3 DEF Repository, Grows, Files

LEMMA CommitAdds ==
  ASSUME Repository, NEW files \in FileSet, Commit(files), UNCHANGED tree,
         Remembers(files), Continues(files, Files(head)),
         index' \in FileSet, Remembers(index'), Continues(tree, index'), Continues(index', files)
  PROVE  Repository' /\ Len(commits') = Len(commits) + 1
<1> DEFINE new == [parent |-> head, files |-> files]
<1>1. commits \in Seq([parent : Nat, files : FileSet]) /\ Len(commits) \in Nat
      /\ head \in 1..Len(commits)
  BY FilesTyped DEF Repository
<1>2. new \in [parent : Nat, files : FileSet] /\ new.parent = head /\ new.files = files
  BY <1>1
<1>3. commits' = Append(commits, new) /\ head' = Len(commits) + 1
  BY DEF Commit
<1> HIDE DEF new
<1>4. /\ commits' \in Seq([parent : Nat, files : FileSet]) /\ Len(commits') = Len(commits) + 1
      /\ commits'[Len(commits) + 1] = new
      /\ \A i \in 1..Len(commits) : commits'[i] = commits[i]
  BY <1>1, <1>2, <1>3, AppendProperties
<1>5. Files(head)' = files
  BY <1>2, <1>3, <1>4 DEF Files
<1>6. \A i \in 1..Len(commits) : Files(i)' = Files(i)
  BY <1>4 DEF Files
<1>7. ASSUME NEW i \in 2..Len(commits')
      PROVE  commits'[i].parent \in 1..(i - 1) /\ Continues(Files(i)', Files(commits[i].parent)')
  <2>1. CASE i = Len(commits) + 1
    <3>1. commits'[i].parent = head /\ Files(i)' = files /\ Files(head)' = files
      BY <1>2, <1>4, <1>5, <2>1 DEF Files
    <3>2. commits[head] = commits'[head]
      BY <1>1, <1>4
    <3>3. QED
      BY <1>1, <2>1, <3>1, <3>2, <1>4 DEF Files
  <2>2. CASE i # Len(commits) + 1
    <3>0. i \in 2..(Len(commits) + 1)
      BY <1>4
    <3>1. i \in 2..Len(commits) /\ i \in 1..Len(commits)
      BY <1>1, <2>2, <3>0
    <3>2. commits'[i] = commits[i]
      BY <1>4, <3>1
    <3>3. commits[i].parent \in 1..(i - 1) /\ Continues(Files(i), Files(commits[i].parent))
      BY <3>1 DEF Repository, Grows
    <3>4. commits[i].parent \in 1..Len(commits)
      BY <1>1, <3>1, <3>3
    <3>5. Files(i)' = Files(i) /\ Files(commits[i].parent)' = Files(commits[i].parent)
      BY <1>4, <3>1, <3>2, <3>4 DEF Files
    <3>6. QED
      BY <3>2, <3>3, <3>5
  <2>3. QED
    BY <2>1, <2>2
<1>8. Grows'
  BY <1>5, <1>7 DEF Grows
<1>9. \A i \in 1..Len(commits') : Remembers(Files(i)')
  <2>1. ASSUME NEW i \in 1..Len(commits')
        PROVE  Remembers(Files(i)')
    <3>1. CASE i = Len(commits) + 1
      <4>1. Files(i)' = files
        BY <1>2, <1>4, <3>1 DEF Files
      <4>2. QED
        BY <4>1
    <3>2. CASE i # Len(commits) + 1
      <4>1. i \in 1..Len(commits)
        <5>1. Len(commits') = Len(commits) + 1 /\ Len(commits) \in Nat
          BY <1>1, <1>4
        <5>2. QED
          BY <5>1, <3>2
      <4>2. QED
        BY <1>6, <4>1 DEF Repository
    <3>3. QED
      BY <3>1, <3>2
  <2>2. QED
    BY <2>1
<1>10. QED
  BY <1>1, <1>3, <1>4, <1>8, <1>9 DEF Repository

LEMMA ResetReturns ==
  ASSUME Repository, NEW commit \in 1..Len(commits), UNCHANGED commits,
         head' = commit, index' = Files(commit), tree' = Files(commit)
  PROVE  Repository'
<1>1. Files(commit) \in FileSet /\ Files(commit)' = Files(commit)
  BY FilesTyped DEF Repository, Files
<1>2. QED
  BY <1>1, ContinuesReflexive DEF Repository, Grows, Files

LEMMA InvGivesRepository == HandoffInv => Repository
BY DEF HandoffInv, TypeOK, Memories, Grows, Repository

\* The last record of a memory is a record.
LEMMA LastTyped ==
  ASSUME NEW s \in Seq(Record), s # <<>>
  PROVE  LastOf(s) \in Record /\ LastOf(s).hash \in Nat /\ LastOf(s).seq \in Nat
<1>1. Len(s) \in 1..Len(s) /\ Len(s) \in Nat
  BY EmptySeq, LenProperties
<1>2. LastOf(s) \in Record
  BY <1>1, ElementOfSeq DEF LastOf
<1>3. QED
  BY <1>2 DEF Record

LEMMA EventTyped ==
  ASSUME HandoffInv, NEW c \in Cycles, run[c].pc \in EarlyPlaces
  PROVE  EventOf(c) \in Record
<1>1. /\ run[c].last.seq \in Nat /\ run[c].last.hash \in Nat /\ run[c].next \in 1..Len(Events)
      /\ run[c].implementation \in Nat /\ run[c].evidence \in Nat /\ minted \in Nat
  BY DEF HandoffInv, TypeOK, Runs, RunState
<1>2. Events[run[c].next] \in {Events[i] : i \in 1..Len(Events)}
  BY <1>1
<1>3. Unbound \in [implementation : Nat, evidence : Nat]
      /\ [implementation |-> run[c].implementation, evidence |-> run[c].evidence]
           \in [implementation : Nat, evidence : Nat]
  BY <1>1 DEF Unbound
<1>4. (IF Events[run[c].next] = "execution"
       THEN [implementation |-> run[c].implementation, evidence |-> run[c].evidence]
       ELSE Unbound) \in [implementation : Nat, evidence : Nat]
  BY <1>3
<1>5. run[c].last.seq + 1 \in Nat /\ minted + 1 \in Nat
  BY <1>1
<1>6. QED
  BY <1>1, <1>2, <1>4, <1>5 DEF EventOf, Record

LEMMA NextRepository == HandoffInv /\ [Next]_vars => Repository'
<1> SUFFICES ASSUME HandoffInv, [Next]_vars PROVE Repository'
  OBVIOUS
<1> USE DEF At, notes
<1>0. TypeOK /\ Runs /\ Memories /\ Repository
  BY InvGivesRepository DEF HandoffInv
<1>a. index \in FileSet /\ tree \in FileSet /\ head \in 1..Len(commits)
      /\ Files(head) \in FileSet /\ Remembers(tree) /\ Remembers(index) /\ Remembers(Files(head))
      /\ Continues(tree, index) /\ Continues(index, Files(head))
  BY <1>0, FilesTyped DEF Repository, Grows
<1>b. /\ index.records \in Seq(Record) /\ index.torn \in BOOLEAN
      /\ tree.records \in Seq(Record) /\ tree.torn \in BOOLEAN /\ tree.doc \in Nat
      /\ tree.evidence \in [Cycles -> Receipt] /\ tree.source \in Sources
  BY <1>a DEF FileSet
<1>1. CASE UNCHANGED <<git, tree>>
  BY <1>0, <1>1 DEF Repository, Grows, git, Files
\* A step that changes other files than the memory.
<1>2. ASSUME UNCHANGED git, tree' \in FileSet, tree'.records = tree.records, tree'.torn = tree.torn
      PROVE  Repository'
  <2>1. Continues(tree', tree)
    BY <1>a, <1>2, ContinuesReflexive, ContinuesOfMemory
  <2>2. Remembers(tree')
    BY <1>a, <1>2 DEF Remembers
  <2>3. QED
    BY <1>0, <1>2, <2>1, <2>2, TreeChanges
<1>3. ASSUME NEW c \in Cycles, Observe(c) PROVE Repository'
  <2>1. tree' = [tree EXCEPT !.evidence[c].result = "logs"] /\ UNCHANGED git
    BY <1>3 DEF Observe
  <2>2. NoReceipt \in Receipt
    BY CycleAssumption DEF NoReceipt, Receipt
  <2>3. QED
    BY <1>2, <1>a, <2>1, <2>2, EvidenceUpdated
<1>4. ASSUME NEW c \in Cycles, NEW result \in {"pass", "fail"}, Confirm(c, result)
      PROVE  Repository'
  <2> DEFINE receipt == [result |-> result, subject |-> run[c].subject, tested |-> run[c].tested]
  <2>1. tree' = [tree EXCEPT !.evidence[c] = receipt] /\ UNCHANGED git
    BY <1>4 DEF Confirm
  <2>2. receipt \in Receipt
    BY <1>0 DEF Runs, RunState, Receipt
  <2> HIDE DEF receipt
  <2>3. QED
    BY <1>2, <1>a, <2>1, <2>2, EvidenceUpdated
<1>5. ASSUME NEW c \in Cycles, Render(c) PROVE Repository'
  <2>1. tree' = [tree EXCEPT !.doc = LastOf(tree.records).hash] /\ UNCHANGED git
    BY <1>5 DEF Render
  <2>2. LastOf(tree.records).hash \in Nat
    BY <1>a, <1>b, LastTyped DEF Remembers
  <2>3. QED
    BY <1>2, <1>a, <2>1, <2>2, DocUpdated, <1>b
<1>6. ASSUME NEW s \in Sources, Edit(s) PROVE Repository'
  BY <1>2, <1>6, <1>a, <1>b, SourceUpdated DEF Edit
<1>7. ASSUME NEW r \in Record, tree' = Written(r), UNCHANGED git PROVE Repository'
  BY <1>0, <1>7, <1>a, WrittenContinues, TreeChanges
<1>8. ASSUME NEW c \in Cycles, AppendEvent(c) PROVE Repository'
  <2>1. run[c].pc \in EarlyPlaces /\ tree' = Written(EventOf(c)) /\ UNCHANGED git
    BY <1>8 DEF AppendEvent, EarlyPlaces, Places
  <2>2. QED
    BY <1>7, <2>1, EventTyped
<1>9. ASSUME NEW a \in Appenders, WriteMemory(a) PROVE Repository'
  <2> DEFINE r == [hash |-> minted + 1, seq |-> Len(note[a].saw),
                   prev |-> LastOf(note[a].saw).hash, by |-> a, kind |-> "note",
                   binds |-> Unbound]
  <2>1. tree' = Written(r) /\ UNCHANGED git /\ note[a].pc = "read"
    BY <1>9 DEF WriteMemory
  <2>2. note[a].saw \in Seq(Record) /\ note[a].saw # <<>> /\ minted \in Nat
    BY <1>0, <2>1 DEF Memories, TypeOK
  <2>3. LastOf(note[a].saw).hash \in Nat /\ Len(note[a].saw) \in Nat
    BY <2>2, LastTyped, LenProperties
  <2>4. r \in Record
    BY <2>2, <2>3 DEF Record, Unbound
  <2> HIDE DEF r
  <2>5. QED
    BY <1>7, <2>1, <2>4
\* A line that is only begun.
<1>10. ASSUME NEW torn \in BOOLEAN, tree.torn => torn, tree' = [tree EXCEPT !.torn = torn],
              UNCHANGED git
       PROVE  Repository'
  <2>1. tree' \in FileSet /\ tree'.records = tree.records
    BY <1>a, <1>b, <1>10, TornUpdated
  <2>2. Continues(tree', tree)
    BY <1>a, <1>10, TornContinues
  <2>3. Remembers(tree')
    BY <1>a, <2>1 DEF Remembers
  <2>4. QED
    BY <1>0, <1>10, <2>1, <2>2, <2>3, TreeChanges
<1>11. ASSUME NEW c \in Cycles, StopWriting(c) PROVE Repository'
  BY <1>10, <1>11 DEF StopWriting
<1>12. ASSUME NEW a \in Appenders, NEW torn \in BOOLEAN, StopNote(a, torn) PROVE Repository'
  <2>1. tree' = [tree EXCEPT !.torn = tree.torn \/ torn] /\ UNCHANGED git
    BY <1>12 DEF StopNote
  <2>2. (tree.torn \/ torn) \in BOOLEAN
    BY <1>b
  <2>3. QED
    BY <1>10, <2>1, <2>2
<1>13. ASSUME NEW c \in Cycles, StageEvidence(c) PROVE Repository'
  <2>1. /\ index' = [index EXCEPT !.evidence[c] = tree.evidence[c]]
        /\ UNCHANGED <<commits, head, tree>>
    BY <1>13 DEF StageEvidence
  <2>2. tree.evidence[c] \in Receipt
    BY <1>b
  <2>3. index' \in FileSet /\ index'.records = index.records /\ index'.torn = index.torn
    BY <1>a, <2>1, <2>2, EvidenceUpdated
  <2>4. QED
    BY <1>0, <2>1, <2>3, IndexChanges
<1>14. ASSUME NEW c \in Cycles, Stage(c) PROVE Repository'
  <2>1. /\ index' = [index EXCEPT !.records = tree.records, !.torn = tree.torn, !.doc = tree.doc]
        /\ UNCHANGED <<commits, head, tree>>
    BY <1>14 DEF Stage
  <2>2. /\ index \in FileSet /\ tree.records \in Seq(Record) /\ tree.torn \in BOOLEAN
        /\ tree.doc \in Nat
    BY <1>a, <1>b
  <2>3. LET g == [index EXCEPT !.records = tree.records, !.torn = tree.torn, !.doc = tree.doc]
        IN  g \in FileSet /\ g.records = tree.records /\ g.torn = tree.torn
    BY <2>2 DEF FileSet
  <2>4. QED
    BY <1>0, <2>1, <2>3, IndexChanges
<1>15. ASSUME NEW c \in Cycles, CommitEvidence(c) \/ CommitFinal(c) PROVE Repository'
  <2>1. Commit(index) /\ index' = index /\ tree' = tree
    BY <1>15 DEF CommitEvidence, CommitFinal
  <2>2. QED
    BY <1>0, <1>a, <2>1, CommitAdds, ContinuesReflexive
\* A person commits source: the memory committed is HEAD's, what is staged stays staged.
<1>16. CASE Save
  <2> DEFINE files == [Files(head) EXCEPT !.source = tree.source]
  <2>1. Commit(files) /\ tree' = tree /\ index' = [index EXCEPT !.source = tree.source]
    BY <1>16 DEF Save
  <2>2. /\ files \in FileSet /\ files.records = Files(head).records /\ files.torn = Files(head).torn
        /\ index' \in FileSet /\ index'.records = index.records /\ index'.torn = index.torn
    BY <1>a, <1>b, <2>1, SourceUpdated
  <2> HIDE DEF files
  <2>3. Remembers(files) /\ Remembers(index')
    BY <1>a, <2>2 DEF Remembers
  <2>4. Continues(files, Files(head))
    BY <1>a, <2>2, ContinuesReflexive, ContinuesOfMemory
  <2>5. Continues(tree, index') /\ Continues(index', files)
    BY <1>a, <2>2, ContinuesOfMemory
  <2>6. QED
    BY <1>0, <2>1, <2>2, <2>3, <2>4, <2>5, CommitAdds
\* A person commits the memory as it is: it verifies, so no line of it is torn.
<1>17. CASE SaveMemory
  <2> DEFINE files == [Files(head) EXCEPT !.records = tree.records, !.torn = FALSE]
  <2>1. /\ Commit(files) /\ tree' = tree
        /\ index' = [index EXCEPT !.records = tree.records, !.torn = FALSE]
        /\ tree.torn = FALSE
    BY <1>17, <1>b DEF SaveMemory, Loads
  <2>2. /\ files \in FileSet /\ files.records = tree.records /\ files.torn = tree.torn
        /\ index' \in FileSet /\ index'.records = tree.records /\ index'.torn = tree.torn
    BY <1>a, <1>b, <2>1, MemoryUpdated
  <2> HIDE DEF files
  <2>3. Remembers(files) /\ Remembers(index')
    BY <1>a, <2>2 DEF Remembers
  <2>4. Continues(tree, Files(head)) /\ Continues(tree, tree)
    BY <1>a, ContinuesTransitive, ContinuesReflexive
  <2>5. Continues(files, Files(head)) /\ Continues(tree, index') /\ Continues(index', files)
    BY <2>2, <2>4, ContinuesOfMemory
  <2>6. QED
    BY <1>0, <2>1, <2>2, <2>3, <2>5, CommitAdds
<1>18. ASSUME NEW commit \in 1..Len(commits), Reset(commit) PROVE Repository'
  BY <1>0, <1>18, ResetReturns DEF Reset
<1>19. QED
  BY <1>1, <1>3, <1>4, <1>5, <1>6, <1>8, <1>9, <1>11, <1>12, <1>13, <1>14, <1>15, <1>16, <1>17, <1>18
  DEF Next, Work, Begin, Load, Test, NoteEvidence, VerifyMemory, NoteFinal, Succeed, Stop,
      ReadMemory, vars, git

LEMMA CommitsGrow == HandoffInv /\ [Next]_vars => Len(commits) <= Len(commits') /\ Len(commits') \in Nat
<1> SUFFICES ASSUME HandoffInv, [Next]_vars
             PROVE  Len(commits) <= Len(commits') /\ Len(commits') \in Nat
  OBVIOUS
<1>1. Len(commits) \in Nat /\ commits \in Seq([parent : Nat, files : FileSet])
      /\ head \in Nat
  BY FilesTyped DEF HandoffInv, TypeOK
<1>2. commits' \in Seq([parent : Nat, files : FileSet])
  BY NextRepository DEF Repository
<1>3. CASE commits' = commits
  BY <1>1, <1>3
<1>4. ASSUME NEW files, Commit(files) PROVE Len(commits') = Len(commits) + 1
  BY <1>1, <1>4 DEF Commit
<1>5. commits' = commits \/ \E files : Commit(files)
  BY DEF Next, Work, Begin, Load, Observe, Test, Confirm, StageEvidence, CommitEvidence,
     NoteEvidence, AppendEvent, VerifyMemory, Render, Stage, CommitFinal, NoteFinal, Succeed,
     Stop, StopWriting, ReadMemory, WriteMemory, StopNote, Edit, Save, SaveMemory, Reset,
     vars, git
<1>6. QED
  BY <1>1, <1>3, <1>4, <1>5

LEMMA NextRuns == HandoffInv /\ [Next]_vars => Runs'
<1> SUFFICES ASSUME HandoffInv, [Next]_vars PROVE Runs'
  OBVIOUS
<1> USE DEF At, Step
<1>0. /\ run \in [Cycles -> RunState] /\ Runs
      /\ head \in 1..Len(commits) /\ Len(commits) \in Nat
      /\ Len(commits) <= Len(commits') /\ Len(commits') \in Nat
  BY CommitsGrow, FilesTyped DEF HandoffInv, TypeOK, Runs
<1>1. CASE UNCHANGED run
  BY <1>0, <1>1 DEF Runs
<1>2. ASSUME NEW c \in Cycles, NEW state \in RunState, run' = [run EXCEPT ![c] = state],
             state.pc \in EarlyPlaces => state.next \in 1..Len(Events),
             Noted(state) \subseteq 0..Len(commits)
      PROVE  Runs'
  <2>1. run' \in [Cycles -> RunState]
    BY <1>0, <1>2
  <2>2. ASSUME NEW k \in Cycles
        PROVE  /\ run'[k].pc \in EarlyPlaces => run'[k].next \in 1..Len(Events)
               /\ Noted(run'[k]) \subseteq 0..Len(commits)
    <3>1. run'[k] = IF k = c THEN state ELSE run[k]
      BY <1>0, <1>2
    <3>2. QED
      BY <1>0, <1>2, <3>1 DEF Runs
  <2>3. 0..Len(commits) \subseteq 0..Len(commits')
    BY <1>0
  <2>4. QED
    BY <2>1, <2>2, <2>3 DEF Runs
\* The cycle is over.
<1>3. ASSUME NEW c \in Cycles, run' = [run EXCEPT ![c] = Idle] PROVE Runs'
  <2>1. Idle \in RunState
    BY CycleAssumption DEF Idle, RunState, Places, Genesis
  <2>2. Idle.next \in 1..Len(Events)
    BY CycleAssumption, EmptySeq, LenProperties DEF Idle
  <2>3. Noted(Idle) \subseteq 0..Len(commits)
    BY <1>0 DEF Noted, Idle
  <2>4. QED
    BY <1>2, <1>3, <2>1, <2>2, <2>3
\* The cycle goes on, and notes at most one commit it is at.
<1>4. ASSUME NEW c \in Cycles, NEW state \in RunState, run' = [run EXCEPT ![c] = state],
             state.pc \in EarlyPlaces => run[c].pc \in EarlyPlaces,
             state.next = run[c].next, Noted(state) \subseteq Noted(run[c]) \cup {head}
      PROVE  Runs'
  <2>1. state.pc \in EarlyPlaces => state.next \in 1..Len(Events)
    BY <1>0, <1>4 DEF Runs
  <2>2. Noted(run[c]) \cup {head} \subseteq 0..Len(commits)
    BY <1>0 DEF Runs
  <2>3. QED
    BY <1>2, <1>4, <2>1, <2>2
<1>5. ASSUME NEW c \in Cycles, NEW place \in Places, run' = [run EXCEPT ![c].pc = place],
             place \in EarlyPlaces => run[c].pc \in EarlyPlaces
      PROVE  Runs'
  <2> DEFINE state == [run[c] EXCEPT !.pc = place]
  <2>1. run[c] \in RunState
    BY <1>0
  <2>2. state \in RunState /\ state.pc = place /\ state.next = run[c].next
        /\ Noted(state) = Noted(run[c])
    BY <2>1 DEF RunState, Noted
  <2>3. run' = [run EXCEPT ![c] = state]
    BY <1>5
  <2> HIDE DEF state
  <2>4. QED
    BY <1>4, <1>5, <2>2, <2>3
<1>6. ASSUME NEW c \in Cycles, Begin(c) PROVE Runs'
  <2> DEFINE state == [run[c] EXCEPT !.pc = "load", !.implementation = head]
  <2>1. run[c] \in RunState /\ head \in Nat /\ run[c].pc \in EarlyPlaces
    BY <1>0, <1>6 DEF Begin, EarlyPlaces, Places
  <2>2. state \in RunState /\ state.next = run[c].next
        /\ Noted(state) \subseteq Noted(run[c]) \cup {head}
    BY <2>1 DEF RunState, Noted, Places
  <2>3. run' = [run EXCEPT ![c] = state]
    BY <1>6 DEF Begin
  <2> HIDE DEF state
  <2>4. QED
    BY <1>4, <2>1, <2>2, <2>3
<1>7. ASSUME NEW c \in Cycles, Load(c) PROVE Runs'
  <2> DEFINE last == [hash |-> LastOf(tree.records).hash, seq |-> LastOf(tree.records).seq]
             state == [run[c] EXCEPT !.pc = "observe", !.last = last]
  <2>1. run[c] \in RunState /\ run[c].pc \in EarlyPlaces
    BY <1>0, <1>7 DEF Load, EarlyPlaces, Places
  <2>2. tree.records \in Seq(Record) /\ tree.records # <<>>
    BY DEF HandoffInv, TypeOK, Memories, Remembers, FileSet
  <2>3. last \in [hash : Nat, seq : Nat]
    BY <2>2, LastTyped
  <2>4. run' = [run EXCEPT ![c] = state]
    BY <1>7 DEF Load
  <2> HIDE DEF last
  <2>5. state \in RunState /\ state.next = run[c].next /\ Noted(state) = Noted(run[c])
    BY <2>1, <2>3 DEF RunState, Noted, Places
  <2> HIDE DEF state
  <2>6. QED
    BY <1>4, <2>1, <2>4, <2>5
<1>8. ASSUME NEW c \in Cycles, Observe(c) PROVE Runs'
  <2> DEFINE state == [run[c] EXCEPT !.pc = "test", !.subject = head]
  <2>1. run[c] \in RunState /\ head \in Nat /\ run[c].pc \in EarlyPlaces
    BY <1>0, <1>8 DEF Observe, EarlyPlaces, Places
  <2>2. state \in RunState /\ state.next = run[c].next
        /\ Noted(state) \subseteq Noted(run[c]) \cup {head}
    BY <2>1 DEF RunState, Noted, Places
  <2>3. run' = [run EXCEPT ![c] = state]
    BY <1>8 DEF Observe
  <2> HIDE DEF state
  <2>4. QED
    BY <1>4, <2>1, <2>2, <2>3
<1>9. ASSUME NEW c \in Cycles, Test(c) PROVE Runs'
  <2> DEFINE state == [run[c] EXCEPT !.pc = "confirm", !.tested = tree.source]
  <2>1. run[c] \in RunState /\ tree.source \in Sources /\ run[c].pc \in EarlyPlaces
    BY <1>0, <1>9 DEF Test, EarlyPlaces, Places, HandoffInv, TypeOK, FileSet
  <2>2. state \in RunState /\ state.next = run[c].next /\ Noted(state) = Noted(run[c])
    BY <2>1 DEF RunState, Noted, Places
  <2>3. run' = [run EXCEPT ![c] = state]
    BY <1>9 DEF Test
  <2> HIDE DEF state
  <2>4. QED
    BY <1>4, <2>1, <2>2, <2>3
<1>10. ASSUME NEW c \in Cycles, NEW result, Confirm(c, result) PROVE Runs'
  <2>1. CASE run' = [run EXCEPT ![c] = Idle]
    BY <1>3, <2>1
  <2>2. CASE run' = [run EXCEPT ![c].pc = "stage evidence"]
    BY <1>5, <1>10, <2>2 DEF Confirm, EarlyPlaces, Places
  <2>3. QED
    BY <1>10, <2>1, <2>2 DEF Confirm
<1>11. ASSUME NEW c \in Cycles, StageEvidence(c) \/ CommitEvidence(c) PROVE Runs'
  BY <1>5, <1>11 DEF StageEvidence, CommitEvidence, EarlyPlaces, Places
<1>12. ASSUME NEW c \in Cycles, NoteEvidence(c) PROVE Runs'
  <2> DEFINE state == [run[c] EXCEPT !.pc = "append", !.evidence = head]
  <2>1. run[c] \in RunState /\ head \in Nat /\ run[c].pc \in EarlyPlaces
    <3>1. run[c].pc \in EarlyPlaces
      BY <1>12 DEF NoteEvidence, EarlyPlaces, Places
    <3>2. QED
      BY <1>0, <3>1
  <2>2. state \in RunState /\ state.next = run[c].next
        /\ Noted(state) \subseteq Noted(run[c]) \cup {head}
    BY <2>1 DEF RunState, Noted, Places
  <2>3. run' = [run EXCEPT ![c] = state]
    BY <1>12 DEF NoteEvidence
  <2> HIDE DEF state
  <2>4. QED
    BY <1>4, <2>1, <2>2, <2>3
<1>13. ASSUME NEW c \in Cycles, AppendEvent(c) PROVE Runs'
  <2> DEFINE place == IF run[c].next = Len(Events) THEN "verify" ELSE "append"
             last == [hash |-> minted + 1, seq |-> run[c].last.seq + 1]
             state == [run[c] EXCEPT !.pc = place, !.next = run[c].next + 1, !.last = last]
  <2>1. run[c] \in RunState /\ run[c].next \in 1..Len(Events) /\ Len(Events) \in Nat
    BY <1>0, <1>13, CycleAssumption, LenProperties DEF AppendEvent, Runs, EarlyPlaces, Places
  <2>2. last \in [hash : Nat, seq : Nat]
    BY <2>1 DEF RunState, HandoffInv, TypeOK
  <2>3. place \in Places /\ (place \in EarlyPlaces => run[c].next + 1 \in 1..Len(Events))
    BY <2>1 DEF Places, EarlyPlaces
  <2>4. run' = [run EXCEPT ![c] = state]
    BY <1>13 DEF AppendEvent
  <2> HIDE DEF last, place
  <2>5. state \in RunState /\ state.pc = place /\ state.next = run[c].next + 1
        /\ Noted(state) = Noted(run[c])
    <3>1. run[c].next + 1 \in Nat /\ place \in Places /\ last \in [hash : Nat, seq : Nat]
      BY <2>1, <2>2, <2>3
    <3>2. state \in RunState
      BY <2>1, <3>1 DEF RunState
    <3>3. state.pc = place /\ state.next = run[c].next + 1
      BY <2>1 DEF RunState
    <3>4. Noted(state) = Noted(run[c])
      BY <2>1 DEF RunState, Noted
    <3>5. QED
      BY <3>2, <3>3, <3>4
  <2>6. Noted(run[c]) \subseteq 0..Len(commits)
    BY <1>0 DEF Runs
  <2> HIDE DEF state
  <2>7. QED
    BY <1>2, <2>3, <2>4, <2>5, <2>6
<1>14. ASSUME NEW c \in Cycles, VerifyMemory(c) \/ Render(c) \/ CommitFinal(c) PROVE Runs'
  BY <1>5, <1>14 DEF VerifyMemory, Render, CommitFinal, EarlyPlaces, Places
<1>15. ASSUME NEW c \in Cycles, Stage(c) PROVE Runs'
  <2>1. CASE run' = [run EXCEPT ![c] = Idle]
    BY <1>3, <2>1
  <2>2. CASE run' = [run EXCEPT ![c].pc = "commit final"]
    BY <1>5, <2>2 DEF EarlyPlaces, Places
  <2>3. QED
    BY <1>15, <2>1, <2>2 DEF Stage
<1>16. ASSUME NEW c \in Cycles, NoteFinal(c) PROVE Runs'
  <2> DEFINE state == [run[c] EXCEPT !.pc = "check", !.final = head]
  <2>1. run[c] \in RunState /\ head \in Nat
    BY <1>0
  <2>2. state \in RunState /\ state.next = run[c].next /\ state.pc \notin EarlyPlaces
        /\ Noted(state) \subseteq Noted(run[c]) \cup {head}
    BY <2>1 DEF RunState, Noted, Places, EarlyPlaces
  <2>3. run' = [run EXCEPT ![c] = state]
    BY <1>16 DEF NoteFinal
  <2> HIDE DEF state
  <2>4. QED
    BY <1>4, <2>2, <2>3
<1>17. ASSUME NEW c \in Cycles, Succeed(c) \/ Stop(c) \/ StopWriting(c) PROVE Runs'
  BY <1>3, <1>17 DEF Succeed, Stop, StopWriting
<1>18. QED
  BY <1>1, <1>6, <1>7, <1>8, <1>9, <1>10, <1>11, <1>12, <1>13, <1>14, <1>15, <1>16, <1>17
  DEF Next, Work, ReadMemory, WriteMemory, StopNote, Edit, Save, SaveMemory, Reset, vars

\* What append_memory holds, what has landed, and how many hashes are out.
Bookkeeping ==
  /\ landed \subseteq [implementation : Nat, evidence : Nat, final : Nat, receipt : Cycles]
  /\ lock \in Appenders \cup {Nobody}
  /\ note \in [Appenders -> [pc : {"idle", "read"}, saw : Seq(Record)]]
  /\ \A a \in Appenders : note[a].pc = "read" => note[a].saw # <<>>
  /\ minted \in Nat

LEMMA NextBookkeeping == HandoffInv /\ [Next]_vars => Bookkeeping'
<1> SUFFICES ASSUME HandoffInv, [Next]_vars PROVE Bookkeeping'
  OBVIOUS
<1> USE DEF notes
<1>0. Bookkeeping
  BY DEF HandoffInv, TypeOK, Memories, Bookkeeping
<1>1. CASE UNCHANGED <<landed, notes, minted>>
  BY <1>0, <1>1 DEF Bookkeeping
<1>2. CASE UNCHANGED <<landed, notes>> /\ minted' = minted + 1
  BY <1>0, <1>2 DEF Bookkeeping
<1>3. ASSUME NEW c \in Cycles, Succeed(c) PROVE Bookkeeping'
  <2>1. run[c].implementation \in Nat /\ run[c].evidence \in Nat /\ run[c].final \in Nat
    BY DEF HandoffInv, Runs, RunState
  <2>2. QED
    BY <1>0, <1>3, <2>1 DEF Succeed, Returned, Bookkeeping
<1>4. ASSUME NEW a \in Appenders, NEW state \in [pc : {"idle", "read"}, saw : Seq(Record)],
             note' = [note EXCEPT ![a] = state], state.pc = "read" => state.saw # <<>>,
             lock' \in Appenders \cup {Nobody}, landed' = landed, minted' \in Nat
      PROVE  Bookkeeping'
  BY <1>0, <1>4 DEF Bookkeeping
<1>5. Quiet \in [pc : {"idle", "read"}, saw : Seq(Record)] /\ Quiet.pc = "idle"
  BY EmptySeq DEF Quiet
<1>6. ASSUME NEW a \in Appenders, ReadMemory(a) PROVE Bookkeeping'
  <2>1. tree.records \in Seq(Record) /\ tree.records # <<>>
    BY DEF HandoffInv, TypeOK, Memories, Remembers, FileSet
  <2>2. [pc |-> "read", saw |-> tree.records] \in [pc : {"idle", "read"}, saw : Seq(Record)]
    BY <2>1
  <2>3. QED
    BY <1>0, <1>4, <1>6, <2>1, <2>2 DEF ReadMemory, Bookkeeping
<1>7. ASSUME NEW a \in Appenders, WriteMemory(a) PROVE Bookkeeping'
  BY <1>0, <1>4, <1>5, <1>7 DEF WriteMemory, Bookkeeping
<1>8. ASSUME NEW a \in Appenders, NEW torn, StopNote(a, torn) PROVE Bookkeeping'
  BY <1>0, <1>4, <1>5, <1>8 DEF StopNote, Bookkeeping
<1>9. QED
  BY <1>1, <1>2, <1>3, <1>6, <1>7, <1>8
  DEF Next, Work, Begin, Load, Observe, Test, Confirm, StageEvidence, CommitEvidence,
      NoteEvidence, AppendEvent, VerifyMemory, Render, Stage, CommitFinal, NoteFinal, Stop,
      StopWriting, Edit, Save, SaveMemory, Reset, vars

LEMMA InvOfParts == Repository /\ Runs /\ Bookkeeping => HandoffInv
<1> SUFFICES ASSUME Repository, Runs, Bookkeeping PROVE HandoffInv
  OBVIOUS
<1>1. \A c \in Cycles : /\ Noted(run[c]) \subseteq 0..Len(commits)
                        /\ run[c].tested \in Sources
  BY DEF Runs, RunState
<1>2. \A a \in Appenders : note[a].saw \in Seq(Record)
  BY DEF Bookkeeping
<1>3. TypeOK
  BY <1>1, <1>2 DEF TypeOK, Repository, Bookkeeping, Noted
<1>4. QED
  BY <1>3 DEF HandoffInv, Repository, Bookkeeping, Memories

LEMMA InitHandoff == Init => HandoffInv
<1> SUFFICES ASSUME Init PROVE HandoffInv
  OBVIOUS
<1> USE CycleAssumption
<1>1. FirstRecord \in Record
  BY DEF FirstRecord, Record, Genesis, Unbound
<1>2. NoReceipt \in Receipt
  BY DEF NoReceipt, Receipt
<1>3. FirstFiles \in FileSet /\ FirstFiles.records # <<>>
  BY <1>1, <1>2 DEF FirstFiles, FileSet
<1>4. /\ commits = <<[parent |-> 0, files |-> FirstFiles]>> /\ head = 1
      /\ index = FirstFiles /\ tree = FirstFiles
  BY DEF Init
<1>5. /\ commits \in Seq([parent : Nat, files : FileSet]) /\ Len(commits) = 1
      /\ Files(1) = FirstFiles
  BY <1>3, <1>4 DEF Files
<1>6. Repository
  <2>1. Continues(FirstFiles, FirstFiles)
    BY <1>3, ContinuesReflexive
  <2>2. Grows
    BY <1>4, <1>5, <2>1 DEF Grows
  <2>3. QED
    BY <1>3, <1>4, <1>5, <2>2 DEF Repository, Remembers
<1>7. Runs
  <2>1. Idle \in RunState /\ Noted(Idle) \subseteq 0..Len(commits)
    BY <1>5 DEF Idle, RunState, Places, Noted, Genesis
  <2>2. Idle.next \in 1..Len(Events)
    BY EmptySeq, LenProperties DEF Idle
  <2>3. run = [c \in Cycles |-> Idle]
    BY DEF Init
  <2>4. QED
    BY <2>1, <2>2, <2>3 DEF Runs
<1>8. Bookkeeping
  <2>1. note = [a \in Appenders |-> Quiet]
    BY DEF Init
  <2>2. Quiet \in [pc : {"idle", "read"}, saw : Seq(Record)] /\ Quiet.pc = "idle"
    BY EmptySeq DEF Quiet
  <2>3. QED
    BY <2>1, <2>2 DEF Init, Bookkeeping
<1>9. QED
  BY <1>6, <1>7, <1>8, InvOfParts

LEMMA HandoffInvariant == Spec => []HandoffInv
<1>1. HandoffInv /\ [Next]_vars => HandoffInv'
  <2> SUFFICES ASSUME HandoffInv, [Next]_vars PROVE HandoffInv'
    OBVIOUS
  <2>1. Repository' /\ Runs' /\ Bookkeeping'
    BY NextRepository, NextRuns, NextBookkeeping
  <2>2. (Repository /\ Runs /\ Bookkeeping => HandoffInv)'
    BY InvOfParts, PTL
  <2>3. QED
    BY <2>1, <2>2
<1>2. QED
  BY InitHandoff, <1>1, PTL DEF Spec

-----------------------------------------------------------------------------
\* Every commit, file set, cycle and append keeps its type: HEAD names a commit that
\* exists, and so does every commit a cycle has noted.
THEOREM CycleTypeCorrect == Spec => []TypeOK
<1>1. HandoffInv => TypeOK
  BY DEF HandoffInv
<1>2. QED
  BY HandoffInvariant, <1>1, PTL

\* memory_cycle.py and memory.py append and never rewrite, and git commits what is
\* staged: so whatever cycles, appends, edits, commits and resets interleave, every
\* commit's memory extends its parent's and a torn last line stays where it is.  The
\* order HEAD, index, working tree (Grows) is what carries it from step to step.
THEOREM MemoryIsAppendOnly == Spec => []HistoryIsAppendOnly
<1>1. HandoffInv => HistoryIsAppendOnly
  BY DEF HandoffInv, Grows, Continues, HistoryIsAppendOnly
<1>2. QED
  BY HandoffInvariant, <1>1, PTL

-----------------------------------------------------------------------------
(* The line of commits from an older to a newer one.  Ancestor is a          *)
(* recursive function on the commits; that there is one is shown by the      *)
(* least set that has the older commit and every child of its members.       *)

Line(history, older) ==
  CHOOSE up : up = [i \in 1..Len(history) |->
                      i = older \/ (i > 1 /\ up[history[i].parent])]

\* Every commit but the first comes after its parent.
Ordered(history) ==
  Len(history) \in Nat /\ \A i \in 2..Len(history) : history[i].parent \in 1..(i - 1)

LEMMA AncestorIsLine ==
  ASSUME NEW older, NEW newer
  PROVE  Ancestor(older, newer) = Line(commits, older)[newer]
BY DEF Ancestor, Line

\* A set of commits that has one and the children of its members.
Offspring(history, older, D) ==
  older \in D /\ \A i \in 2..Len(history) : history[i].parent \in D => i \in D

LEMMA LineRecursion ==
  ASSUME NEW history, Ordered(history), NEW older \in 1..Len(history),
         NEW i \in 1..Len(history)
  PROVE  Line(history, older)[i] <=> i = older \/ (i > 1 /\ Line(history, older)[history[i].parent])
<1> DEFINE next(up) == [k \in 1..Len(history) |->
                          k = older \/ (k > 1 /\ up[history[k].parent])]
           least == [k \in 1..Len(history) |->
                       \A D \in SUBSET (1..Len(history)) : Offspring(history, older, D) => k \in D]
<1>1. ASSUME NEW k \in 1..Len(history)
      PROVE  least[k] <=> k = older \/ (k > 1 /\ least[history[k].parent])
  <2>0. Len(history) \in Nat /\ k \in Nat
        /\ (k > 1 => k \in 2..Len(history) /\ history[k].parent \in 1..Len(history))
    BY DEF Ordered
  <2>1. CASE k = older
    BY <2>1 DEF Offspring
  <2>2. ASSUME k > 1, least[history[k].parent] PROVE least[k]
    BY <2>0, <2>2 DEF Offspring
  <2>3. ASSUME k # older, ~(k > 1 /\ least[history[k].parent]) PROVE ~least[k]
    <3>1. CASE k > 1
      <4>1. PICK D \in SUBSET (1..Len(history)) : Offspring(history, older, D) /\ history[k].parent \notin D
        BY <2>0, <2>3, <3>1
      <4>2. Offspring(history, older, D \ {k}) /\ D \ {k} \in SUBSET (1..Len(history))
        BY <2>3, <4>1 DEF Offspring
      <4> QED
        BY <4>2
    <3>2. CASE ~(k > 1)
      <4>1. \A j \in 2..Len(history) : j # k
        BY <2>0, <3>2
      <4>2. Offspring(history, older, (1..Len(history)) \ {k})
        BY <2>0, <2>3, <4>1 DEF Offspring
      <4> QED
        BY <4>2
    <3> QED
      BY <3>1, <3>2
  <2> QED
    BY <2>1, <2>2, <2>3
<1>2. least = next(least)
  BY <1>1
<1>3. Line(history, older) = next(Line(history, older))
  BY <1>2 DEF Line
<1> QED
  BY <1>3

LEMMA HasLeast ==
  ASSUME NEW T \in SUBSET Nat, T # {}
  PROVE  \E t \in T : \A u \in T : t <= u
<1> DEFINE less == OpToRel(<, Nat)
<1>1. IsWellFoundedOn(less, Nat) /\ \A x, y \in Nat : y < x => <<y, x>> \in less
  BY NatLessThanWellFounded DEF OpToRel
<1> HIDE DEF less
<1>2. PICK t \in T : \A y \in T : ~(<<y, t>> \in less)
  BY <1>1, WFMin
<1>3. ASSUME NEW u \in T PROVE t <= u
  <2>1. u \in Nat /\ t \in Nat /\ ~(u < t)
    BY <1>1, <1>2
  <2> QED
    BY <2>1
<1> QED
  BY <1>3

\* Whoever is on the line up to a commit came before it.
LEMMA LineIsOlder ==
  ASSUME NEW history, Ordered(history), NEW older \in 1..Len(history),
         NEW newer \in 1..Len(history), Line(history, older)[newer]
  PROVE  older <= newer
<1> DEFINE bad == {i \in 1..Len(history) : Line(history, older)[i] /\ ~(older <= i)}
<1> SUFFICES ASSUME bad # {} PROVE FALSE
  OBVIOUS
<1>0. bad \in SUBSET Nat
  BY DEF Ordered
<1>1. PICK i \in bad : \A j \in bad : i <= j
  BY <1>0, HasLeast
<1>2. i # older /\ i \in 1..Len(history) /\ i \in Nat /\ older \in Nat
  BY DEF Ordered
<1>3. i > 1 /\ Line(history, older)[history[i].parent]
  BY <1>2, LineRecursion
<1>4. history[i].parent \in 1..Len(history) /\ history[i].parent < i
  BY <1>2, <1>3 DEF Ordered
<1>5. history[i].parent \in bad
  BY <1>2, <1>3, <1>4
<1> QED
  BY <1>1, <1>2, <1>4, <1>5

\* What comes later does not move the line.
LEMMA LineStays ==
  ASSUME NEW earlier, NEW history, Ordered(earlier), Ordered(history),
         Len(earlier) <= Len(history),
         \A i \in 1..Len(earlier) : history[i].parent = earlier[i].parent,
         NEW older \in 1..Len(earlier), NEW newer \in 1..Len(earlier)
  PROVE  Line(history, older)[newer] <=> Line(earlier, older)[newer]
<1> DEFINE bad == {i \in 1..Len(earlier) :
                     ~(Line(history, older)[i] <=> Line(earlier, older)[i])}
<1> SUFFICES ASSUME bad # {} PROVE FALSE
  OBVIOUS
<1>0. bad \in SUBSET Nat
  BY DEF Ordered
<1>1. PICK i \in bad : \A j \in bad : i <= j
  BY <1>0, HasLeast
<1>2. /\ i \in 1..Len(earlier) /\ i \in 1..Len(history) /\ i \in Nat
      /\ older \in 1..Len(history)
  BY DEF Ordered
<1>3. i > 1 /\ i # older
  BY <1>2, LineRecursion
<1>4. earlier[i].parent \in 1..Len(earlier) /\ earlier[i].parent < i
      /\ history[i].parent = earlier[i].parent
  BY <1>2, <1>3 DEF Ordered
<1>5. earlier[i].parent \in bad
  BY <1>2, <1>3, <1>4, LineRecursion
<1> QED
  BY <1>1, <1>2, <1>4, <1>5

-----------------------------------------------------------------------------
(* What a cycle that has not ended knows: the commits it has noted follow    *)
(* each other up to HEAD, and its checkpoint is in a memory that is not torn. *)

Noting == {"append", "verify", "render", "stage", "commit final", "note final", "check"}
Made(commit) == commit \in 1..Len(commits)

OnLine(c) ==
  /\ run[c].pc # "idle" => Made(run[c].implementation) /\ Ancestor(run[c].implementation, head)
  /\ run[c].pc \in Noting =>
       /\ Made(run[c].evidence) /\ Ancestor(run[c].implementation, run[c].evidence)
       /\ Ancestor(run[c].evidence, head)
  /\ run[c].pc = "note final" => run[c].evidence # head
  /\ run[c].pc = "check" =>
       /\ Made(run[c].final) /\ run[c].final # run[c].evidence
       /\ Ancestor(run[c].evidence, run[c].final) /\ Ancestor(run[c].final, head)

Own(c) == [implementation |-> run[c].implementation, evidence |-> run[c].evidence]

\* The checkpoint is among the events the cycle has appended so far.
Carries(c) ==
  /\ run[c].pc \notin Noting => run[c].next = 1
  /\ run[c].pc = "append" /\ ~tree.torn =>
       \A j \in 1..(run[c].next - 1) :
         Events[j] = "execution" => Bears(tree.records, c, Own(c))
  /\ run[c].pc \in Noting \ {"append"} /\ ~tree.torn => Bears(tree.records, c, Own(c))

\* What a cycle returned is sound, with a commit that has a parent.
Landing(l) ==
  /\ Made(l.implementation) /\ Made(l.evidence) /\ Made(l.final)
  /\ Ancestor(l.implementation, l.evidence) /\ Ancestor(l.evidence, l.final)
  /\ \E commit \in 2..Len(commits) :
       /\ Ancestor(l.final, commit) /\ Finished(commit)
       /\ Bears(Files(commit).records, l.receipt, Binds(l))
       /\ LastOf(Files(commit).records).by = l.receipt => commit = l.final

Landings == \A l \in landed : Landing(l)
Lines == \A c \in Cycles : OnLine(c)
Checkpoints == \A c \in Cycles : Carries(c)

LEMMA HistoryOrdered == Repository => Ordered(commits)
BY FilesTyped DEF Repository, Grows, Ordered

\* A step adds a commit on top of HEAD, or leaves the commits and HEAD alone, or is a
\* reset while no cycle is under way.
Onward ==
  \/ UNCHANGED <<commits, head>>
  \/ \E files : commits' = Append(commits, [parent |-> head, files |-> files])
                /\ head' = Len(commits) + 1

LEMMA StepsGoOnward ==
  ASSUME Next
  PROVE  Onward \/ \E commit \in 1..Len(commits) : Reset(commit)
<1>1. ASSUME NEW files, Commit(files) PROVE Onward
  BY <1>1 DEF Commit, Onward
<1> QED
  BY <1>1 DEF Next, Work, Begin, Load, Observe, Test, Confirm, StageEvidence, CommitEvidence,
     NoteEvidence, AppendEvent, VerifyMemory, Render, Stage, CommitFinal, NoteFinal, Succeed,
     Stop, StopWriting, ReadMemory, WriteMemory, StopNote, Edit, Save, SaveMemory, git, Onward

\* What was made stays as it was.
LEMMA HistoryStays ==
  ASSUME Repository, Repository', Onward \/ UNCHANGED commits
  PROVE  /\ Len(commits) \in Nat /\ Len(commits') \in Nat /\ Len(commits) <= Len(commits')
         /\ \A i \in 1..Len(commits) : commits'[i] = commits[i]
         /\ \A x, y \in 1..Len(commits) : Ancestor(x, y)' <=> Ancestor(x, y)
<1>1. /\ commits \in Seq([parent : Nat, files : FileSet]) /\ head \in 1..Len(commits)
      /\ commits' \in Seq([parent : Nat, files : FileSet])
      /\ Ordered(commits) /\ Ordered(commits')
  <2>1. (Repository => Ordered(commits))'
    BY HistoryOrdered, PTL
  <2> QED
    BY <2>1, HistoryOrdered DEF Repository
<1>2. Len(commits) \in Nat /\ Len(commits') \in Nat
  BY <1>1 DEF Ordered
<1>3. Len(commits) <= Len(commits') /\ \A i \in 1..Len(commits) : commits'[i] = commits[i]
  <2>1. CASE commits' = commits
    BY <1>2, <2>1
  <2>2. ASSUME NEW files, commits' = Append(commits, [parent |-> head, files |-> files])
        PROVE  Len(commits) <= Len(commits') /\ \A i \in 1..Len(commits) : commits'[i] = commits[i]
    <3> DEFINE new == [parent |-> head, files |-> files]
    <3>1. Len(commits') = Len(commits) + 1
      BY <1>1, <2>2 
    <3>2. \A i \in 1..Len(commits) : commits'[i] = commits[i]
      BY <1>1, <1>2, <2>2
    <3> QED
      BY <1>2, <3>1, <3>2
  <2> QED
    BY <2>1, <2>2 DEF Onward
<1>4. ASSUME NEW x \in 1..Len(commits), NEW y \in 1..Len(commits)
      PROVE  Ancestor(x, y)' <=> Ancestor(x, y)
  <2>1. Line(commits', x)[y] <=> Line(commits, x)[y]
    BY <1>1, <1>3, LineStays
  <2> QED
    BY <2>1 DEF Ancestor, Line
<1> QED
  BY <1>2, <1>3, <1>4

\* HEAD moves to descendants, and to commits that were not there.
LEMMA HeadGoesOnward ==
  ASSUME Repository, Repository', Onward, NEW x \in 1..Len(commits), Ancestor(x, head)
  PROVE  Ancestor(x, head)' /\ (x # head \/ head' # head => x # head')
<1>1. /\ head \in 1..Len(commits) /\ head' \in 1..Len(commits') /\ Len(commits) \in Nat
      /\ \A y \in 1..Len(commits) : Ancestor(x, y)' <=> Ancestor(x, y)
      /\ Len(commits) <= Len(commits') /\ Len(commits') \in Nat
      /\ commits \in Seq([parent : Nat, files : FileSet])
  BY HistoryStays DEF Repository
<1>2. CASE UNCHANGED <<commits, head>>
  BY <1>2 DEF Ancestor
<1>3. ASSUME NEW files, commits' = Append(commits, [parent |-> head, files |-> files]),
             head' = Len(commits) + 1
      PROVE  Ancestor(x, head)' /\ x # head'
  <2>1. Ordered(commits')
    <3>1. (Repository => Ordered(commits))'
      BY HistoryOrdered, PTL
    <3> QED
      BY <3>1
  <2>2. commits'[head'].parent = head /\ head' > 1
    BY <1>1, <1>3
  <2>3. Ancestor(x, head)'
    <3>1. Line(commits', x)[head] <=> Line(commits, x)[head]
      BY <1>1 DEF Ancestor, Line
    <3>2. Line(commits, x)[head]
      BY DEF Ancestor, Line
    <3>3. x \in 1..Len(commits')
      BY <1>1
    <3>4. Line(commits', x)[head']
      BY <1>1, <2>1, <2>2, <3>1, <3>2, <3>3, LineRecursion
    <3> QED
      BY <3>4 DEF Ancestor, Line
  <2> QED
    BY <1>1, <1>3, <2>3
<1> QED
  BY <1>2, <1>3 DEF Onward

\* The line of one step: a commit is on its own line, and what is on the line of a
\* commit other than itself is on the line of its parent.
LEMMA OwnLine ==
  ASSUME Repository, NEW x \in 1..Len(commits)
  PROVE  Ancestor(x, x)
BY HistoryOrdered, LineRecursion, AncestorIsLine

LEMMA ParentLine ==
  ASSUME Repository, NEW x \in 1..Len(commits), NEW y \in 1..Len(commits), Ancestor(x, y), x # y
  PROVE  y > 1 /\ commits[y].parent \in 1..Len(commits) /\ Ancestor(x, commits[y].parent)
<1>1. Ordered(commits) /\ Line(commits, x)[y]
  BY HistoryOrdered, AncestorIsLine
<1>2. y > 1 /\ Line(commits, x)[commits[y].parent]
  BY <1>1, LineRecursion
<1>3. commits[y].parent \in 1..Len(commits)
  BY <1>1, <1>2 DEF Ordered
<1> QED
  BY <1>2, <1>3, AncestorIsLine

LEMMA OlderCommit ==
  ASSUME Repository, NEW x \in 1..Len(commits), NEW y \in 1..Len(commits), Ancestor(x, y)
  PROVE  x <= y
BY HistoryOrdered, LineIsOlder, AncestorIsLine

LEMMA MadeStays ==
  ASSUME Repository, Repository', Onward
  PROVE  \A x : Made(x) => Made(x)'
<1>1. Len(commits) \in Nat /\ Len(commits') \in Nat /\ Len(commits) <= Len(commits')
  BY HistoryStays
<1>2. 1..Len(commits) \subseteq 1..Len(commits')
  BY <1>1
<1> QED
  BY <1>2 DEF Made

LEMMA LineSame ==
  ASSUME UNCHANGED commits, NEW x, NEW y
  PROVE  Ancestor(x, y)' <=> Ancestor(x, y)
<1>1. Line(commits', x)[y] <=> Line(commits, x)[y]
  OBVIOUS
<1> QED
  BY <1>1 DEF Ancestor, Line

\* A cycle that keeps what it has noted, and enters no place where it would have
\* noted more, stays on its line.
LEMMA LineKept ==
  ASSUME Repository, Repository', Onward, NEW c \in Cycles, OnLine(c),
         run'[c].implementation = run[c].implementation, run'[c].evidence = run[c].evidence,
         run'[c].final = run[c].final,
         run'[c].pc # "idle" => run[c].pc # "idle",
         run'[c].pc \in Noting => run[c].pc \in Noting,
         run'[c].pc = "note final" => run[c].pc = "note final" \/ head' # head,
         run'[c].pc = "check" => run[c].pc = "check"
  PROVE  OnLine(c)'
<1> DEFINE i == run[c].implementation
           e == run[c].evidence
           f == run[c].final
<1>1. \A x : Made(x) => Made(x)'
  BY MadeStays
<1>2. ASSUME NEW x, Made(x), Ancestor(x, head)
      PROVE  Ancestor(x, head)' /\ (x # head \/ head' # head => x # head')
  BY <1>2, HeadGoesOnward DEF Made
<1>3. ASSUME NEW x, NEW y, Made(x), Made(y), Ancestor(x, y)
      PROVE  Ancestor(x, y)'
  BY <1>3, HistoryStays DEF Made
<1>4. i = i' /\ e = e' /\ f = f'
  OBVIOUS
<1>5. run'[c].pc # "idle" => Made(i)' /\ Ancestor(i, head)'
  BY <1>1, <1>2 DEF OnLine
<1>6. run'[c].pc \in Noting => Made(i)' /\ Made(e)' /\ Ancestor(i, e)' /\ Ancestor(e, head)'
  BY <1>1, <1>2, <1>3 DEF OnLine, Noting
<1>7. run'[c].pc = "note final" => e # head'
  BY <1>2 DEF OnLine, Noting
<1>8. run'[c].pc = "check" => Made(f)' /\ f # e /\ Ancestor(e, f)' /\ Ancestor(f, head)'
  BY <1>1, <1>2, <1>3 DEF OnLine, Noting
<1> QED
  BY <1>4, <1>5, <1>6, <1>7, <1>8 DEF OnLine

LEMMA NextLines ==
  ASSUME HandoffInv, Lines, Next, Repository', Runs'
  PROVE  Lines'
<1> USE DEF At, Step
<1>0. /\ Repository /\ run \in [Cycles -> RunState] /\ run' \in [Cycles -> RunState]
      /\ Made(head) /\ Made(head)'
  BY InvGivesRepository DEF HandoffInv, Runs, Repository, Made
\* A reset waits until no cycle is under way.
<1>1. ASSUME NEW commit \in 1..Len(commits), Reset(commit) PROVE Lines'
  <2>1. \A c \in Cycles : run'[c].pc = "idle"
    BY <1>1 DEF Reset, Resting
  <2> QED
    BY <2>1 DEF Lines, OnLine, Noting
<1> SUFFICES ASSUME Onward PROVE Lines'
  BY <1>1, StepsGoOnward
<1>2. ASSUME NEW c \in Cycles, run'[c] = run[c] PROVE OnLine(c)'
  BY <1>0, <1>2, LineKept DEF Lines
<1>3. CASE UNCHANGED run
  BY <1>2, <1>3 DEF Lines
\* Otherwise one cycle's state changes.
<1>4. ASSUME NEW c \in Cycles, NEW state, run' = [run EXCEPT ![c] = state], OnLine(c)'
      PROVE  Lines'
  <2>1. \A d \in Cycles : d # c => run'[d] = run[d]
    BY <1>0, <1>4
  <2> QED
    BY <1>2, <1>4, <2>1 DEF Lines
<1>5. ASSUME NEW c \in Cycles, run' = [run EXCEPT ![c] = Idle] PROVE Lines'
  <2>1. run'[c].pc = "idle"
    BY <1>0, <1>5 DEF Idle
  <2>2. OnLine(c)'
    BY <2>1 DEF OnLine, Noting
  <2> QED
    BY <1>4, <1>5, <2>2
\* Steps that note no commit the line is about.
<1>6. ASSUME NEW c \in Cycles, NEW state, run' = [run EXCEPT ![c] = state],
             state.implementation = run[c].implementation,
             state.evidence = run[c].evidence, state.final = run[c].final,
             state.pc # "idle" => run[c].pc # "idle",
             state.pc \in Noting => run[c].pc \in Noting,
             state.pc = "note final" => run[c].pc = "note final" \/ head' # head,
             state.pc = "check" => run[c].pc = "check"
      PROVE  Lines'
  <2>1. run'[c] = state
    BY <1>0, <1>6
  <2>2. OnLine(c)'
    BY <1>0, <1>6, <2>1, LineKept DEF Lines
  <2> QED
    BY <1>4, <1>6, <2>2
<1>7. ASSUME NEW c \in Cycles, NEW place, run' = [run EXCEPT ![c].pc = place],
             place # "idle" => run[c].pc # "idle",
             place \in Noting => run[c].pc \in Noting,
             place = "note final" => run[c].pc = "note final" \/ head' # head,
             place = "check" => run[c].pc = "check"
      PROVE  Lines'
  <2> DEFINE state == [run[c] EXCEPT !.pc = place]
  <2>1. run' = [run EXCEPT ![c] = state] /\ run[c] \in RunState
    BY <1>0, <1>7
  <2>2. /\ state.pc = place /\ state.implementation = run[c].implementation
        /\ state.evidence = run[c].evidence /\ state.final = run[c].final
    BY <2>1 DEF RunState
  <2> HIDE DEF state
  <2> QED
    BY <1>6, <1>7, <2>1, <2>2
<1>8. ASSUME NEW c \in Cycles, Begin(c) PROVE Lines'
  <2> DEFINE state == [run[c] EXCEPT !.pc = "load", !.implementation = head]
  <2>1. run' = [run EXCEPT ![c] = state] /\ run[c] \in RunState /\ UNCHANGED <<commits, head>>
    BY <1>0, <1>8 DEF Begin, git
  <2>2. run'[c].pc = "load" /\ run'[c].implementation = head
    BY <1>0, <2>1 DEF RunState
  <2>3. Ancestor(head, head) /\ Ancestor(head, head)'
    <3>1. Ancestor(head, head)
      BY <1>0, OwnLine DEF Made
    <3> QED
      BY <2>1, <3>1 DEF Ancestor
  <2>4. OnLine(c)'
    BY <1>0, <2>1, <2>2, <2>3 DEF OnLine, Noting
  <2> HIDE DEF state
  <2> QED
    BY <1>4, <2>1, <2>4
<1>9. ASSUME NEW c \in Cycles, NoteEvidence(c) PROVE Lines'
  <2> DEFINE state == [run[c] EXCEPT !.pc = "append", !.evidence = head]
  <2>1. run' = [run EXCEPT ![c] = state] /\ run[c] \in RunState /\ UNCHANGED <<commits, head>>
        /\ run[c].pc = "note evidence"
    BY <1>0, <1>9 DEF NoteEvidence, git
  <2>2. run'[c].pc = "append" /\ run'[c].evidence = head
        /\ run'[c].implementation = run[c].implementation
    BY <1>0, <2>1 DEF RunState
  <2>3. Made(run[c].implementation) /\ Ancestor(run[c].implementation, head)
        /\ Ancestor(head, head)
    BY <1>0, <2>1, OwnLine DEF Made, Lines, OnLine
  <2>4. \A x : Made(x)' <=> Made(x)
    BY <2>1 DEF Made
  <2>5. ASSUME NEW x, NEW y PROVE Ancestor(x, y)' <=> Ancestor(x, y)
    BY <2>1, LineSame
  <2>6. OnLine(c)'
    BY <1>0, <2>1, <2>2, <2>3, <2>4, <2>5 DEF OnLine, Noting
  <2> HIDE DEF state
  <2> QED
    BY <1>4, <2>1, <2>6
<1>10. ASSUME NEW c \in Cycles, NoteFinal(c) PROVE Lines'
  <2> DEFINE state == [run[c] EXCEPT !.pc = "check", !.final = head]
  <2>1. run' = [run EXCEPT ![c] = state] /\ run[c] \in RunState /\ UNCHANGED <<commits, head>>
        /\ run[c].pc = "note final"
    BY <1>0, <1>10 DEF NoteFinal, git
  <2>2. run'[c].pc = "check" /\ run'[c].final = head
        /\ run'[c].implementation = run[c].implementation /\ run'[c].evidence = run[c].evidence
    BY <1>0, <2>1 DEF RunState
  <2>3. OnLine(c) /\ run[c].pc \in Noting /\ run[c].pc # "idle" /\ Ancestor(head, head)
    BY <1>0, <2>1, OwnLine DEF Made, Lines, Noting
  <2>4. \A x : Made(x)' <=> Made(x)
    BY <2>1 DEF Made
  <2>5. ASSUME NEW x, NEW y PROVE Ancestor(x, y)' <=> Ancestor(x, y)
    BY <2>1, LineSame
  <2>6. OnLine(c)'
    BY <1>0, <2>1, <2>2, <2>3, <2>4, <2>5 DEF OnLine, Noting
  <2> HIDE DEF state
  <2> QED
    BY <1>4, <2>1, <2>6
<1>11. ASSUME NEW c \in Cycles, CommitFinal(c) PROVE Lines'
  <2>1. head' # head
    <3>1. Len(commits) \in Nat /\ head \in 1..Len(commits)
      BY <1>0, FilesTyped DEF Repository
    <3>2. head' = Len(commits) + 1
      BY <1>11 DEF CommitFinal, Commit
    <3> QED
      BY <3>1, <3>2
  <2> QED
    BY <1>7, <1>11, <2>1 DEF CommitFinal, Noting
<1>12. ASSUME NEW c \in Cycles, Load(c) \/ Observe(c) \/ Test(c) PROVE Lines'
  <2>1. run[c] \in RunState /\ run[c].pc \notin {"idle", "note final", "check"}
    BY <1>0, <1>12 DEF Load, Observe, Test
  <2>2. CASE Load(c)
    <3> DEFINE state == [run[c] EXCEPT !.pc = "observe", !.last =
                 [hash |-> LastOf(tree.records).hash, seq |-> LastOf(tree.records).seq]]
    <3>1. run' = [run EXCEPT ![c] = state]
      BY <2>2 DEF Load
    <3>2. /\ state.pc = "observe" /\ state.implementation = run[c].implementation
          /\ state.evidence = run[c].evidence /\ state.final = run[c].final
      BY <2>1 DEF RunState
    <3> HIDE DEF state
    <3> QED
      BY <1>6, <2>1, <3>1, <3>2 DEF Noting
  <2>3. CASE Observe(c)
    <3> DEFINE state == [run[c] EXCEPT !.pc = "test", !.subject = head]
    <3>1. run' = [run EXCEPT ![c] = state]
      BY <2>3 DEF Observe
    <3>2. /\ state.pc = "test" /\ state.implementation = run[c].implementation
          /\ state.evidence = run[c].evidence /\ state.final = run[c].final
      BY <2>1 DEF RunState
    <3> HIDE DEF state
    <3> QED
      BY <1>6, <2>1, <3>1, <3>2 DEF Noting
  <2>4. CASE Test(c)
    <3> DEFINE state == [run[c] EXCEPT !.pc = "confirm", !.tested = tree.source]
    <3>1. run' = [run EXCEPT ![c] = state]
      BY <2>4 DEF Test
    <3>2. /\ state.pc = "confirm" /\ state.implementation = run[c].implementation
          /\ state.evidence = run[c].evidence /\ state.final = run[c].final
      BY <2>1 DEF RunState
    <3> HIDE DEF state
    <3> QED
      BY <1>6, <2>1, <3>1, <3>2 DEF Noting
  <2> QED
    BY <1>12, <2>2, <2>3, <2>4
<1>13. ASSUME NEW c \in Cycles, AppendEvent(c) PROVE Lines'
  <2> DEFINE place == IF run[c].next = Len(Events) THEN "verify" ELSE "append"
             last == [hash |-> minted + 1, seq |-> run[c].last.seq + 1]
             state == [run[c] EXCEPT !.pc = place, !.next = run[c].next + 1, !.last = last]
  <2>1. run' = [run EXCEPT ![c] = state] /\ run[c] \in RunState /\ run[c].pc = "append"
    BY <1>0, <1>13 DEF AppendEvent
  <2>2. place \in {"verify", "append"}
    OBVIOUS
  <2> HIDE DEF place, last
  <2>3. /\ state.pc = place /\ state.implementation = run[c].implementation
        /\ state.evidence = run[c].evidence /\ state.final = run[c].final
    BY <2>1 DEF RunState
  <2> HIDE DEF state
  <2> QED
    BY <1>6, <2>1, <2>2, <2>3 DEF Noting
<1>14. ASSUME NEW c \in Cycles, NEW result, Confirm(c, result) PROVE Lines'
  BY <1>5, <1>7, <1>14 DEF Confirm, Noting
<1>15. ASSUME NEW c \in Cycles, StageEvidence(c) \/ CommitEvidence(c) PROVE Lines'
  BY <1>7, <1>15 DEF StageEvidence, CommitEvidence, Noting
<1>16. ASSUME NEW c \in Cycles, VerifyMemory(c) \/ Render(c) PROVE Lines'
  BY <1>7, <1>16 DEF VerifyMemory, Render, Noting
<1>17. ASSUME NEW c \in Cycles, Stage(c) PROVE Lines'
  BY <1>5, <1>7, <1>17 DEF Stage, Noting
<1>18. ASSUME NEW c \in Cycles, Succeed(c) \/ Stop(c) \/ StopWriting(c) PROVE Lines'
  BY <1>5, <1>18 DEF Succeed, Stop, StopWriting
<1> QED
  BY <1>1, <1>3, <1>8, <1>9, <1>10, <1>11, <1>12, <1>13, <1>14, <1>15, <1>16, <1>17, <1>18
  DEF Next, Work, ReadMemory, WriteMemory, StopNote, Edit, Save, SaveMemory

-----------------------------------------------------------------------------
(* The checkpoint stays in the memory.                                       *)

LEMMA BearsLonger ==
  ASSUME NEW s \in Seq(Record), NEW r \in Record, NEW c, NEW binds, Bears(s, c, binds)
  PROVE  Bears(Append(s, r), c, binds)
<1>1. Len(s) \in Nat /\ Len(Append(s, r)) = Len(s) + 1
      /\ \A i \in 1..Len(s) : Append(s, r)[i] = s[i]
  BY AppendProperties, LenProperties
<1>2. PICK i \in 1..Len(s) : s[i].by = c /\ s[i].kind = "execution" /\ s[i].binds = binds
  BY DEF Bears
<1>3. i \in 1..Len(Append(s, r)) /\ Append(s, r)[i] = s[i]
  BY <1>1
<1> QED
  BY <1>2, <1>3 DEF Bears

\* A step that adds a record, or none.
Added ==
  \/ tree'.records = tree.records /\ (tree.torn => tree'.torn)
  \/ \E r \in Record : tree' = Written(r)

LEMMA BearsStill ==
  ASSUME tree \in FileSet, Added, ~tree'.torn
  PROVE  ~tree.torn /\ \A c, binds : Bears(tree.records, c, binds) => Bears(tree'.records, c, binds)
<1>1. CASE tree'.records = tree.records /\ (tree.torn => tree'.torn)
  BY <1>1
<1>2. ASSUME NEW r \in Record, tree' = Written(r)
      PROVE  ~tree.torn /\ \A c, binds : Bears(tree.records, c, binds) => Bears(tree'.records, c, binds)
  <2>1. ~tree.torn
    BY <1>2 DEF Written
  <2>2. tree'.records = Append(tree.records, r) /\ tree.records \in Seq(Record)
    BY <1>2, <2>1 DEF Written, FileSet
  <2> QED
    BY <2>1, <2>2, BearsLonger
<1> QED
  BY <1>1, <1>2 DEF Added

LEMMA StepsAdd ==
  ASSUME HandoffInv, Next
  PROVE  Added \/ \E commit \in 1..Len(commits) : Reset(commit)
<1>0. /\ tree \in FileSet /\ minted \in Nat /\ run \in [Cycles -> RunState]
      /\ note \in [Appenders -> [pc : {"idle", "read"}, saw : Seq(Record)]]
  BY DEF HandoffInv, TypeOK, Runs, Memories
<1>1. CASE UNCHANGED tree
  BY <1>1 DEF Added
<1>2. ASSUME NEW c \in Cycles, AppendEvent(c) PROVE Added
  <2>1. run[c].pc \in EarlyPlaces /\ tree' = Written(EventOf(c))
    BY <1>2 DEF AppendEvent, At, EarlyPlaces, Places
  <2> QED
    BY <2>1, EventTyped DEF Added
<1>3. ASSUME NEW a \in Appenders, WriteMemory(a) PROVE Added
  <2> DEFINE r == [hash |-> minted + 1, seq |-> Len(note[a].saw),
                   prev |-> LastOf(note[a].saw).hash, by |-> a, kind |-> "note",
                   binds |-> Unbound]
  <2>1. tree' = Written(r) /\ note[a].pc = "read"
    BY <1>3 DEF WriteMemory
  <2>2. note[a].saw \in Seq(Record) /\ note[a].saw # <<>> /\ minted \in Nat
    BY <1>0, <2>1 DEF HandoffInv, Memories
  <2>3. LastOf(note[a].saw).hash \in Nat /\ Len(note[a].saw) \in Nat
    BY <2>2, LastTyped, LenProperties
  <2>4. r \in Record
    BY <2>2, <2>3 DEF Record, Unbound
  <2> HIDE DEF r
  <2> QED
    BY <2>1, <2>4 DEF Added
<1>4. ASSUME tree'.records = tree.records, tree'.torn = tree.torn PROVE Added
  BY <1>4 DEF Added
<1>5. ASSUME NEW c \in Cycles, Observe(c) \/ (\E result : Confirm(c, result)) PROVE Added
  BY <1>0, <1>4, <1>5 DEF Observe, Confirm, FileSet
<1>6. ASSUME NEW c \in Cycles, Render(c) PROVE Added
  BY <1>0, <1>4, <1>6 DEF Render, FileSet
<1>7. ASSUME NEW s \in Sources, Edit(s) PROVE Added
  BY <1>0, <1>4, <1>7 DEF Edit, FileSet
<1>8. ASSUME NEW c \in Cycles, StopWriting(c) PROVE Added
  BY <1>0, <1>8 DEF StopWriting, FileSet, Added
<1>9. ASSUME NEW a \in Appenders, NEW torn \in BOOLEAN, StopNote(a, torn) PROVE Added
  BY <1>0, <1>9 DEF StopNote, FileSet, Added
<1> QED
  BY <1>1, <1>2, <1>3, <1>5, <1>6, <1>7, <1>8, <1>9
  DEF Next, Work, Begin, Load, Test, StageEvidence, CommitEvidence, NoteEvidence, VerifyMemory,
      Stage, CommitFinal, NoteFinal, Succeed, Stop, ReadMemory, Save, SaveMemory

\* A cycle that keeps its place and its commits, or goes on within its places.
LEMMA CarriesStill ==
  ASSUME tree \in FileSet, Added, NEW c \in Cycles, Carries(c),
         run'[c].pc \in Noting => Own(c)' = Own(c),
         run'[c].next = run[c].next,
         run'[c].pc = "append" => run[c].pc = "append",
         run'[c].pc \in Noting \ {"append"} => run[c].pc \in Noting \ {"append"},
         run'[c].pc \notin Noting => run[c].pc \notin Noting
  PROVE  Carries(c)'
<1>1. CASE run'[c].pc \notin Noting
  BY <1>1 DEF Carries, Noting
<1>2. CASE run'[c].pc \in Noting
  <2>1. Own(c)' = Own(c)
    BY <1>2
  <2>2. run'[c].pc = "append" /\ ~tree'.torn =>
          \A j \in 1..(run'[c].next - 1) :
            Events[j] = "execution" => Bears(tree.records, c, Own(c))'
    BY <2>1, BearsStill DEF Carries
  <2>3. run'[c].pc \in Noting \ {"append"} /\ ~tree'.torn => Bears(tree.records, c, Own(c))'
    BY <2>1, BearsStill DEF Carries
  <2> QED
    BY <1>2, <2>2, <2>3 DEF Carries
<1> QED
  BY <1>1, <1>2

LEMMA NextCheckpoints ==
  ASSUME HandoffInv, Checkpoints, Next, Runs'
  PROVE  Checkpoints'
<1> USE DEF At, Step
<1>0. /\ run \in [Cycles -> RunState] /\ run' \in [Cycles -> RunState]
      /\ tree \in FileSet /\ Len(Events) \in Nat
  BY CycleAssumption, LenProperties DEF HandoffInv, Runs, TypeOK
<1>1. ASSUME NEW commit \in 1..Len(commits), Reset(commit) PROVE Checkpoints'
  <2>1. \A c \in Cycles : run'[c].pc = "idle" /\ run'[c] = run[c]
    BY <1>1 DEF Reset, Resting
  <2> QED
    BY <2>1 DEF Checkpoints, Carries, Noting
<1> SUFFICES ASSUME Added PROVE Checkpoints'
  BY <1>1, StepsAdd
<1>2. ASSUME NEW c \in Cycles, run'[c] = run[c] PROVE Carries(c)'
  <2>1. Own(c)' = Own(c)
    BY <1>2 DEF Own
  <2> QED
    BY <1>0, <1>2, <2>1, CarriesStill DEF Checkpoints
<1>3. CASE UNCHANGED run
  BY <1>2, <1>3 DEF Checkpoints
<1>4. ASSUME NEW c \in Cycles, NEW state, run' = [run EXCEPT ![c] = state], Carries(c)'
      PROVE  Checkpoints'
  <2>1. \A d \in Cycles : d # c => run'[d] = run[d]
    BY <1>0, <1>4
  <2> QED
    BY <1>2, <1>4, <2>1 DEF Checkpoints
<1>5. ASSUME NEW c \in Cycles, run' = [run EXCEPT ![c] = Idle] PROVE Checkpoints'
  <2>1. run'[c].pc = "idle" /\ run'[c].next = 1
    BY <1>0, <1>5 DEF Idle
  <2>2. Carries(c)'
    BY <2>1 DEF Carries, Noting
  <2> QED
    BY <1>4, <1>5, <2>2
\* Steps before the first event and steps after the last.
<1>6. ASSUME NEW c \in Cycles, NEW state, run' = [run EXCEPT ![c] = state],
             state.next = run[c].next,
             \/ run[c].pc \notin Noting /\ state.pc \notin Noting
             \/ /\ {run[c].pc, state.pc} \subseteq Noting \ {"append"}
                /\ state.implementation = run[c].implementation
                /\ state.evidence = run[c].evidence
      PROVE  Checkpoints'
  <2>1. run'[c] = state
    BY <1>0, <1>6
  <2>2. run'[c].pc \in Noting => Own(c)' = Own(c)
    BY <1>6, <2>1 DEF Own
  <2>3. Carries(c)'
    <3>1. /\ run'[c].pc = "append" => run[c].pc = "append"
          /\ run'[c].pc \in Noting \ {"append"} => run[c].pc \in Noting \ {"append"}
          /\ run'[c].pc \notin Noting => run[c].pc \notin Noting
      BY <1>6, <2>1 DEF Noting
    <3>2. run'[c].next = run[c].next /\ Carries(c)
      BY <1>6, <2>1 DEF Checkpoints
    <3> QED
      BY <1>0, <2>2, <3>1, <3>2, CarriesStill
  <2> QED
    BY <1>4, <1>6, <2>3
<1>7. ASSUME NEW c \in Cycles, NEW place, run' = [run EXCEPT ![c].pc = place],
             \/ run[c].pc \notin Noting /\ place \notin Noting
             \/ {run[c].pc, place} \subseteq Noting \ {"append"}
      PROVE  Checkpoints'
  <2> DEFINE state == [run[c] EXCEPT !.pc = place]
  <2>1. run' = [run EXCEPT ![c] = state] /\ run[c] \in RunState
    BY <1>0, <1>7
  <2>2. /\ state.pc = place /\ state.implementation = run[c].implementation
        /\ state.evidence = run[c].evidence /\ state.next = run[c].next
    BY <2>1 DEF RunState
  <2> HIDE DEF state
  <2> QED
    BY <1>6, <1>7, <2>1, <2>2
<1>8. ASSUME NEW c \in Cycles, Begin(c) \/ Load(c) \/ Observe(c) \/ Test(c) PROVE Checkpoints'
  <2>1. PICK state : run' = [run EXCEPT ![c] = state] /\ state.next = run[c].next
                     /\ state.pc \in {"load", "observe", "test", "confirm"}
    <3>0. run[c] \in RunState
      BY <1>0
    <3>1. CASE Begin(c)
      <4> DEFINE state == [run[c] EXCEPT !.pc = "load", !.implementation = head]
      <4>1. run' = [run EXCEPT ![c] = state] /\ state.next = run[c].next /\ state.pc = "load"
        BY <3>0, <3>1 DEF Begin, RunState
      <4> QED
        BY <4>1
    <3>2. CASE Load(c)
      <4> DEFINE state == [run[c] EXCEPT !.pc = "observe", !.last =
                   [hash |-> LastOf(tree.records).hash, seq |-> LastOf(tree.records).seq]]
      <4>1. run' = [run EXCEPT ![c] = state] /\ state.next = run[c].next /\ state.pc = "observe"
        BY <3>0, <3>2 DEF Load, RunState
      <4> QED
        BY <4>1
    <3>3. CASE Observe(c)
      <4> DEFINE state == [run[c] EXCEPT !.pc = "test", !.subject = head]
      <4>1. run' = [run EXCEPT ![c] = state] /\ state.next = run[c].next /\ state.pc = "test"
        BY <3>0, <3>3 DEF Observe, RunState
      <4> QED
        BY <4>1
    <3>4. CASE Test(c)
      <4> DEFINE state == [run[c] EXCEPT !.pc = "confirm", !.tested = tree.source]
      <4>1. run' = [run EXCEPT ![c] = state] /\ state.next = run[c].next /\ state.pc = "confirm"
        BY <3>0, <3>4 DEF Test, RunState
      <4> QED
        BY <4>1
    <3> QED
      BY <1>8, <3>1, <3>2, <3>3, <3>4
  <2>2. run[c].pc \notin Noting /\ state.pc \notin Noting
    BY <1>8, <2>1 DEF Begin, Load, Observe, Test, Noting
  <2> QED
    BY <1>6, <2>1, <2>2
<1>9. ASSUME NEW c \in Cycles, NoteEvidence(c) PROVE Checkpoints'
  <2> DEFINE state == [run[c] EXCEPT !.pc = "append", !.evidence = head]
  <2>1. run' = [run EXCEPT ![c] = state] /\ run[c] \in RunState /\ run[c].pc = "note evidence"
    BY <1>0, <1>9 DEF NoteEvidence
  <2>2. run'[c].pc = "append" /\ run'[c].next = run[c].next
    BY <1>0, <2>1 DEF RunState
  <2>3. run[c].next = 1
    BY <2>1 DEF Checkpoints, Carries, Noting
  <2>4. Carries(c)'
    BY <2>2, <2>3 DEF Carries, Noting
  <2> HIDE DEF state
  <2> QED
    BY <1>4, <2>1, <2>4
<1>10. ASSUME NEW c \in Cycles, AppendEvent(c) PROVE Checkpoints'
  <2> DEFINE place == IF run[c].next = Len(Events) THEN "verify" ELSE "append"
             last == [hash |-> minted + 1, seq |-> run[c].last.seq + 1]
             state == [run[c] EXCEPT !.pc = place, !.next = run[c].next + 1, !.last = last]
             event == EventOf(c)
  <2>1. run' = [run EXCEPT ![c] = state] /\ run[c] \in RunState /\ run[c].pc = "append"
        /\ tree' = Written(event)
    BY <1>0, <1>10 DEF AppendEvent
  <2>2. run[c].next \in 1..Len(Events) /\ event \in Record
    BY <2>1, EventTyped DEF HandoffInv, Runs, EarlyPlaces, Places
  <2>3. /\ event.by = c /\ event.kind = Events[run[c].next]
        /\ Events[run[c].next] = "execution" => event.binds = Own(c)
    BY DEF EventOf, Own
  <2> HIDE DEF place, last, event
  <2>4. /\ run'[c].pc = place /\ run'[c].next = run[c].next + 1
        /\ run'[c].implementation = run[c].implementation
        /\ run'[c].evidence = run[c].evidence
    BY <1>0, <2>1 DEF RunState
  <2>5. Own(c)' = Own(c)
    BY <2>4 DEF Own
  <2>6. ASSUME ~tree'.torn, NEW j \in 1..run[c].next, Events[j] = "execution"
        PROVE  Bears(tree.records, c, Own(c))'
    <3>1. ~tree.torn /\ \A b : Bears(tree.records, c, b) => Bears(tree'.records, c, b)
      BY <1>0, <2>6, BearsStill
    <3>2. CASE j = run[c].next
      <4>1. tree'.records = Append(tree.records, event) /\ tree.records \in Seq(Record)
        BY <1>0, <2>1, <3>1 DEF Written, FileSet
      <4>2. /\ Len(tree'.records) \in 1..Len(tree'.records)
            /\ tree'.records[Len(tree'.records)] = event
        BY <2>2, <4>1, AppendProperties, LenProperties
      <4>3. event.by = c /\ event.kind = "execution" /\ event.binds = Own(c)
        BY <2>3, <2>6, <3>2
      <4> QED
        BY <2>5, <4>2, <4>3 DEF Bears
    <3>3. CASE j # run[c].next
      <4>1. j \in 1..(run[c].next - 1)
        BY <1>0, <2>2, <3>3
      <4>2. Bears(tree.records, c, Own(c))
        BY <2>1, <2>6, <3>1, <4>1 DEF Checkpoints, Carries
      <4> QED
        BY <2>5, <3>1, <4>2
    <3> QED
      BY <3>2, <3>3
  <2>7. CASE run[c].next = Len(Events)
    <3>1. PICK j \in 1..Len(Events) : Events[j] = "execution"
      BY CycleAssumption
    <3>2. ~tree'.torn => Bears(tree.records, c, Own(c))'
      BY <2>6, <2>7, <3>1
    <3>3. run'[c].pc = "verify"
      BY <2>4, <2>7 DEF place
    <3> QED
      BY <1>4, <2>1, <3>2, <3>3 DEF Carries, Noting
  <2>8. CASE run[c].next # Len(Events)
    <3>1. run'[c].pc = "append"
      BY <2>4, <2>8 DEF place
    <3>2. run'[c].next - 1 = run[c].next
      BY <2>2, <2>4
    <3>3. Carries(c)'
      BY <2>6, <3>1, <3>2 DEF Carries, Noting
    <3> QED
      BY <1>4, <2>1, <3>3
  <2> QED
    BY <2>7, <2>8
<1>11. ASSUME NEW c \in Cycles, NEW result, Confirm(c, result) PROVE Checkpoints'
  BY <1>5, <1>7, <1>11 DEF Confirm, Noting
<1>12. ASSUME NEW c \in Cycles, StageEvidence(c) \/ CommitEvidence(c) PROVE Checkpoints'
  BY <1>7, <1>12 DEF StageEvidence, CommitEvidence, Noting
<1>13. ASSUME NEW c \in Cycles, VerifyMemory(c) \/ Render(c) PROVE Checkpoints'
  BY <1>7, <1>13 DEF VerifyMemory, Render, Noting
<1>14. ASSUME NEW c \in Cycles, Stage(c) PROVE Checkpoints'
  BY <1>5, <1>7, <1>14 DEF Stage, Noting
<1>15. ASSUME NEW c \in Cycles, CommitFinal(c) PROVE Checkpoints'
  BY <1>7, <1>15 DEF CommitFinal, Noting
<1>16. ASSUME NEW c \in Cycles, NoteFinal(c) PROVE Checkpoints'
  <2> DEFINE state == [run[c] EXCEPT !.pc = "check", !.final = head]
  <2>1. run' = [run EXCEPT ![c] = state] /\ run[c] \in RunState /\ run[c].pc = "note final"
    BY <1>0, <1>16 DEF NoteFinal
  <2>2. /\ state.pc = "check" /\ state.implementation = run[c].implementation
        /\ state.evidence = run[c].evidence /\ state.next = run[c].next
    BY <2>1 DEF RunState
  <2> HIDE DEF state
  <2> QED
    BY <1>6, <2>1, <2>2 DEF Noting
<1>17. ASSUME NEW c \in Cycles, Succeed(c) \/ Stop(c) \/ StopWriting(c) PROVE Checkpoints'
  BY <1>5, <1>17 DEF Succeed, Stop, StopWriting
<1> QED
  BY <1>1, <1>3, <1>8, <1>9, <1>10, <1>11, <1>12, <1>13, <1>14, <1>15, <1>16, <1>17
  DEF Next, Work, ReadMemory, WriteMemory, StopNote, Edit, Save, SaveMemory

-----------------------------------------------------------------------------
(* What has landed stays landed; and what the check accepts is a landing.    *)

LEMMA FinishedStays ==
  ASSUME Repository, Repository', Onward \/ UNCHANGED commits,
         NEW commit \in 2..Len(commits), Finished(commit)
  PROVE  Finished(commit)' /\ Files(commit)' = Files(commit)
<1> DEFINE bound == Checkpoint(Files(commit).records)
           e == bound.evidence
<1>1. Len(commits) \in Nat /\ \A i \in 1..Len(commits) : commits'[i] = commits[i]
  BY HistoryStays
<1>2. commits[commit].parent = e
  BY DEF Finished, IsFinal
<1>3. commit \in 1..Len(commits) /\ e \in 1..Len(commits)
  <2>1. commits[commit].parent \in 1..(commit - 1)
    BY DEF Repository, Grows
  <2> QED
    BY <1>1, <1>2, <2>1
<1>4. /\ Files(commit)' = Files(commit) /\ Files(e)' = Files(e)
      /\ commits'[commit] = commits[commit] /\ commits'[e] = commits[e]
  BY <1>1, <1>3 DEF Files
<1>5. IsFinal(commit, e)'
  <2>1. IsFinal(commit, e)
    BY DEF Finished
  <2> QED
    BY <1>4, <2>1 DEF IsFinal
<1> QED
  BY <1>4, <1>5 DEF Finished

LEMMA LandingStays ==
  ASSUME Repository, Repository', Onward \/ UNCHANGED commits, NEW l, Landing(l)
  PROVE  Landing(l)'
<1>1. /\ Len(commits) \in Nat /\ Len(commits') \in Nat /\ Len(commits) <= Len(commits')
      /\ \A x, y \in 1..Len(commits) : Ancestor(x, y)' <=> Ancestor(x, y)
  BY HistoryStays
<1>2. PICK commit \in 2..Len(commits) :
        /\ Ancestor(l.final, commit) /\ Finished(commit)
        /\ Bears(Files(commit).records, l.receipt, Binds(l))
        /\ LastOf(Files(commit).records).by = l.receipt => commit = l.final
  BY DEF Landing
<1>3. Finished(commit)' /\ Files(commit)' = Files(commit)
  BY <1>2, FinishedStays
<1>4. /\ commit \in 1..Len(commits) /\ commit \in 2..Len(commits')
      /\ 1..Len(commits) \subseteq 1..Len(commits')
  BY <1>1
<1>5. Made(l.implementation) /\ Made(l.evidence) /\ Made(l.final)
      /\ Ancestor(l.implementation, l.evidence) /\ Ancestor(l.evidence, l.final)
  BY DEF Landing
<1>6. Made(l.implementation)' /\ Made(l.evidence)' /\ Made(l.final)'
  BY <1>4, <1>5 DEF Made
<1>7. /\ Ancestor(l.implementation, l.evidence)' /\ Ancestor(l.evidence, l.final)'
      /\ Ancestor(l.final, commit)'
  BY <1>1, <1>2, <1>4, <1>5 DEF Made
<1> QED
  BY <1>2, <1>3, <1>4, <1>6, <1>7 DEF Landing

\* A memory that verifies has one checkpoint of each cycle.
LEMMA OneCheckpoint ==
  ASSUME NEW records, Verified(records), NEW binds, Bears(records, LastOf(records).by, binds)
  PROVE  Checkpoint(records) = binds
<1> DEFINE by == LastOf(records).by
           all == {records[i] : i \in 1..Len(records)}
           mine(r) == r.by = by /\ r.kind = "execution"
           found == CHOOSE r \in all : mine(r)
<1>1. PICK i \in 1..Len(records) :
        records[i].by = by /\ records[i].kind = "execution" /\ records[i].binds = binds
  BY DEF Bears
<1>2. found \in all /\ mine(found)
  BY <1>1
<1>3. Checkpoint(records) = found.binds
  BY DEF Checkpoint
<1> HIDE DEF found
<1>4. PICK j \in 1..Len(records) : found = records[j]
  BY <1>2
<1>5. i = j
  BY <1>1, <1>2, <1>4 DEF Verified
<1> QED
  BY <1>1, <1>3, <1>4, <1>5

LEMMA SuccessLands ==
  ASSUME HandoffInv, Lines, Checkpoints, NEW c \in Cycles, Succeed(c)
  PROVE  Landing(Returned(c))
<1> DEFINE i == run[c].implementation
           e == run[c].evidence
           f == run[c].final
           records == tree.records
           bound == Checkpoint(records)
           by == LastOf(records).by
<1>0. Repository /\ head \in 1..Len(commits) /\ Len(commits) \in Nat
  BY InvGivesRepository, FilesTyped DEF Repository
<1>1. run[c].pc = "check" /\ Checks
  BY DEF Succeed, At
<1>2. /\ Made(i) /\ Made(e) /\ Made(f) /\ f # e
      /\ Ancestor(i, e) /\ Ancestor(e, f) /\ Ancestor(f, head)
  BY <1>1 DEF Lines, OnLine, Noting
<1>3. /\ Loads(tree) /\ LastOf(records).kind = "handoff" /\ by \in Cycles
      /\ EvidenceHolds(by, bound) /\ CheckoutHolds(bound.evidence)
      /\ tree.doc = LastOf(records).hash /\ head # bound.evidence
      /\ tree = Files(head)
  BY <1>1 DEF Checks, Renders, Clean
<1>4. Bears(records, c, Own(c))
  BY <1>1, <1>3 DEF Checkpoints, Carries, Noting, Loads
<1>5. IsFinal(head, bound.evidence)
  BY <1>3 DEF CheckoutHolds
<1>6. Finished(head)
  <2>1. /\ commits[bound.evidence].parent = bound.implementation
        /\ tree.evidence[by].result = "pass"
        /\ tree.evidence[by].subject = bound.implementation
    BY <1>3 DEF EvidenceHolds
  <2> QED
    BY <1>3, <1>5, <2>1 DEF Finished
<1>7. head \in 2..Len(commits)
  <2>1. e <= f /\ f <= head
    BY <1>0, <1>2, OlderCommit DEF Made
  <2> QED
    BY <1>0, <1>2, <2>1 DEF Made
\* The handoff is its own: the final commit noted lies between the evidence and the
\* child of the evidence that HEAD is.
<1>8. by = c => head = f
  <2> SUFFICES ASSUME by = c, f # head PROVE FALSE
    OBVIOUS
  <2>1. bound = Own(c)
    BY <1>3, <1>4, OneCheckpoint DEF Loads
  <2>2. commits[head].parent = e
    BY <1>5, <2>1 DEF IsFinal, Own
  <2>3. Ancestor(f, e)
    BY <1>0, <1>2, <2>2, ParentLine DEF Made
  <2>4. e <= f /\ f <= e
    BY <1>0, <1>2, <2>3, OlderCommit DEF Made
  <2> QED
    BY <1>0, <1>2, <2>4 DEF Made
<1>9. PICK l : l = Returned(c)
  OBVIOUS
<1>10. /\ l.implementation = i /\ l.evidence = e /\ l.final = f /\ l.receipt = c
       /\ Binds(l) = Own(c)
  BY <1>9 DEF Returned, Binds, Own
<1>11. Landing(l)
  <2>1. Ancestor(l.final, head) /\ Bears(Files(head).records, l.receipt, Binds(l))
    BY <1>2, <1>3, <1>4, <1>10
  <2>2. LastOf(Files(head).records).by = l.receipt => head = l.final
    BY <1>3, <1>8, <1>10
  <2> QED
    BY <1>2, <1>6, <1>7, <1>10, <2>1, <2>2 DEF Landing
<1> QED
  BY <1>9, <1>11

LEMMA NextLandings ==
  ASSUME HandoffInv, Lines, Checkpoints, Landings, Next, Repository'
  PROVE  Landings'
<1>0. Repository
  BY InvGivesRepository
<1>1. Onward \/ UNCHANGED commits
  BY StepsGoOnward DEF Reset
<1>2. ASSUME NEW l, Landing(l) PROVE Landing(l)'
  BY <1>0, <1>1, <1>2, LandingStays
<1>3. CASE UNCHANGED landed
  BY <1>2, <1>3 DEF Landings
<1>4. ASSUME NEW c \in Cycles, Succeed(c) PROVE Landings'
  <2>1. PICK l : l = Returned(c)
    OBVIOUS
  <2>2. Landing(l)'
    BY <1>2, <1>4, <2>1, SuccessLands
  <2>3. landed' = landed \cup {l}
    BY <1>4, <2>1 DEF Succeed
  <2> QED
    BY <1>2, <2>2, <2>3 DEF Landings
<1> QED
  BY <1>3, <1>4
  DEF Next, Work, Begin, Load, Observe, Test, Confirm, StageEvidence, CommitEvidence,
      NoteEvidence, AppendEvent, VerifyMemory, Render, Stage, CommitFinal, NoteFinal, Stop,
      StopWriting, ReadMemory, WriteMemory, StopNote, Edit, Save, SaveMemory, Reset

LEMMA LandingInvariant == Spec => [](HandoffInv /\ Lines /\ Checkpoints /\ Landings)
<1>1. Init => HandoffInv /\ Lines /\ Checkpoints /\ Landings
  <2> SUFFICES ASSUME Init PROVE Lines /\ Checkpoints /\ Landings
    BY InitHandoff
  <2>1. \A c \in Cycles : run[c] = Idle /\ run[c].pc = "idle" /\ run[c].next = 1
    BY DEF Init, Idle
  <2>2. landed = {}
    BY DEF Init
  <2> QED
    BY <2>1, <2>2 DEF Lines, OnLine, Checkpoints, Carries, Landings, Noting
<1>2. HandoffInv /\ Lines /\ Checkpoints /\ Landings /\ HandoffInv' /\ [Next]_vars
        => Lines' /\ Checkpoints' /\ Landings'
  <2> SUFFICES ASSUME HandoffInv, Lines, Checkpoints, Landings, HandoffInv', [Next]_vars
               PROVE  Lines' /\ Checkpoints' /\ Landings'
    OBVIOUS
  <2>1. Repository' /\ Runs'
    BY NextRepository, NextRuns
  <2>2. CASE Next
    BY <2>1, <2>2, NextLines, NextCheckpoints, NextLandings
  <2>3. CASE UNCHANGED vars
    <3>0. UNCHANGED commits /\ UNCHANGED head /\ UNCHANGED run /\ UNCHANGED tree
          /\ UNCHANGED landed
      BY <2>3 DEF vars
    <3>1. Repository /\ Onward /\ Added
      BY <3>0, InvGivesRepository DEF Onward, Added
    <3>2. ASSUME NEW c \in Cycles PROVE OnLine(c)' /\ Carries(c)'
      <4>1. OnLine(c)'
        BY <2>1, <3>0, <3>1, LineKept DEF Lines
      <4>2. Own(c)' = Own(c) /\ tree \in FileSet
        BY <3>0, <3>1 DEF Own, Repository
      <4>3. Carries(c)'
        BY <3>0, <3>1, <4>2, CarriesStill DEF Checkpoints
      <4> QED
        BY <4>1, <4>3
    <3>3. \A l : Landing(l) => Landing(l)'
      BY <2>1, <3>1, LandingStays
    <3> QED
      BY <3>0, <3>2, <3>3 DEF Lines, Checkpoints, Landings
  <2> QED
    BY <2>2, <2>3
<1> QED
  BY <1>1, <1>2, HandoffInvariant, PTL DEF Spec

\* A cycle that succeeds leaves its events in a finished handoff at or after the commits
\* it returns, whatever cycles, appends, torn writes, edits, commits and resets ran beside
\* it; and if the handoff that was checked is its own, the commit it returns is the one
\* that finishes it.  (That it is its own is false: see OwnHandoffIsFinished.)
THEOREM LandedHandoffsAreSound == Spec => []LandedIsSound
<1>1. HandoffInv /\ Landings => LandedIsSound
  <2> SUFFICES ASSUME HandoffInv, Landings, NEW l \in landed
               PROVE  /\ Ancestor(l.implementation, l.evidence) /\ Ancestor(l.evidence, l.final)
                      /\ \E commit \in 1..Len(commits) :
                           /\ Ancestor(l.final, commit) /\ Finished(commit)
                           /\ Bears(Files(commit).records, l.receipt, Binds(l))
                           /\ LastOf(Files(commit).records).by = l.receipt => commit = l.final
    BY DEF LandedIsSound
  <2>1. Len(commits) \in Nat
    BY FilesTyped DEF HandoffInv, TypeOK
  <2>2. 2..Len(commits) \subseteq 1..Len(commits)
    BY <2>1
  <2> QED
    BY <2>2 DEF Landings, Landing
<1> QED
  BY <1>1, LandingInvariant, PTL

\* Beside the other parts the cycles do what they do alone.
LEMMA PartsAreCycles == PartsSpec => Spec
<1>1. PartsInit => Init
  BY DEF PartsInit
<1>2. [PartsNext]_partsVars => [Next]_vars
  BY DEF PartsNext, CycleStep, SnapshotStep, BindingStep, Ended, partsVars
<1> QED
  BY <1>1, <1>2, PTL DEF PartsSpec, Spec

(***************************************************************************)
(* PreregistrationBinding.                                                 *)
(***************************************************************************)

Values == {0, 1, Binding!Draft, Binding!Contract, Binding!Resealed}
Trees == [Binding!Files -> Values]

(* Commits only come, each after those it descends from.                     *)
Recorded ==
  /\ bindCommits \in Seq([tree : Trees, before : SUBSET Nat])
  /\ \A c \in DOMAIN bindCommits : bindCommits[c].before \subseteq DOMAIN bindCommits
  /\ bindHead \in DOMAIN bindCommits
  /\ working \in Trees
  /\ regained \in BOOLEAN
  /\ Binding!State \in past

Reading ==
  /\ reader = [at |-> reader.at, steps |-> Binding!Steps(reader.authority),
               authority |-> reader.authority, selected |-> reader.selected,
               got |-> reader.got, whole |-> reader.whole]
  /\ reader.at \in 1..22 \cup {100}
  /\ reader.whole \in BOOLEAN

(* What was read is what the contract says, and was there once.              *)
Prior(f, v) == \E s \in past : s.file[f] = v

Got ==
  /\ Binding!Known \subseteq {"contract", "preregistration", "head", "validator", "lock"}
  /\ reader.at <= 2 => Binding!Known = {}
  /\ reader.at \in 3..22 => "contract" \in Binding!Known
  /\ reader.at \in 4..22 => "preregistration" \in Binding!Known
  /\ reader.at \in 5..22 => "head" \in Binding!Known
  /\ reader.at \in 8..22 => "validator" \in Binding!Known
  /\ reader.at \in 9..22 => "lock" \in Binding!Known
  /\ "contract" \in Binding!Known => reader.got["contract"] = reader.selected
                                     /\ reader.selected.sealed
  /\ \A f \in {"preregistration", "validator", "lock"} :
       f \in Binding!Known => reader.got[f] = reader.selected[f]
  /\ "head" \in Binding!Known =>
       /\ reader.got["head"] \in DOMAIN bindCommits
       /\ \E s \in past : s.head = reader.got["head"]
  /\ \A f \in Binding!Known \ {"head"} : Prior(f, reader.got[f])

(* What Git's objects were found to say.                                     *)
Checked ==
  /\ reader.at \in 7..22 =>
       /\ reader.authority \in bindCommits[reader.got["head"]].before
       /\ reader.selected.commit \in bindCommits[reader.authority].before
       /\ bindCommits[reader.selected.commit].tree["preregistration"]
            = reader.selected.preregistration
  /\ reader.at \in 10..22 => loaded = reader.got["validator"]
  /\ reader.at \in 11..22 =>
       /\ Binding!Closure(reader.got["head"]) = Binding!Closure(reader.authority)
       /\ bindCommits[reader.authority].tree["validator"] = reader.selected.validator
  /\ reader.at \in 12..22 =>
       bindCommits[reader.got["head"]].tree["contract"] = reader.got["contract"]
  /\ reader.whole =>
       /\ reader.at \in 11..22 \cup {100} /\ "head" \in Binding!Known
       /\ bindCommits[reader.got["head"]].tree["lock"] = reader.selected.lock

(* What is not in place when the sources are read for the second time, and   *)
(* is still to be looked at.                                                 *)
Outstanding ==
  \/ /\ reader.at = 15
     /\ \E f \in Binding!Files :
          LET v == bindCommits[reader.got["head"]].tree[f]
          IN  Prior(f, v) /\ working[f] # v
  \/ reader.at <= 16 /\ bindHead # reader.got["head"]
  \/ reader.at <= 18 /\ working["preregistration"] # reader.got["preregistration"]
  \/ reader.at <= 19 /\ working["validator"] # reader.got["validator"]
  \/ reader.at <= 20 /\ working["lock"] # reader.got["lock"]
  \/ reader.at <= 21 /\ working["contract"] # reader.got["contract"]

Moved ==
  ~regained /\ ~reader.whole =>
    /\ reader.at = 14 =>
         \/ bindHead # reader.got["head"]
         \/ \A f \in Binding!Files : Prior(f, bindCommits[reader.got["head"]].tree[f])
    /\ reader.at \in 15..22 => Outstanding

BindingOwned == Recorded /\ Reading /\ Got /\ Checked /\ Moved

BindingInv == part = "binding" => BindingOwned

(* Where each step of the verification is.                                   *)
LEMMA BindingPlaces ==
  \A a : /\ Len(Binding!Steps(a)) = 21
         /\ \A n \in 1..21 :
              /\ Binding!Steps(a)[n] = "select" => n = 1
              /\ Binding!Steps(a)[n] = "contract" => n \in {2, 21}
              /\ Binding!Steps(a)[n] = "preregistration" => n \in {3, 18}
              /\ Binding!Steps(a)[n] = "head" => n \in {4, 12, 16}
              /\ Binding!Steps(a)[n] = "status" => n \in {5, 13, 15}
              /\ Binding!Steps(a)[n] = "ancestry" => n = 6
              /\ Binding!Steps(a)[n] = "validator" => n \in {7, 19}
              /\ Binding!Steps(a)[n] = "lock" => n \in {8, 20}
              /\ Binding!Steps(a)[n] = "executing" => n = 9
              /\ Binding!Steps(a)[n] = "sources" => n \in {10, 14, 17}
              /\ Binding!Steps(a)[n] = "committed" => n = 11
BY DEF Binding!Steps

LEMMA BindingAt ==
  ASSUME Reading, NEW step, Binding!At(step)
  PROVE  reader.at \in 1..21 /\ Binding!Steps(reader.authority)[reader.at] = step
<1>1. reader.steps = Binding!Steps(reader.authority)
  BY DEF Reading
<1>2. Len(reader.steps) = 21
  BY <1>1, BindingPlaces
<1>3. reader.at <= 21 /\ reader.steps[reader.at] = step
  BY <1>2 DEF Binding!At
<1> QED
  BY <1>1, <1>3 DEF Reading

LEMMA InitBinding == PartsInit => BindingInv
<1> SUFFICES ASSUME PartsInit, part = "binding"
             PROVE  BindingOwned
  BY DEF BindingInv
<1>1. Binding!Init
  BY DEF PartsInit
<1>2. Binding!First \in Trees /\ Binding!Second \in Trees
  BY DEF Trees, Values, Binding!First, Binding!Second
<1>3. Recorded
  <2>1. PICK c1, c2 : /\ c1 = [tree |-> Binding!First, before |-> {1}]
                      /\ c2 = [tree |-> Binding!Second, before |-> {1, 2}]
                      /\ bindCommits = <<c1, c2>>
    BY <1>1 DEF Binding!Init
  <2>2. /\ c1 \in [tree : Trees, before : SUBSET Nat] /\ c2 \in [tree : Trees, before : SUBSET Nat]
        /\ c1.before = {1} /\ c2.before = {1, 2}
    BY <1>2, <2>1
  <2>3. bindCommits \in Seq([tree : Trees, before : SUBSET Nat]) /\ DOMAIN bindCommits = {1, 2}
    BY <2>1, <2>2
  <2>4. \A c \in DOMAIN bindCommits : bindCommits[c].before \subseteq DOMAIN bindCommits
    BY <2>1, <2>2, <2>3
  <2>5. regained = FALSE /\ bindHead = 2 /\ working = Binding!Second /\ past = {Binding!State}
    BY <1>1 DEF Binding!Init
  <2> QED
    BY <1>2, <2>3, <2>4, <2>5 DEF Recorded
<1>4. PICK a : reader = [at |-> 1, steps |-> Binding!Steps(a), authority |-> a,
                         selected |-> Binding!Draft, got |-> [x \in {} |-> 0], whole |-> FALSE]
  BY <1>1 DEF Binding!Init
<1> QED
  BY <1>3, <1>4 DEF BindingOwned, Reading, Got, Checked, Moved, Binding!Known

(***************************************************************************)
(* The developer.                                                          *)
(***************************************************************************)

(* What was once there and is no longer does not come back unseen.           *)
LEMMA NothingReturns ==
  ASSUME Recorded, Binding!Change, Recorded'
  PROVE  /\ past \subseteq past' /\ UNCHANGED <<loaded, reader>>
         /\ ~regained' => ~regained
         /\ \A f \in Binding!Files : \A v :
              ~regained' /\ Prior(f, v) /\ working[f] # v => working'[f] # v
         /\ \A c : ~regained' /\ (\E s \in past : s.head = c) /\ bindHead # c => bindHead' # c
<1>1. /\ past' = past \cup {Binding!State'} /\ UNCHANGED <<loaded, reader>>
      /\ regained' = (regained \/ (\E s \in past :
                       \/ s.head = bindHead' /\ bindHead' # bindHead
                       \/ \E f \in Binding!Files :
                            s.file[f] = working'[f] /\ working'[f] # working[f]))
  BY DEF Binding!Change
<1>2. ~regained' =>
        /\ ~regained
        /\ \A s \in past :
             /\ ~(s.head = bindHead' /\ bindHead' # bindHead)
             /\ \A f \in Binding!Files :
                  ~(s.file[f] = working'[f] /\ working'[f] # working[f])
  BY <1>1
<1> QED
  BY <1>1, <1>2 DEF Prior

LEMMA ChangeBinding ==
  ASSUME BindingOwned, Binding!Change, Recorded',
         DOMAIN bindCommits \subseteq DOMAIN bindCommits',
         \A c \in DOMAIN bindCommits : bindCommits'[c] = bindCommits[c]
  PROVE  BindingOwned'
<1> USE DEF BindingOwned
<1>1. /\ past \subseteq past' /\ UNCHANGED <<loaded, reader>>
      /\ ~regained' => ~regained
      /\ \A f \in Binding!Files : \A v :
           ~regained' /\ Prior(f, v) /\ working[f] # v => working'[f] # v
      /\ \A c : ~regained' /\ (\E s \in past : s.head = c) /\ bindHead # c => bindHead' # c
  BY NothingReturns
<1>2. \A f, v : Prior(f, v) => Prior(f, v)'
  BY <1>1 DEF Prior
<1>3. Reading'
  BY <1>1 DEF Reading
<1>4. Got'
  <2>1. \A f \in Binding!Known \ {"head"} : Prior(f, reader.got[f])'
    BY <1>1, <1>2 DEF Got
  <2>2. Binding!Known' = Binding!Known
    BY <1>1 DEF Binding!Known
  <2> QED
    BY <1>1, <2>1, <2>2 DEF Got
<1>5. reader.at \in 5..22 => reader.got["head"] \in DOMAIN bindCommits
  BY DEF Got
<1>6. reader.at \in 7..22 => /\ reader.authority \in DOMAIN bindCommits
                             /\ reader.selected.commit \in DOMAIN bindCommits
  BY <1>5 DEF Checked, Recorded
<1>7. Checked'
  BY <1>1, <1>5, <1>6 DEF Checked, Got, Binding!Closure, Binding!Known
<1>8. Moved'
  <2> SUFFICES ASSUME ~regained', ~reader'.whole
               PROVE  (/\ reader.at = 14 =>
                           \/ bindHead # reader.got["head"]
                           \/ \A f \in Binding!Files :
                                Prior(f, bindCommits[reader.got["head"]].tree[f])
                       /\ reader.at \in 15..22 => Outstanding)'
    BY DEF Moved
  <2>1. ~regained /\ ~reader.whole /\ reader' = reader
    BY <1>1
  <2>2. reader.at \in 14..22 => bindCommits'[reader.got["head"]] = bindCommits[reader.got["head"]]
    BY <1>5
  <2>3. reader.at \in 14..22 /\ bindHead # reader.got["head"] => bindHead' # reader.got["head"]
    BY <1>1, <1>5 DEF Got
  <2>4. CASE reader.at = 14
    <3>1. bindHead # reader.got["head"]
          \/ \A f \in Binding!Files : Prior(f, bindCommits[reader.got["head"]].tree[f])
      BY <2>1, <2>4 DEF Moved
    <3>2. CASE bindHead # reader.got["head"]
      BY <2>1, <2>3, <2>4, <3>2
    <3>3. CASE \A f \in Binding!Files : Prior(f, bindCommits[reader.got["head"]].tree[f])
      <4>1. PICK t : t = bindCommits[reader.got["head"]].tree
        OBVIOUS
      <4>2. t = bindCommits'[reader'.got["head"]].tree
        BY <2>1, <2>2, <2>4, <4>1
      <4>3. \A f \in Binding!Files : Prior(f, t[f])'
        BY <1>2, <3>3, <4>1
      <4>4. \A f \in Binding!Files : Prior(f, bindCommits[reader.got["head"]].tree[f])'
        BY <4>2, <4>3
      <4> QED
        BY <2>1, <2>4, <4>4
    <3> QED
      BY <3>1, <3>2, <3>3
  <2>5. CASE reader.at \in 15..22
    <3>1. Outstanding
      BY <2>1, <2>5 DEF Moved
    <3>2. \A f \in {"contract", "preregistration", "validator", "lock"} :
            working[f] # reader.got[f] => working'[f] # reader.got[f]
      <4> SUFFICES ASSUME NEW f \in {"contract", "preregistration", "validator", "lock"},
                          working[f] # reader.got[f]
                   PROVE  working'[f] # reader.got[f]
        OBVIOUS
      <4>1. /\ "contract" \in Binding!Known /\ "preregistration" \in Binding!Known
            /\ "validator" \in Binding!Known /\ "lock" \in Binding!Known
        <5>1. reader.at \in 3..22 /\ reader.at \in 4..22 /\ reader.at \in 8..22 /\ reader.at \in 9..22
          BY <2>5
        <5> QED
          BY <5>1 DEF Got
      <4>11. f \in Binding!Known \ {"head"}
        BY <4>1
      <4>12. f \in Binding!Files
        BY DEF Binding!Files, Binding!SourceFiles
      <4>2. Prior(f, reader.got[f])
        BY <4>11 DEF Got
      <4> QED
        BY <1>1, <2>1, <4>12, <4>2
    <3>3. \A f \in Binding!Files : \A v :
            Prior(f, v) /\ working[f] # v => Prior(f, v)' /\ working'[f] # v
      BY <1>1, <1>2
    <3>4. PICK t : t = bindCommits[reader.got["head"]].tree
      OBVIOUS
    <3>5. t = bindCommits'[reader'.got["head"]].tree
      BY <2>1, <2>2, <2>5, <3>4
    <3>6. (\E f \in Binding!Files : Prior(f, t[f]) /\ working[f] # t[f]) =>
            (\E f \in Binding!Files : Prior(f, t[f])' /\ working'[f] # t[f])
      BY <3>3
    <3>7. (\E f \in Binding!Files : Prior(f, t[f])' /\ working'[f] # t[f]) =>
            (\E f \in Binding!Files :
               LET v == bindCommits[reader.got["head"]].tree[f]
               IN  Prior(f, v) /\ working[f] # v)'
      BY <3>5
    <3> QED
      BY <2>1, <2>3, <2>5, <3>1, <3>2, <3>4, <3>6, <3>7 DEF Outstanding
  <2> QED
    BY <2>1, <2>4, <2>5
<1> QED
  BY <1>3, <1>4, <1>7, <1>8

LEMMA DeveloperBinding ==
  ASSUME BindingOwned, (\E f \in Binding!Files : Binding!Edit(f)) \/ Binding!Commit \/ Binding!Checkout
  PROVE  BindingOwned'
<1>0. Recorded
  BY DEF BindingOwned
<1>1. Binding!Change
  BY DEF Binding!Edit, Binding!Commit, Binding!Checkout
<1>2. regained' \in BOOLEAN /\ Binding!State' \in past'
  BY <1>1 DEF Binding!Change
<1>3. ASSUME NEW f \in Binding!Files, Binding!Edit(f)
      PROVE  BindingOwned'
  <2>1. PICK content \in Binding!Contents(f) : working' = [working EXCEPT ![f] = content]
    BY <1>3 DEF Binding!Edit
  <2>2. content \in Values
    BY DEF Binding!Contents, Values
  <2>3. working' \in Trees
    BY <1>0, <2>1, <2>2 DEF Recorded, Trees
  <2>4. UNCHANGED <<bindCommits, bindHead>>
    BY <1>3 DEF Binding!Edit
  <2>5. Recorded'
    BY <1>0, <1>2, <2>3, <2>4 DEF Recorded
  <2> QED
    BY <1>1, <2>4, <2>5, ChangeBinding
<1>4. ASSUME Binding!Commit
      PROVE  BindingOwned'
  <2>1. PICK new : /\ new = [tree |-> working, before |->
                               bindCommits[bindHead].before \cup {Len(bindCommits) + 1}]
                   /\ bindCommits' = Append(bindCommits, new)
                   /\ bindHead' = Len(bindCommits) + 1 /\ UNCHANGED working
    BY <1>4 DEF Binding!Commit
  <2>2. /\ bindCommits \in Seq([tree : Trees, before : SUBSET Nat]) /\ bindHead \in DOMAIN bindCommits
        /\ bindCommits[bindHead].before \subseteq DOMAIN bindCommits
    BY <1>0 DEF Recorded
  <2>3. DOMAIN bindCommits = 1..Len(bindCommits) /\ Len(bindCommits) \in Nat
    BY <2>2
  <2>4. new.before \subseteq 1..(Len(bindCommits) + 1)
    BY <2>1, <2>2, <2>3
  <2>5. new \in [tree : Trees, before : SUBSET Nat]
    <3>1. new.before \subseteq Nat
      BY <2>3, <2>4
    <3> QED
      BY <1>0, <2>1, <3>1 DEF Recorded
  <2>6. /\ bindCommits' \in Seq([tree : Trees, before : SUBSET Nat])
        /\ DOMAIN bindCommits' = 1..(Len(bindCommits) + 1)
        /\ bindCommits'[Len(bindCommits) + 1] = new
        /\ \A c \in 1..Len(bindCommits) : bindCommits'[c] = bindCommits[c]
    BY <2>1, <2>2, <2>3, <2>5
  <2>7. \A c \in DOMAIN bindCommits' : bindCommits'[c].before \subseteq DOMAIN bindCommits'
    <3> SUFFICES ASSUME NEW c \in DOMAIN bindCommits'
                 PROVE  bindCommits'[c].before \subseteq DOMAIN bindCommits'
      OBVIOUS
    <3>1. CASE c \in DOMAIN bindCommits
      <4>1. bindCommits[c].before \subseteq DOMAIN bindCommits
        BY <1>0, <3>1 DEF Recorded
      <4> QED
        BY <2>3, <2>6, <3>1, <4>1
    <3>2. CASE c = Len(bindCommits) + 1
      BY <2>4, <2>6, <3>2
    <3> QED
      BY <2>3, <2>6, <3>1, <3>2
  <2>8. bindHead' \in DOMAIN bindCommits'
    BY <2>1, <2>3, <2>6
  <2>9. Recorded'
    BY <1>0, <1>2, <2>1, <2>6, <2>7, <2>8 DEF Recorded
  <2> QED
    BY <1>1, <2>3, <2>6, <2>9, ChangeBinding
<1>5. ASSUME Binding!Checkout
      PROVE  BindingOwned'
  <2>0. DOMAIN bindCommits = 1..Len(bindCommits)
    BY <1>0 DEF Recorded
  <2>1. bindHead' \in DOMAIN bindCommits /\ UNCHANGED bindCommits
        /\ working' = bindCommits[bindHead'].tree
    <3>1. bindHead' \in (1..Len(bindCommits)) \ {bindHead}
      BY <1>5 DEF Binding!Checkout
    <3>2. UNCHANGED bindCommits /\ working' = bindCommits[bindHead'].tree
      BY <1>5 DEF Binding!Checkout
    <3> QED
      BY <2>0, <3>1, <3>2
  <2>2. working' \in Trees
    <3>1. bindCommits \in Seq([tree : Trees, before : SUBSET Nat])
      BY <1>0 DEF Recorded
    <3>2. bindCommits[bindHead'] \in [tree : Trees, before : SUBSET Nat]
      BY <2>0, <2>1, <3>1, ElementOfSeq
    <3> QED
      BY <2>1, <3>2
  <2>3. Recorded'
    BY <1>0, <1>2, <2>1, <2>2 DEF Recorded
  <2> QED
    BY <1>1, <2>1, <2>3, ChangeBinding
<1> QED
  BY <1>3, <1>4, <1>5

(***************************************************************************)
(* The verification.                                                       *)
(***************************************************************************)

(* What a step of the verification leaves alone.                             *)
LEMMA SameWorld ==
  ASSUME Recorded, Binding!World' = Binding!World
  PROVE  /\ Recorded' /\ UNCHANGED <<bindCommits, bindHead, working, loaded, past, regained>>
         /\ \A f, v : Prior(f, v)' <=> Prior(f, v)
BY DEF Binding!World, Recorded, Binding!State, Prior

LEMMA RefuseBinding ==
  ASSUME BindingOwned, Binding!World' = Binding!World, Binding!Refuse
  PROVE  BindingOwned'
<1>1. /\ Recorded' /\ UNCHANGED <<bindCommits, bindHead, working, loaded, past, regained>>
      /\ \A f, v : Prior(f, v)' <=> Prior(f, v)
  BY SameWorld DEF BindingOwned
<1>2. reader' = [reader EXCEPT !.at = 100]
  BY DEF Binding!Refuse, Binding!Refused
<1>3. reader' = [at |-> 100, steps |-> Binding!Steps(reader.authority),
                 authority |-> reader.authority, selected |-> reader.selected,
                 got |-> reader.got, whole |-> reader.whole]
  BY <1>2 DEF BindingOwned, Reading
<1>4. /\ reader'.at = 100 /\ reader'.authority = reader.authority
      /\ reader'.selected = reader.selected /\ reader'.got = reader.got
      /\ reader'.whole = reader.whole /\ reader'.steps = Binding!Steps(reader.authority)
  BY <1>3
<1>5. Reading'
  BY <1>3, <1>4 DEF BindingOwned, Reading
<1>6. Got'
  BY <1>1, <1>4 DEF BindingOwned, Got, Binding!Known
<1>7. Checked'
  BY <1>1, <1>4 DEF BindingOwned, Checked, Binding!Known
<1>8. Moved'
  BY <1>4 DEF Moved
<1> QED
  BY <1>1, <1>5, <1>6, <1>7, <1>8 DEF BindingOwned

(* One more thing may be read, and what was read stays.                      *)
Readable == {"contract", "preregistration", "head", "validator", "lock"}

ReadsOn(got) ==
  /\ Binding!Known \subseteq DOMAIN got /\ DOMAIN got \subseteq Readable
  /\ \A y \in Binding!Known : got[y] = reader.got[y]

Advances(got, whole) ==
  reader' = [at |-> reader.at + 1, steps |-> Binding!Steps(reader.authority),
             authority |-> reader.authority, selected |-> reader.selected,
             got |-> got, whole |-> whole]

LEMMA GotStep ==
  ASSUME BindingOwned, Binding!World' = Binding!World, reader.at \in 2..21,
         NEW got, NEW whole, Advances(got, whole), ReadsOn(got),
         reader.at = 2 => "contract" \in DOMAIN got,
         reader.at = 3 => "preregistration" \in DOMAIN got,
         reader.at = 4 => "head" \in DOMAIN got,
         reader.at = 7 => "validator" \in DOMAIN got,
         reader.at = 8 => "lock" \in DOMAIN got,
         \A y \in DOMAIN got \ Binding!Known :
           /\ got[y] = IF y = "head" THEN bindHead ELSE working[y]
           /\ y = "contract" => got[y] = reader.selected /\ reader.selected.sealed
           /\ y \in {"preregistration", "validator", "lock"} => got[y] = reader.selected[y]
  PROVE  Got'
<1>1. /\ reader'.at = reader.at + 1 /\ reader'.got = got /\ reader'.selected = reader.selected
  BY DEF Advances
<1>2. /\ UNCHANGED <<bindCommits, bindHead, working, past>>
      /\ \A f, v : Prior(f, v)' <=> Prior(f, v)
  BY SameWorld DEF BindingOwned
<1>3. Binding!Known' = DOMAIN got
  BY <1>1 DEF Binding!Known
<1>4. Binding!State \in past /\ bindHead \in DOMAIN bindCommits
  BY DEF BindingOwned, Recorded
<1>5. Binding!State.file = working /\ Binding!State.head = bindHead
  BY DEF Binding!State
<1>6. /\ reader'.at \in 3..22 => "contract" \in DOMAIN got
      /\ reader'.at \in 4..22 => "preregistration" \in DOMAIN got
      /\ reader'.at \in 5..22 => "head" \in DOMAIN got
      /\ reader'.at \in 8..22 => "validator" \in DOMAIN got
      /\ reader'.at \in 9..22 => "lock" \in DOMAIN got
  <2>1. /\ reader.at \in 3..22 => "contract" \in DOMAIN got
        /\ reader.at \in 4..22 => "preregistration" \in DOMAIN got
        /\ reader.at \in 5..22 => "head" \in DOMAIN got
        /\ reader.at \in 8..22 => "validator" \in DOMAIN got
        /\ reader.at \in 9..22 => "lock" \in DOMAIN got
    BY DEF BindingOwned, Got, ReadsOn
  <2> QED
    BY <1>1, <2>1
<1>7. "contract" \in DOMAIN got => got["contract"] = reader.selected /\ reader.selected.sealed
  <2>1. CASE "contract" \in Binding!Known
    BY <2>1 DEF BindingOwned, Got, ReadsOn
  <2> QED
    BY <2>1
<1>8. \A f \in {"preregistration", "validator", "lock"} :
        f \in DOMAIN got => got[f] = reader.selected[f]
  <2> SUFFICES ASSUME NEW f \in {"preregistration", "validator", "lock"}, f \in DOMAIN got
               PROVE  got[f] = reader.selected[f]
    OBVIOUS
  <2>1. CASE f \in Binding!Known
    BY <2>1 DEF BindingOwned, Got, ReadsOn
  <2> QED
    BY <2>1
<1>9. "head" \in DOMAIN got =>
        got["head"] \in DOMAIN bindCommits /\ \E s \in past : s.head = got["head"]
  <2>1. CASE "head" \in Binding!Known
    BY <2>1 DEF BindingOwned, Got, ReadsOn
  <2>2. CASE "head" \in DOMAIN got \ Binding!Known
    <3>1. got["head"] = bindHead
      BY <2>2
    <3> QED
      BY <1>4, <1>5, <3>1
  <2> QED
    BY <2>1, <2>2
<1>10. \A f \in DOMAIN got \ {"head"} : Prior(f, got[f])
  <2> SUFFICES ASSUME NEW f \in DOMAIN got \ {"head"}
               PROVE  Prior(f, got[f])
    OBVIOUS
  <2>1. CASE f \in Binding!Known
    BY <2>1 DEF BindingOwned, Got, ReadsOn
  <2>2. CASE f \notin Binding!Known
    <3>1. got[f] = working[f]
      BY <2>2
    <3> QED
      BY <1>4, <1>5, <3>1 DEF Prior
  <2> QED
    BY <2>1, <2>2
<1>11. \A f \in DOMAIN got \ {"head"} : Prior(f, got[f])'
  BY <1>2, <1>10
<1>12. DOMAIN got \subseteq Readable /\ reader'.at > 2
  BY <1>1 DEF ReadsOn
<1>13. \A f : Prior(f, reader.got[f])' <=> Prior(f, got[f])'
  BY <1>1 DEF Prior
<1>14. (\A f \in Binding!Known \ {"head"} : Prior(f, reader.got[f]))'
  BY <1>3, <1>11, <1>13
<1>15. /\ Binding!Known' \subseteq Readable
       /\ reader'.at \in 3..22 => "contract" \in Binding!Known'
       /\ reader'.at \in 4..22 => "preregistration" \in Binding!Known'
       /\ reader'.at \in 5..22 => "head" \in Binding!Known'
       /\ reader'.at \in 8..22 => "validator" \in Binding!Known'
       /\ reader'.at \in 9..22 => "lock" \in Binding!Known'
  BY <1>3, <1>6, <1>12
<1>16. "contract" \in Binding!Known' => reader'.got["contract"] = reader'.selected
                                        /\ reader'.selected.sealed
  BY <1>1, <1>3, <1>7
<1>17. \A f \in {"preregistration", "validator", "lock"} :
         f \in Binding!Known' => reader'.got[f] = reader'.selected[f]
  BY <1>1, <1>3, <1>8
<1>18. "head" \in Binding!Known' =>
         /\ reader'.got["head"] \in DOMAIN bindCommits'
         /\ \E s \in past' : s.head = reader'.got["head"]
  BY <1>1, <1>2, <1>3, <1>9
<1>19. ~(reader'.at <= 2)
  BY <1>1
<1> QED
  BY <1>14, <1>15, <1>16, <1>17, <1>18, <1>19 DEF Got, Readable

LEMMA CheckedStep ==
  ASSUME BindingOwned, Binding!World' = Binding!World, reader.at \in 1..21 \ {6, 9, 10, 11},
         NEW got, Advances(got, reader.whole), ReadsOn(got)
  PROVE  Checked'
<1>1. /\ reader'.at = reader.at + 1 /\ reader'.got = got /\ reader'.selected = reader.selected
      /\ reader'.authority = reader.authority /\ reader'.whole = reader.whole
  BY DEF Advances
<1>2. UNCHANGED <<bindCommits, loaded>>
  BY SameWorld DEF BindingOwned
<1>3. /\ reader'.at \in 7..22 => reader.at \in 7..22 /\ reader.at \in 5..22
      /\ reader'.at \in 10..22 => reader.at \in 10..22 /\ reader.at \in 8..22
      /\ reader'.at \in 11..22 => reader.at \in 11..22 /\ reader.at \in 5..22
      /\ reader'.at \in 12..22 => reader.at \in 12..22 /\ reader.at \in 5..22 /\ reader.at \in 3..22
      /\ reader.at \in 11..22 => reader'.at \in 11..22
  BY <1>1
<1>4. /\ reader.at \in 5..22 => got["head"] = reader.got["head"]
      /\ reader.at \in 8..22 => got["validator"] = reader.got["validator"]
      /\ reader.at \in 3..22 => got["contract"] = reader.got["contract"]
      /\ "head" \in Binding!Known => got["head"] = reader.got["head"] /\ "head" \in DOMAIN got
  BY DEF BindingOwned, Got, ReadsOn
<1>5. /\ reader'.at \in 7..22 =>
           /\ reader.authority \in bindCommits[got["head"]].before
           /\ reader.selected.commit \in bindCommits[reader.authority].before
           /\ bindCommits[reader.selected.commit].tree["preregistration"]
                = reader.selected.preregistration
      /\ reader'.at \in 10..22 => loaded = got["validator"]
  BY <1>3, <1>4 DEF BindingOwned, Checked
<1>6. /\ reader'.at \in 11..22 =>
           /\ Binding!Closure(got["head"]) = Binding!Closure(reader.authority)
           /\ bindCommits[reader.authority].tree["validator"] = reader.selected.validator
      /\ reader'.at \in 12..22 => bindCommits[got["head"]].tree["contract"] = got["contract"]
  BY <1>3, <1>4 DEF BindingOwned, Checked
<1>7. reader.whole =>
        /\ reader'.at \in 11..22 \cup {100} /\ "head" \in DOMAIN got
        /\ bindCommits[got["head"]].tree["lock"] = reader.selected.lock
  BY <1>3, <1>4 DEF BindingOwned, Checked
<1>8. \A c, d : Binding!Closure(c) = Binding!Closure(d) =>
                  [f \in Binding!SourceFiles |-> bindCommits'[c].tree[f]]
                    = [f \in Binding!SourceFiles |-> bindCommits'[d].tree[f]]
  BY <1>2 DEF Binding!Closure
<1>9. (reader.at \in 11..22 => Binding!Closure(reader.got["head"]) = Binding!Closure(reader.authority))'
  <2>1. (Binding!Closure(reader.got["head"]) = Binding!Closure(reader.authority))'
        <=> [f \in Binding!SourceFiles |-> bindCommits'[got["head"]].tree[f]]
             = [f \in Binding!SourceFiles |-> bindCommits'[reader.authority].tree[f]]
    BY <1>1 DEF Binding!Closure
  <2> QED
    BY <1>6, <1>8, <2>1
<1>10. Binding!Known' = DOMAIN got
  BY <1>1 DEF Binding!Known
<1> QED
  BY <1>1, <1>2, <1>5, <1>6, <1>7, <1>9, <1>10 DEF Checked

LEMMA MovedStep ==
  ASSUME BindingOwned, Binding!World' = Binding!World, reader.at \in 1..21 \ {13, 14},
         NEW got, NEW whole \in BOOLEAN, Advances(got, whole), ReadsOn(got), reader.whole => whole,
         reader.at = 15 => Binding!Clean,
         reader.at = 16 => bindHead = got["head"],
         reader.at = 18 => working["preregistration"] = got["preregistration"],
         reader.at = 19 => working["validator"] = got["validator"],
         reader.at = 20 => working["lock"] = got["lock"],
         reader.at = 21 => working["contract"] = got["contract"]
  PROVE  Moved'
<1>1. /\ reader'.at = reader.at + 1 /\ reader'.got = got /\ reader'.whole = whole
  BY DEF Advances
<1>2. UNCHANGED <<bindCommits, bindHead, working, regained, past>>
  BY SameWorld DEF BindingOwned
<1>3. reader'.at # 14
  BY <1>1
<1>4. SUFFICES ASSUME ~regained, ~whole, reader.at \in 15..21
               PROVE  Outstanding'
  BY <1>1, <1>2, <1>3 DEF Moved
<1>5. Outstanding
  BY <1>4 DEF BindingOwned, Moved
<1>6. /\ got["head"] = reader.got["head"] /\ got["validator"] = reader.got["validator"]
      /\ got["contract"] = reader.got["contract"] /\ got["lock"] = reader.got["lock"]
      /\ got["preregistration"] = reader.got["preregistration"]
  <2>1. /\ reader.at \in 3..22 /\ reader.at \in 4..22 /\ reader.at \in 5..22
        /\ reader.at \in 8..22 /\ reader.at \in 9..22
    BY <1>4
  <2> QED
    BY <2>1 DEF BindingOwned, Got, ReadsOn
<1>7. CASE reader.at = 15
  <2>1. working = bindCommits[bindHead].tree
    BY <1>7 DEF Binding!Clean
  <2>2. (\E f \in Binding!Files : working[f] # bindCommits[reader.got["head"]].tree[f])
          => bindHead # reader.got["head"]
    BY <2>1
  <2> QED
    BY <1>1, <1>2, <1>5, <1>6, <1>7, <2>2 DEF Outstanding
<1>8. CASE reader.at \in 16..21
  BY <1>1, <1>2, <1>5, <1>6, <1>8 DEF Outstanding
<1> QED
  BY <1>4, <1>7, <1>8

LEMMA ReadingStep ==
  ASSUME reader.at \in 1..21, NEW got, NEW whole \in BOOLEAN, Advances(got, whole)
  PROVE  Reading'
<1>1. /\ reader'.at = reader.at + 1 /\ reader'.authority = reader.authority
      /\ reader'.selected = reader.selected /\ reader'.got = got /\ reader'.whole = whole
  BY DEF Advances
<1> QED
  BY <1>1 DEF Reading, Advances

(* One thing is read, for the first time or again.                           *)
LEMMA TakenOrCompared ==
  ASSUME BindingOwned, NEW x \in Readable, NEW content, NEW right \in BOOLEAN,
         Binding!TakeOrCompare(x, content, right)
  PROVE  \/ Binding!Refuse
         \/ \E got : /\ Advances(got, reader.whole) /\ ReadsOn(got)
                     /\ x \in DOMAIN got /\ got[x] = content
                     /\ DOMAIN got \ Binding!Known \subseteq {x}
                     /\ x \notin Binding!Known => right
<1>1. reader = [at |-> reader.at, steps |-> Binding!Steps(reader.authority),
                authority |-> reader.authority, selected |-> reader.selected,
                got |-> reader.got, whole |-> reader.whole]
  BY DEF BindingOwned, Reading
<1>2. Binding!Known \subseteq Readable
  BY DEF BindingOwned, Got, Readable
<1>3. CASE x \in Binding!Known
  <2>1. CASE reader.got[x] = content
    <3>1. reader' = [reader EXCEPT !.at = reader.at + 1]
      BY <1>3, <2>1 DEF Binding!TakeOrCompare, Binding!Check
    <3>2. Advances(reader.got, reader.whole)
      BY <1>1, <3>1 DEF Advances
    <3>3. ReadsOn(reader.got) /\ x \in DOMAIN reader.got
      BY <1>2, <1>3 DEF ReadsOn, Binding!Known
    <3> QED
      BY <1>3, <2>1, <3>2, <3>3 DEF Binding!Known
  <2>2. CASE reader.got[x] # content
    BY <1>3, <2>2 DEF Binding!TakeOrCompare, Binding!Check
  <2> QED
    BY <2>1, <2>2
<1>4. CASE x \notin Binding!Known /\ right
  <2>1. PICK got : got = [y \in Binding!Known \cup {x} |-> IF y = x THEN content ELSE reader.got[y]]
    OBVIOUS
  <2>2. reader' = [reader EXCEPT !.at = reader.at + 1, !.got = got]
    <3>1. Binding!Take(x, content)
      BY <1>4 DEF Binding!TakeOrCompare
    <3>2. reader' = [reader EXCEPT !.at = reader.at + 1,
                       !.got = [y \in Binding!Known \cup {x} |->
                                  IF y = x THEN content ELSE reader.got[y]]]
      BY <3>1, Zenon DEF Binding!Take
    <3> QED
      BY <2>1, <3>2, Zenon
  <2>3. Advances(got, reader.whole)
    <3>1. PICK n, a, s, w, t :
            /\ n = reader.at + 1 /\ w = reader.whole /\ t = Binding!Steps(reader.authority)
            /\ a = reader.authority /\ s = reader.selected
      OBVIOUS
    <3>2. reader' = [reader EXCEPT !.at = n, !.got = got]
      BY <2>2, <3>1
    <3>4. reader = [at |-> reader.at, steps |-> t, authority |-> a, selected |-> s,
                    got |-> reader.got, whole |-> w]
      BY <1>1, <3>1
    <3>5. PICK r : r = [reader EXCEPT !.at = n]
      OBVIOUS
    <3>6. r = [at |-> n, steps |-> t, authority |-> a, selected |-> s,
               got |-> reader.got, whole |-> w]
      BY <3>4, <3>5
    <3>7. reader' = [r EXCEPT !.got = got]
      BY <3>2, <3>5
    <3>3. reader' = [at |-> n, steps |-> t, authority |-> a, selected |-> s,
                     got |-> got, whole |-> w]
      BY <3>6, <3>7
    <3> QED
      BY <3>1, <3>3 DEF Advances
  <2>4. DOMAIN got = Binding!Known \cup {x} /\ got[x] = content
        /\ \A y \in Binding!Known : got[y] = reader.got[y]
    BY <1>4, <2>1
  <2>5. ReadsOn(got)
    BY <1>2, <2>4 DEF ReadsOn
  <2> QED
    BY <1>4, <2>3, <2>4, <2>5
<1>5. CASE x \notin Binding!Known /\ ~right
  BY <1>5 DEF Binding!TakeOrCompare
<1> QED
  BY <1>3, <1>4, <1>5

LEMMA ReadBinding ==
  ASSUME BindingOwned, Binding!World' = Binding!World, NEW x \in Readable,
         NEW content, content = IF x = "head" THEN bindHead ELSE working[x],
         NEW right \in BOOLEAN,
         right => /\ x = "contract" => content = reader.selected /\ reader.selected.sealed
                  /\ x \in {"preregistration", "validator", "lock"} =>
                       content = reader.selected[x],
         reader.at \in {2, 3, 4, 7, 8, 12, 16, 18, 19, 20, 21},
         reader.at \in {2, 21} => x = "contract",
         reader.at \in {3, 18} => x = "preregistration",
         reader.at \in {4, 16} => x = "head",
         reader.at \in {7, 19} => x = "validator",
         reader.at \in {8, 20} => x = "lock",
         Binding!TakeOrCompare(x, content, right)
  PROVE  BindingOwned'
<1>1. SUFFICES ASSUME NEW got, Advances(got, reader.whole), ReadsOn(got),
                      x \in DOMAIN got, got[x] = content,
                      DOMAIN got \ Binding!Known \subseteq {x},
                      x \notin Binding!Known => right
               PROVE  BindingOwned'
  BY TakenOrCompared, RefuseBinding
<1>2. reader.at \in 2..21 /\ reader.at \in 1..21 \ {6, 9, 10, 11} /\ reader.at \in 1..21 \ {13, 14}
      /\ reader.at \in 1..21 /\ reader.whole \in BOOLEAN
  BY DEF BindingOwned, Reading
<1>3. \A y \in DOMAIN got \ Binding!Known :
        /\ got[y] = IF y = "head" THEN bindHead ELSE working[y]
        /\ y = "contract" => got[y] = reader.selected /\ reader.selected.sealed
        /\ y \in {"preregistration", "validator", "lock"} => got[y] = reader.selected[y]
  <2> SUFFICES ASSUME NEW y \in DOMAIN got \ Binding!Known
               PROVE  /\ got[y] = IF y = "head" THEN bindHead ELSE working[y]
                      /\ y = "contract" => got[y] = reader.selected /\ reader.selected.sealed
                      /\ y \in {"preregistration", "validator", "lock"} => got[y] = reader.selected[y]
    OBVIOUS
  <2>1. y = x /\ right
    BY <1>1
  <2> QED
    BY <1>1, <2>1
<1>4. /\ reader.at = 2 => "contract" \in DOMAIN got
      /\ reader.at = 3 => "preregistration" \in DOMAIN got
      /\ reader.at = 4 => "head" \in DOMAIN got
      /\ reader.at = 7 => "validator" \in DOMAIN got
      /\ reader.at = 8 => "lock" \in DOMAIN got
  BY <1>1
<1>5. Got'
  BY <1>1, <1>2, <1>3, <1>4, GotStep
<1>6. Checked'
  BY <1>1, <1>2, CheckedStep
<1>7. /\ reader.at # 15
      /\ reader.at = 16 => bindHead = got["head"]
      /\ reader.at = 18 => working["preregistration"] = got["preregistration"]
      /\ reader.at = 19 => working["validator"] = got["validator"]
      /\ reader.at = 20 => working["lock"] = got["lock"]
      /\ reader.at = 21 => working["contract"] = got["contract"]
  BY <1>1
<1>8. Moved'
  BY <1>1, <1>2, <1>7, MovedStep
<1>9. Reading'
  BY <1>1, <1>2, ReadingStep
<1> QED
  BY <1>5, <1>6, <1>8, <1>9, SameWorld DEF BindingOwned

LEMMA ReadersBinding ==
  ASSUME BindingOwned,
         \/ Binding!ReadContract \/ Binding!ReadPreregistration \/ Binding!ReadHead
         \/ Binding!ReadValidator \/ Binding!ReadLock
  PROVE  BindingOwned'
<1> USE DEF Readable
<1>0. Reading
  BY DEF BindingOwned
<1>1. CASE Binding!ReadContract
  <2>1. reader.at \in {2, 21}
    BY <1>0, <1>1, BindingAt, BindingPlaces DEF Binding!ReadContract
  <2>2. PICK right \in BOOLEAN :
          right <=> working["contract"] = reader.selected /\ reader.selected.sealed
    OBVIOUS
  <2>3. Binding!TakeOrCompare("contract", working["contract"], right)
        /\ Binding!World' = Binding!World
    <3>1. right = (working["contract"] = reader.selected /\ reader.selected.sealed)
      BY <2>2, Zenon
    <3> QED
      BY <1>1, <3>1, Zenon DEF Binding!ReadContract, Binding!World
  <2> QED
    BY <2>1, <2>2, <2>3, ReadBinding
<1>2. CASE Binding!ReadPreregistration
  <2>1. reader.at \in {3, 18}
    BY <1>0, <1>2, BindingAt, BindingPlaces DEF Binding!ReadPreregistration
  <2>2. PICK right \in BOOLEAN :
          right = (working["preregistration"] = Binding!Says("preregistration"))
    BY Zenon
  <2>3. Binding!TakeOrCompare("preregistration", working["preregistration"], right)
        /\ Binding!World' = Binding!World
    BY <1>2, <2>2, Zenon DEF Binding!ReadPreregistration, Binding!World
  <2>4. right => working["preregistration"] = reader.selected["preregistration"]
    BY <2>2 DEF Binding!Says
  <2> QED
    BY <2>1, <2>3, <2>4, ReadBinding
<1>3. CASE Binding!ReadHead
  <2>1. reader.at \in {4, 12, 16}
    BY <1>0, <1>3, BindingAt, BindingPlaces DEF Binding!ReadHead
  <2>2. Binding!TakeOrCompare("head", bindHead, TRUE) /\ Binding!World' = Binding!World
    BY <1>3 DEF Binding!ReadHead, Binding!World
  <2>3. PICK right \in BOOLEAN : right = TRUE
    OBVIOUS
  <2>4. Binding!TakeOrCompare("head", bindHead, right)
    BY <2>2, <2>3
  <2> QED
    BY <2>1, <2>2, <2>4, ReadBinding
<1>4. CASE Binding!ReadValidator
  <2>1. reader.at \in {7, 19}
    BY <1>0, <1>4, BindingAt, BindingPlaces DEF Binding!ReadValidator
  <2>2. PICK right \in BOOLEAN : right = (working["validator"] = Binding!Says("validator"))
    BY Zenon
  <2>3. Binding!TakeOrCompare("validator", working["validator"], right)
        /\ Binding!World' = Binding!World
    BY <1>4, <2>2, Zenon DEF Binding!ReadValidator, Binding!World
  <2>4. right => working["validator"] = reader.selected["validator"]
    BY <2>2 DEF Binding!Says
  <2> QED
    BY <2>1, <2>3, <2>4, ReadBinding
<1>5. CASE Binding!ReadLock
  <2>1. reader.at \in {8, 20}
    BY <1>0, <1>5, BindingAt, BindingPlaces DEF Binding!ReadLock
  <2>2. PICK right \in BOOLEAN : right = (working["lock"] = Binding!Says("lock"))
    BY Zenon
  <2>3. Binding!TakeOrCompare("lock", working["lock"], right)
        /\ Binding!World' = Binding!World
    BY <1>5, <2>2, Zenon DEF Binding!ReadLock, Binding!World
  <2>4. right => working["lock"] = reader.selected["lock"]
    BY <2>2 DEF Binding!Says
  <2> QED
    BY <2>1, <2>3, <2>4, ReadBinding
<1> QED
  BY <1>1, <1>2, <1>3, <1>4, <1>5

(* A comparison that must hold, of what was read.                            *)
LEMMA CheckOrRefuse ==
  ASSUME BindingOwned, NEW condition \in BOOLEAN, Binding!Check(condition)
  PROVE  \/ Binding!Refuse
         \/ condition /\ Advances(reader.got, reader.whole) /\ ReadsOn(reader.got)
<1>1. reader = [at |-> reader.at, steps |-> Binding!Steps(reader.authority),
                authority |-> reader.authority, selected |-> reader.selected,
                got |-> reader.got, whole |-> reader.whole]
  BY DEF BindingOwned, Reading
<1>2. ReadsOn(reader.got)
  BY DEF BindingOwned, Got, ReadsOn, Readable, Binding!Known
<1>3. CASE condition
  <2>1. reader' = [reader EXCEPT !.at = reader.at + 1]
    BY <1>3 DEF Binding!Check
  <2> QED
    BY <1>1, <1>2, <1>3, <2>1 DEF Advances
<1>4. CASE ~condition
  BY <1>4 DEF Binding!Check
<1> QED
  BY <1>3, <1>4

LEMMA StatusBinding ==
  ASSUME BindingOwned, Binding!ReadStatus
  PROVE  BindingOwned'
<1>0. Reading
  BY DEF BindingOwned
<1>1. reader.at \in {5, 13, 15}
  BY <1>0, BindingAt, BindingPlaces DEF Binding!ReadStatus
<1>2. Binding!World' = Binding!World
  BY DEF Binding!ReadStatus, Binding!World
<1>3. Binding!Refuse \/ (Binding!Clean /\ Advances(reader.got, reader.whole) /\ ReadsOn(reader.got))
  <2>1. PICK condition \in BOOLEAN : condition = Binding!Clean
    BY Zenon DEF Binding!Clean
  <2>2. Binding!Check(condition)
    BY <2>1, Zenon DEF Binding!ReadStatus
  <2> QED
    BY <2>1, <2>2, CheckOrRefuse
<1>4. SUFFICES ASSUME Binding!Clean, Advances(reader.got, reader.whole), ReadsOn(reader.got)
               PROVE  BindingOwned'
  BY <1>2, <1>3, RefuseBinding
<1>5. reader.at \in 2..21 /\ reader.at \in 1..21 \ {6, 9, 10, 11} /\ reader.at \in 1..21
      /\ reader.whole \in BOOLEAN
  BY <1>0, <1>1 DEF Reading
<1>6. Got'
  BY <1>1, <1>2, <1>4, <1>5, GotStep DEF Binding!Known
<1>7. Checked'
  BY <1>2, <1>4, <1>5, CheckedStep
<1>8. Moved'
  <2>1. CASE reader.at # 13
    <3>1. reader.at \in 1..21 \ {13, 14}
      BY <1>1, <2>1
    <3> QED
      BY <1>1, <1>2, <1>4, <1>5, <3>1, MovedStep
  <2>2. CASE reader.at = 13
    <3>1. /\ reader'.at = 14 /\ reader'.got = reader.got
          /\ UNCHANGED <<bindCommits, bindHead, working, past>>
      BY <1>2, <1>4, <2>2, SameWorld DEF Advances, BindingOwned
    <3>2. bindHead = reader.got["head"] =>
            \A f \in Binding!Files : Prior(f, bindCommits[reader.got["head"]].tree[f])
      <4>1. Binding!State \in past /\ Binding!State.file = working
        BY DEF BindingOwned, Recorded, Binding!State
      <4>2. working = bindCommits[bindHead].tree
        BY <1>4 DEF Binding!Clean
      <4> QED
        BY <4>1, <4>2 DEF Prior
    <3>3. PICK t : t = bindCommits[reader.got["head"]].tree
      OBVIOUS
    <3>4. bindHead = reader.got["head"] => \A f \in Binding!Files : Prior(f, t[f])'
      BY <1>2, <3>2, <3>3, SameWorld DEF BindingOwned
    <3>5. t = bindCommits'[reader'.got["head"]].tree
      BY <3>1, <3>3
    <3>6. (bindHead # reader.got["head"]
           \/ \A f \in Binding!Files : Prior(f, bindCommits[reader.got["head"]].tree[f]))'
      BY <3>1, <3>4, <3>5
    <3> QED
      BY <3>1, <3>6 DEF Moved
  <2> QED
    BY <2>1, <2>2
<1>9. Reading'
  BY <1>4, <1>5, ReadingStep
<1> QED
  BY <1>2, <1>6, <1>7, <1>8, <1>9, SameWorld DEF BindingOwned

LEMMA SelectBinding ==
  ASSUME BindingOwned, Binding!Select
  PROVE  BindingOwned'
<1>0. Reading /\ Got /\ Checked
  BY DEF BindingOwned
<1>1. reader.at = 1
  BY <1>0, BindingAt, BindingPlaces DEF Binding!Select
<1>2. Binding!World' = Binding!World
  BY DEF Binding!Select, Binding!World
<1>3. Binding!Known = {} /\ ~reader.whole
  BY <1>0, <1>1 DEF Got, Checked
<1>4. PICK n, a, s, g, w, t :
        /\ n = 2 /\ w = reader.whole /\ t = Binding!Steps(reader.authority)
        /\ a = reader.authority /\ s = working["contract"] /\ g = reader.got
  OBVIOUS
<1>5. reader' = [reader EXCEPT !.at = n, !.selected = s]
  BY <1>1, <1>4 DEF Binding!Select
<1>6. reader = [at |-> reader.at, steps |-> t, authority |-> a, selected |-> reader.selected,
                got |-> g, whole |-> w]
  BY <1>0, <1>4 DEF Reading
<1>7. PICK r : r = [reader EXCEPT !.at = n]
  OBVIOUS
<1>8. r = [at |-> n, steps |-> t, authority |-> a, selected |-> reader.selected,
           got |-> g, whole |-> w]
  BY <1>6, <1>7
<1>9. reader' = [r EXCEPT !.selected = s]
  BY <1>5, <1>7
<1>10. reader' = [at |-> n, steps |-> t, authority |-> a, selected |-> s, got |-> g, whole |-> w]
  BY <1>8, <1>9
<1>11. /\ reader'.at = 2 /\ reader'.got = reader.got /\ reader'.whole = reader.whole
       /\ reader'.authority = reader.authority /\ reader'.steps = Binding!Steps(reader.authority)
  BY <1>4, <1>10
<1>12. Reading'
  BY <1>0, <1>10, <1>11 DEF Reading
<1>13. Binding!Known' = {}
  BY <1>3, <1>11 DEF Binding!Known
<1>14. Got'
  BY <1>11, <1>13 DEF Got
<1>15. Checked' /\ Moved'
  BY <1>3, <1>11 DEF Checked, Moved
<1> QED
  BY <1>2, <1>12, <1>14, <1>15, SameWorld DEF BindingOwned

(* A comparison of Git's objects, or of the code that runs.                  *)
LEMMA CompareBinding ==
  ASSUME BindingOwned, Binding!World' = Binding!World, reader.at \in {6, 9, 11},
         Advances(reader.got, reader.whole), ReadsOn(reader.got),
         reader.at = 6 =>
           /\ reader.authority \in bindCommits[reader.got["head"]].before
           /\ reader.selected.commit \in bindCommits[reader.authority].before
           /\ bindCommits[reader.selected.commit].tree["preregistration"]
                = reader.selected.preregistration,
         reader.at = 9 => loaded = reader.got["validator"],
         reader.at = 11 =>
           bindCommits[reader.got["head"]].tree["contract"] = reader.got["contract"]
  PROVE  BindingOwned'
<1>1. reader.at \in 2..21 /\ reader.at \in 1..21 /\ reader.at \in 1..21 \ {13, 14}
      /\ reader.whole \in BOOLEAN
  BY DEF BindingOwned, Reading
<1>2. Got'
  BY <1>1, GotStep DEF Binding!Known
<1>3. Moved'
  BY <1>1, MovedStep
<1>4. Reading'
  BY <1>1, ReadingStep
<1>5. /\ reader'.at = reader.at + 1 /\ reader'.got = reader.got
      /\ reader'.selected = reader.selected
      /\ reader'.authority = reader.authority /\ reader'.whole = reader.whole
      /\ UNCHANGED <<bindCommits, loaded>>
  BY SameWorld DEF Advances, BindingOwned
<1>6. /\ reader'.at \in 7..22 => reader.at \in 7..22 \/ reader.at = 6
      /\ reader'.at \in 10..22 => reader.at \in 10..22 \/ reader.at = 9
      /\ reader'.at \in 11..22 => reader.at \in 11..22
      /\ reader'.at \in 12..22 => reader.at = 11
      /\ reader.at \in 11..22 \cup {100} => reader'.at \in 11..22
  BY <1>5
<1>7. Checked
  BY DEF BindingOwned
<1>8. Checked'
  BY <1>5, <1>6, <1>7 DEF Checked, Binding!Closure, Binding!Known
<1> QED
  BY <1>2, <1>3, <1>4, <1>8, SameWorld DEF BindingOwned

LEMMA ObjectsBinding ==
  ASSUME BindingOwned,
         Binding!CheckAncestry \/ Binding!CheckExecuting \/ Binding!CheckCommitted
  PROVE  BindingOwned'
<1>0. Reading
  BY DEF BindingOwned
<1>1. CASE Binding!CheckAncestry
  <2>1. reader.at = 6 /\ Binding!World' = Binding!World
    BY <1>0, <1>1, BindingAt, BindingPlaces DEF Binding!CheckAncestry, Binding!World
  <2>2. PICK condition \in BOOLEAN :
          condition = (/\ Binding!Ancestor(reader.authority, reader.got["head"])
                       /\ Binding!Ancestor(Binding!Says("commit"), reader.authority)
                       /\ bindCommits[Binding!Says("commit")].tree["preregistration"]
                            = Binding!Says("preregistration"))
    BY Zenon
  <2>3. Binding!Check(condition)
    BY <1>1, <2>2, Zenon DEF Binding!CheckAncestry
  <2>4. condition => /\ reader.authority \in bindCommits[reader.got["head"]].before
                     /\ reader.selected.commit \in bindCommits[reader.authority].before
                     /\ bindCommits[reader.selected.commit].tree["preregistration"]
                          = reader.selected.preregistration
    BY <2>2 DEF Binding!Ancestor, Binding!Says
  <2> QED
    BY <2>1, <2>3, <2>4, CheckOrRefuse, RefuseBinding, CompareBinding
<1>2. CASE Binding!CheckExecuting
  <2>1. reader.at = 9 /\ Binding!World' = Binding!World
    BY <1>0, <1>2, BindingAt, BindingPlaces DEF Binding!CheckExecuting, Binding!World
  <2>2. PICK condition \in BOOLEAN : condition = (loaded = reader.got["validator"])
    BY Zenon
  <2>3. Binding!Check(condition)
    BY <1>2, <2>2, Zenon DEF Binding!CheckExecuting
  <2>4. condition => loaded = reader.got["validator"]
    BY <2>2, Zenon
  <2> QED
    BY <2>1, <2>3, <2>4, CheckOrRefuse, RefuseBinding, CompareBinding
<1>3. CASE Binding!CheckCommitted
  <2>1. reader.at = 11 /\ Binding!World' = Binding!World
    BY <1>0, <1>3, BindingAt, BindingPlaces DEF Binding!CheckCommitted, Binding!World
  <2>2. PICK condition \in BOOLEAN :
          condition = (bindCommits[reader.got["head"]].tree["contract"] = reader.got["contract"])
    BY Zenon
  <2>3. Binding!Check(condition)
    BY <1>3, <2>2, Zenon DEF Binding!CheckCommitted
  <2>4. condition => bindCommits[reader.got["head"]].tree["contract"] = reader.got["contract"]
    BY <2>2, Zenon
  <2> QED
    BY <2>1, <2>3, <2>4, CheckOrRefuse, RefuseBinding, CompareBinding
<1> QED
  BY <1>1, <1>2, <1>3

(* If not everything is in place at the second reading of the sources, then  *)
(* something is to be found different later.                                 *)
LEMMA SourcesMoved ==
  ASSUME BindingOwned, reader.at = 14, ~regained, ~reader.whole,
         ~(/\ Binding!Clean /\ bindHead = reader.got["head"]
           /\ \A f \in Binding!Known \cap Binding!Files : working[f] = reader.got[f])
  PROVE  \/ \E f \in Binding!Files :
              LET v == bindCommits[reader.got["head"]].tree[f]
              IN  Prior(f, v) /\ working[f] # v
         \/ bindHead # reader.got["head"]
         \/ \E f \in {"preregistration", "validator", "lock", "contract"} :
              working[f] # reader.got[f]
<1>1. CASE bindHead # reader.got["head"]
  BY <1>1
<1>2. CASE \E f \in Binding!Known \cap Binding!Files : working[f] # reader.got[f]
  <2>1. PICK f \in Binding!Known \cap Binding!Files : working[f] # reader.got[f]
    BY <1>2
  <2>2. f \in {"contract", "preregistration", "head", "validator", "lock"} /\ f # "head"
    BY DEF BindingOwned, Got, Binding!Files, Binding!SourceFiles
  <2> QED
    BY <2>1, <2>2
<1>3. CASE ~Binding!Clean /\ bindHead = reader.got["head"]
  <2>1. \A f \in Binding!Files : Prior(f, bindCommits[reader.got["head"]].tree[f])
    BY <1>3 DEF BindingOwned, Moved
  <2>2. PICK t : t = bindCommits[bindHead].tree
    OBVIOUS
  <2>3. t \in Trees /\ working \in Trees
    <3>1. bindCommits \in Seq([tree : Trees, before : SUBSET Nat]) /\ bindHead \in DOMAIN bindCommits
          /\ working \in Trees
      BY DEF BindingOwned, Recorded
    <3>2. bindHead \in 1..Len(bindCommits)
      BY <3>1
    <3>3. bindCommits[bindHead] \in [tree : Trees, before : SUBSET Nat]
      BY <3>1, <3>2, ElementOfSeq
    <3> QED
      BY <2>2, <3>1, <3>3
  <2>4. working # t
    BY <1>3, <2>2 DEF Binding!Clean
  <2>5. PICK f \in Binding!Files : working[f] # t[f]
    BY <2>3, <2>4 DEF Trees
  <2> QED
    BY <1>3, <2>1, <2>2, <2>5
<1> QED
  BY <1>1, <1>2, <1>3

LEMMA SourcesBinding ==
  ASSUME BindingOwned, Binding!CheckSources
  PROVE  BindingOwned'
<1> DEFINE sound == /\ Binding!Closure(reader.authority) = Binding!Closure(reader.got["head"])
                    /\ Binding!OnDisk = Binding!Closure(reader.authority)
                    /\ Binding!Closure(reader.authority)["validator"] = Binding!Says("validator")
           together == /\ Binding!Clean /\ bindHead = reader.got["head"]
                       /\ \A f \in Binding!Known \cap Binding!Files : working[f] = reader.got[f]
<1>0. Reading /\ Got /\ Checked /\ Moved
  BY DEF BindingOwned
<1>1. reader.at \in {10, 14, 17}
  BY <1>0, BindingAt, BindingPlaces DEF Binding!CheckSources
<1>2. Binding!World' = Binding!World
  BY DEF Binding!CheckSources, Binding!World
<1>3. CASE ~sound
  <2>1. Binding!Refuse
    BY <1>3 DEF Binding!CheckSources
  <2> QED
    BY <1>2, <2>1, RefuseBinding
<1>4. CASE sound
  <2>1. reader' = [reader EXCEPT !.at = reader.at + 1, !.whole = reader.whole \/ together]
    BY <1>4 DEF Binding!CheckSources
  <2> HIDE DEF together
  <2>2. PICK whole \in BOOLEAN : whole = (reader.whole \/ together)
    BY Zenon
  <2>3. whole <=> reader.whole \/ together
    BY <2>2, Zenon
  <2>4. Advances(reader.got, whole)
    <3>1. PICK n, a, s, g, t :
            /\ n = reader.at + 1 /\ t = Binding!Steps(reader.authority)
            /\ a = reader.authority /\ s = reader.selected /\ g = reader.got
      OBVIOUS
    <3>2. reader' = [reader EXCEPT !.at = n, !.whole = whole]
      BY <2>1, <2>2, <3>1, Zenon
    <3>3. reader = [at |-> reader.at, steps |-> t, authority |-> a, selected |-> s,
                    got |-> g, whole |-> reader.whole]
      BY <1>0, <3>1 DEF Reading
    <3>4. PICK r : r = [reader EXCEPT !.at = n]
      OBVIOUS
    <3>5. r = [at |-> n, steps |-> t, authority |-> a, selected |-> s,
               got |-> g, whole |-> reader.whole]
      BY <3>3, <3>4
    <3>6. reader' = [r EXCEPT !.whole = whole]
      BY <3>2, <3>4
    <3>7. reader' = [at |-> n, steps |-> t, authority |-> a, selected |-> s,
                     got |-> g, whole |-> whole]
      BY <3>5, <3>6
    <3> QED
      BY <3>1, <3>7 DEF Advances
  <2>5. ReadsOn(reader.got)
    BY <1>0 DEF Got, ReadsOn, Readable, Binding!Known
  <2>6. reader.at \in 2..21 /\ reader.at \in 1..21 /\ reader.whole \in BOOLEAN
    BY <1>0, <1>1 DEF Reading
  <2>7. Got'
    BY <1>1, <1>2, <2>4, <2>5, <2>6, GotStep DEF Binding!Known
  <2>8. Reading'
    BY <2>4, <2>6, ReadingStep
  <2>9. /\ reader'.at = reader.at + 1 /\ reader'.got = reader.got
        /\ reader'.selected = reader.selected
        /\ reader'.authority = reader.authority /\ reader'.whole = whole
        /\ UNCHANGED <<bindCommits, bindHead, working, loaded, regained>>
    BY <1>2, <2>4, SameWorld DEF Advances, BindingOwned
  <2>10. /\ reader.at \in 7..22 /\ reader.at \in 10..22 /\ reader.at \in 5..22
         /\ reader.at \in 9..22 /\ reader'.at \in 11..22
         /\ reader'.at \in 12..22 => reader.at \in 12..22
    BY <1>1, <2>9
  <2>11. bindCommits[reader.authority].tree["validator"] = reader.selected.validator
    BY <1>4 DEF Binding!Closure, Binding!SourceFiles, Binding!Says
  <2>12. whole => bindCommits[reader.got["head"]].tree["lock"] = reader.selected.lock
    <3>1. CASE reader.whole
      BY <1>0, <3>1 DEF Checked
    <3>2. CASE together
      <4>1. "lock" \in Binding!Known /\ "lock" \in Binding!Files
        BY <1>0, <2>10 DEF Got, Binding!Files
      <4>2. working["lock"] = reader.got["lock"] /\ bindHead = reader.got["head"]
            /\ working = bindCommits[bindHead].tree
        BY <3>2, <4>1 DEF together, Binding!Clean
      <4>3. reader.got["lock"] = reader.selected["lock"]
        BY <1>0, <4>1 DEF Got
      <4> QED
        BY <4>2, <4>3
    <3> QED
      BY <2>3, <3>1, <3>2
  <2>13. Checked'
    <3>1. (Binding!Closure(reader.got["head"]) = Binding!Closure(reader.authority))'
      BY <1>4, <2>9 DEF Binding!Closure
    <3>2. /\ reader'.authority \in bindCommits'[reader'.got["head"]].before
          /\ reader'.selected.commit \in bindCommits'[reader'.authority].before
          /\ bindCommits'[reader'.selected.commit].tree["preregistration"]
               = reader'.selected.preregistration
          /\ loaded' = reader'.got["validator"]
      BY <1>0, <2>9, <2>10 DEF Checked
    <3>3. reader'.at \in 12..22 =>
            bindCommits'[reader'.got["head"]].tree["contract"] = reader'.got["contract"]
      BY <1>0, <2>9, <2>10 DEF Checked
    <3>4. "head" \in Binding!Known'
      BY <1>0, <2>9, <2>10 DEF Got, Binding!Known
    <3>5. /\ bindCommits'[reader'.authority].tree["validator"] = reader'.selected.validator
          /\ reader'.whole =>
               bindCommits'[reader'.got["head"]].tree["lock"] = reader'.selected.lock
      BY <2>9, <2>11, <2>12
    <3> QED
      BY <2>10, <3>1, <3>2, <3>3, <3>4, <3>5 DEF Checked
  <2>14. Moved'
    <3>1. CASE reader.at # 14
      <4>1. reader.at \in 1..21 \ {13, 14} /\ (reader.whole => whole)
        BY <1>1, <2>3, <3>1
      <4> QED
        BY <1>1, <1>2, <2>4, <2>5, <4>1, MovedStep
    <3>2. CASE reader.at = 14
      <4> SUFFICES ASSUME ~regained, ~whole
                   PROVE  Outstanding'
        BY <2>9, <3>2 DEF Moved
      <4>1. \/ \E f \in Binding!Files :
                 LET v == bindCommits[reader.got["head"]].tree[f]
                 IN  Prior(f, v) /\ working[f] # v
            \/ bindHead # reader.got["head"]
            \/ \E f \in {"preregistration", "validator", "lock", "contract"} :
                 working[f] # reader.got[f]
        BY <2>3, <3>2, SourcesMoved DEF together
      <4>2. PICK t : t = bindCommits[reader.got["head"]].tree
        OBVIOUS
      <4>3. t = bindCommits'[reader'.got["head"]].tree
        BY <2>9, <4>2
      <4>4. (\E f \in Binding!Files : Prior(f, t[f]) /\ working[f] # t[f]) =>
              (\E f \in Binding!Files : Prior(f, t[f])' /\ working'[f] # t[f])
        BY <1>2, <2>9, SameWorld DEF BindingOwned
      <4>5. (\E f \in Binding!Files : Prior(f, t[f])' /\ working'[f] # t[f]) =>
              (\E f \in Binding!Files :
                 LET v == bindCommits[reader.got["head"]].tree[f]
                 IN  Prior(f, v) /\ working[f] # v)'
        BY <4>3
      <4> QED
        BY <2>9, <3>2, <4>1, <4>2, <4>4, <4>5 DEF Outstanding
    <3> QED
      BY <3>1, <3>2
  <2> QED
    BY <1>2, <2>7, <2>8, <2>13, <2>14, SameWorld DEF BindingOwned
<1> QED
  BY <1>3, <1>4

LEMMA NextBinding == BindingInv /\ [PartsNext]_partsVars => BindingInv'
<1> SUFFICES ASSUME BindingInv, [PartsNext]_partsVars, part' = "binding"
             PROVE  BindingOwned'
  BY DEF BindingInv
<1>1. part = "binding" /\ BindingOwned
  BY DEF BindingInv, PartsNext, CycleStep, SnapshotStep, BindingStep, Ended, partsVars
<1>2. CASE Binding!Next
  BY <1>1, <1>2, DeveloperBinding, SelectBinding, ReadersBinding, StatusBinding,
     ObjectsBinding, SourcesBinding DEF Binding!Next
<1>3. CASE UNCHANGED partsVars
  <2>1. UNCHANGED <<bindCommits, bindHead, working, loaded, past, regained, reader>>
    BY <1>3 DEF partsVars, bindingVars
  <2>3. Recorded' /\ Reading'
    BY <1>1, <2>1 DEF BindingOwned, Recorded, Reading, Binding!State
  <2>4. Got'
    BY <1>1, <2>1 DEF BindingOwned, Got, Prior, Binding!Known
  <2>5. Checked'
    BY <1>1, <2>1 DEF BindingOwned, Checked, Binding!Known, Binding!Closure
  <2>6. Outstanding' <=> Outstanding
    BY <2>1 DEF Outstanding, Prior
  <2>7. Moved'
    BY <1>1, <2>1, <2>6 DEF BindingOwned, Moved, Prior
  <2> QED
    BY <2>3, <2>4, <2>5, <2>7 DEF BindingOwned
<1> QED
  BY <1>1, <1>2, <1>3 DEF PartsNext, CycleStep, SnapshotStep, BindingStep, Ended

(* An accepted binding is whole: nothing that was changed while it was       *)
(* verified, unless it was changed back, is taken for what was registered.   *)
THEOREM BindingsAreWhole == PartsSpec => []BindingIsWhole
<1>1. BindingInv => BindingIsWhole
  <2> SUFFICES ASSUME BindingOwned, reader.at = Len(reader.steps) + 1
               PROVE  Binding!BindingIsWhole
    BY DEF BindingInv, BindingIsWhole, Binding!BindingIsWhole
  <2>0. Reading /\ Got /\ Checked /\ Moved
    BY DEF BindingOwned
  <2>1. reader.at = 22
    <3>1. reader.steps = Binding!Steps(reader.authority)
      BY <2>0 DEF Reading
    <3>2. Len(reader.steps) = 21
      BY <3>1, BindingPlaces
    <3> QED
      BY <3>2
  <2>2. /\ reader.got["contract"] = reader.selected /\ reader.selected.sealed
        /\ reader.got["preregistration"] = reader.selected["preregistration"]
        /\ reader.got["validator"] = reader.selected["validator"]
    <3>1. "contract" \in Binding!Known /\ "preregistration" \in Binding!Known
          /\ "validator" \in Binding!Known
      BY <2>0, <2>1 DEF Got
    <3> QED
      BY <2>0, <3>1 DEF Got
  <2>3. /\ reader.authority \in bindCommits[reader.got["head"]].before
        /\ reader.selected.commit \in bindCommits[reader.authority].before
        /\ bindCommits[reader.selected.commit].tree["preregistration"]
             = reader.selected.preregistration
        /\ loaded = reader.got["validator"]
        /\ Binding!Closure(reader.got["head"]) = Binding!Closure(reader.authority)
        /\ bindCommits[reader.authority].tree["validator"] = reader.selected.validator
        /\ bindCommits[reader.got["head"]].tree["contract"] = reader.got["contract"]
    BY <2>0, <2>1 DEF Checked
  <2>4. bindCommits[reader.got["head"]].tree["validator"]
          = bindCommits[reader.authority].tree["validator"]
    <3>1. Binding!Closure(reader.got["head"])["validator"]
            = Binding!Closure(reader.authority)["validator"]
      BY <2>3
    <3> QED
      BY <3>1 DEF Binding!Closure, Binding!SourceFiles
  <2>5. ~regained => reader.whole
    BY <2>0, <2>1 DEF Moved, Outstanding
  <2>6. reader.whole => bindCommits[reader.got["head"]].tree["lock"] = reader.selected.lock
    BY <2>0 DEF Checked
  <2> QED
    BY <2>2, <2>3, <2>4, <2>5, <2>6
    DEF Binding!BindingIsWhole, Binding!Says, Binding!Ancestor
<1> QED
  BY <1>1, InitBinding, NextBinding, PTL DEF PartsSpec

(***************************************************************************)
(* HandoffSnapshot.                                                        *)
(***************************************************************************)

WriterFields ==
  {"command", "at", "head", "rendered", "got", "failed", "fresh", "returned", "note", "since",
   "steady", "outcome"}

(* How far the rendering is: from 1, where the head is read, to 15.          *)
Place == IF writer.command = "check" THEN writer.at - 1
         ELSE IF writer.at <= 17 THEN writer.at ELSE writer.at - 17

(* Commits only come, each with parents that were there; nothing is stamped  *)
(* with a change that is still to come.                                      *)
Stamped ==
  /\ snapChanges \in Nat
  /\ disk = [f \in Snapshot!Files |-> disk[f]]
  /\ \A f \in Snapshot!Files : disk[f].stamp \in Nat
  /\ \A f \in Snapshot!Files :
       f # "document" \/ writer.command = "check" => disk[f].stamp <= snapChanges
  /\ snapHead.stamp \in Nat /\ snapHead.stamp <= snapChanges

History ==
  /\ \E S : snapCommits \in Seq(S)
  /\ {1, 2, snapHead.commit} \subseteq DOMAIN snapCommits
  /\ \A c \in DOMAIN snapCommits :
       /\ snapCommits[c].tree = [f \in Snapshot!Files |-> snapCommits[c].tree[f]]
       /\ \/ snapCommits[c].parents = <<>>
          \/ \E p \in DOMAIN snapCommits :
               snapCommits[c].parents = <<p>> \/ snapCommits[c].parents = <<1, p>>

(* What was read of a file is what there is, or has been overtaken.          *)
Writing ==
  /\ writer = [x \in WriterFields |-> writer[x]]
  /\ writer.command \in {"write", "check"}
  /\ writer.at \in 1..Len(Snapshot!Steps(writer.command))
  /\ writer.got = [f \in Snapshot!Files |-> writer.got[f]]
  /\ \A f \in Snapshot!Files :
       /\ writer.got[f].stamp \in Int
       /\ f # "document" \/ writer.command = "check" =>
            /\ writer.got[f].stamp <= snapChanges
            /\ disk[f] = writer.got[f] \/ disk[f].stamp > writer.got[f].stamp
  /\ writer.failed \in BOOLEAN /\ writer.fresh \in BOOLEAN
  /\ writer.returned \in BOOLEAN /\ writer.steady \in BOOLEAN
  /\ writer.since \in Nat /\ writer.since <= snapHead.stamp

Unmoved(f) == disk[f] = writer.got[f]

Rendering ==
  /\ (Place \in 2..15 \/ writer.returned) => writer.head \in DOMAIN snapCommits
  /\ writer.returned => \/ writer.command = "check" /\ writer.at \in 17..25
                        \/ writer.command = "write" /\ writer.at \in {16, 33, 34}
  /\ ((Place \in 7..15 /\ ~writer.failed) \/ writer.returned) =>
       \A f \in Snapshot!SourceFiles : writer.got[f].content = snapCommits[writer.head].tree[f]
  /\ ((Place \in 10..15 /\ ~writer.failed) \/ writer.returned) =>
       writer.rendered = Snapshot!Document(writer.got["s1"].content, writer.got["s2"].content,
                                           writer.got["memory"].content)
  /\ Place \in 10..15 /\ ~writer.failed /\ ~writer.fresh =>
       \/ Place <= 11 /\ ~Unmoved("s1")
       \/ Place <= 12 /\ ~Unmoved("s2")
       \/ Place <= 13 /\ ~Unmoved("memory")
  /\ writer.returned => writer.fresh

(* What a check knows of the head, if it has not moved.                      *)
Known(n) ==
  writer.at \in n..23 \/ (writer.at \in {24, 25} /\ Snapshot!Names(writer.note.memory))

Checking ==
  writer.command = "check" =>
    /\ writer.at \in 17..25 => writer.returned
    /\ writer.at >= 3 /\ snapHead.stamp = writer.since => snapHead.commit = writer.head
    /\ writer.at >= 19 =>
         /\ writer.note.head \in DOMAIN snapCommits
         /\ snapHead.stamp = writer.since => snapHead.commit = writer.note.head
    /\ Known(20) /\ snapHead.stamp = writer.since => Snapshot!IsFinalized(writer.note.head)
    /\ Known(21) /\ snapHead.stamp = writer.since =>
         \A f \in {"document", "memory"} :
           Unmoved(f) => snapCommits[writer.note.head].tree[f] = writer.got[f].content
    /\ writer.steady =>
         /\ writer.at = 25
         /\ Snapshot!Names(writer.note.memory) =>
              /\ Snapshot!IsFinalized(writer.note.head)
              /\ snapCommits[writer.note.head].tree["document"]
                   = Snapshot!Rendered(snapCommits[writer.note.head].tree)

SnapshotOwned == Stamped /\ History /\ Writing /\ Rendering /\ Checking

SnapshotInv == part = "snapshot" => SnapshotOwned


(***************************************************************************)
(* Where each step of a command is.                                        *)
(***************************************************************************)

RenderNames ==
  {"head", "s1", "s2", "memory", "checkout", "clone", "copyS1", "copyS2", "worker",
   "headAgain", "s1Again", "s2Again", "memoryAgain", "checkoutAgain", "result"}

LEMMA RenderSteps ==
  /\ Snapshot!Render \in Seq(RenderNames)
  /\ Len(Snapshot!Render) = 15
  /\ Snapshot!Render[1] = "head"
  /\ Snapshot!Render[2] = "s1"
  /\ Snapshot!Render[3] = "s2"
  /\ Snapshot!Render[4] = "memory"
  /\ Snapshot!Render[5] = "checkout"
  /\ Snapshot!Render[6] = "clone"
  /\ Snapshot!Render[7] = "copyS1"
  /\ Snapshot!Render[8] = "copyS2"
  /\ Snapshot!Render[9] = "worker"
  /\ Snapshot!Render[10] = "headAgain"
  /\ Snapshot!Render[11] = "s1Again"
  /\ Snapshot!Render[12] = "s2Again"
  /\ Snapshot!Render[13] = "memoryAgain"
  /\ Snapshot!Render[14] = "checkoutAgain"
  /\ Snapshot!Render[15] = "result"
<1>1. /\ Snapshot!Render \in Seq(RenderNames)
      /\ Len(Snapshot!Render) = 15
  BY DEF Snapshot!Render, RenderNames
<1>2. /\ Snapshot!Render[1] = "head"
      /\ Snapshot!Render[2] = "s1"
      /\ Snapshot!Render[3] = "s2"
      /\ Snapshot!Render[4] = "memory"
      /\ Snapshot!Render[5] = "checkout"
      /\ Snapshot!Render[6] = "clone"
      /\ Snapshot!Render[7] = "copyS1"
      /\ Snapshot!Render[8] = "copyS2"
      /\ Snapshot!Render[9] = "worker"
      /\ Snapshot!Render[10] = "headAgain"
      /\ Snapshot!Render[11] = "s1Again"
      /\ Snapshot!Render[12] = "s2Again"
      /\ Snapshot!Render[13] = "memoryAgain"
      /\ Snapshot!Render[14] = "checkoutAgain"
      /\ Snapshot!Render[15] = "result"
  BY DEF Snapshot!Render
<1> QED
  BY <1>1, <1>2

LEMMA RenderedSteps == \A n \in 1..15 : Snapshot!Render[n] \in RenderNames
<1>1. PICK r : r = Snapshot!Render
  OBVIOUS
<1>2. r \in Seq(RenderNames) /\ Len(r) = 15
  BY <1>1, RenderSteps
<1> QED
  BY <1>1, <1>2, ElementOfSeq

LEMMA Joined ==
  ASSUME NEW S, NEW s \in Seq(S), NEW t \in Seq(S), NEW st, st = s \o t
  PROVE  /\ st \in Seq(S)
         /\ Len(st) = Len(s) + Len(t)
         /\ \A n \in 1..Len(s) : st[n] = s[n]
         /\ \A n \in 1..Len(t) : st[Len(s) + n] = t[n]
<1>1. Len(s) \in Nat /\ Len(t) \in Nat
  OBVIOUS
<1>2. \A n \in 1..(Len(s) + Len(t)) : st[n] = IF n <= Len(s) THEN s[n] ELSE t[n - Len(s)]
  BY ConcatProperties
<1>3. st \in Seq(S) /\ Len(st) = Len(s) + Len(t)
  BY ConcatProperties
<1>4. \A n \in 1..Len(t) : /\ Len(s) + n \in 1..(Len(s) + Len(t)) /\ ~(Len(s) + n <= Len(s))
                           /\ (Len(s) + n) - Len(s) = n
  BY <1>1
<1>5. \A n \in 1..Len(s) : n \in 1..(Len(s) + Len(t)) /\ n <= Len(s)
  BY <1>1
<1> QED
  BY <1>2, <1>3, <1>4, <1>5

LEMMA WriteSteps ==
  /\ Len(Snapshot!Steps("write")) = 34
  /\ \A n \in 1..15 : /\ Snapshot!Steps("write")[n] = Snapshot!Render[n]
                      /\ Snapshot!Steps("write")[n + 17] = Snapshot!Render[n]
  /\ Snapshot!Steps("write")[16] = "write"
  /\ Snapshot!Steps("write")[17] = "document"
  /\ Snapshot!Steps("write")[33] = "documentAgain"
  /\ Snapshot!Steps("write")[34] = "done"
<1> DEFINE Names == RenderNames \cup {"write", "document", "documentAgain", "done"}
<1>1. PICK r : r = Snapshot!Render
  OBVIOUS
<1>2. r \in Seq(Names) /\ Len(r) = 15
  BY <1>1, RenderSteps
<1>3. PICK t, u : /\ t = <<"write", "document">> /\ u = <<"documentAgain", "done">>
                  /\ Snapshot!Steps("write") = r \o t \o r \o u
  BY <1>1 DEF Snapshot!Steps
<1>4. /\ t \in Seq(Names) /\ Len(t) = 2 /\ t[1] = "write" /\ t[2] = "document"
      /\ u \in Seq(Names) /\ Len(u) = 2 /\ u[1] = "documentAgain" /\ u[2] = "done"
  BY <1>3
<1>5. PICK a, b, c : a = r \o t /\ b = a \o r /\ c = b \o u
  OBVIOUS
<1> HIDE DEF Names
<1>6. /\ a \in Seq(Names) /\ Len(a) = 17
      /\ \A n \in 1..15 : a[n] = r[n]
      /\ \A n \in 1..2 : a[15 + n] = t[n]
  <2>0. r \in Seq(Names) /\ t \in Seq(Names) /\ a = r \o t
    BY <1>2, <1>4, <1>5
  <2>1. /\ a \in Seq(Names) /\ Len(a) = Len(r) + Len(t)
        /\ \A n \in 1..Len(r) : a[n] = r[n]
        /\ \A n \in 1..Len(t) : a[Len(r) + n] = t[n]
    BY <2>0, Joined
  <2> QED
    BY <1>2, <1>4, <2>1
<1>7. /\ b \in Seq(Names) /\ Len(b) = 32
      /\ \A n \in 1..17 : b[n] = a[n]
      /\ \A n \in 1..15 : b[17 + n] = r[n]
  <2>0. a \in Seq(Names) /\ r \in Seq(Names) /\ b = a \o r
    BY <1>2, <1>5, <1>6
  <2>1. /\ b \in Seq(Names) /\ Len(b) = Len(a) + Len(r)
        /\ \A n \in 1..Len(a) : b[n] = a[n]
        /\ \A n \in 1..Len(r) : b[Len(a) + n] = r[n]
    BY <2>0, Joined
  <2> QED
    BY <1>2, <1>6, <2>1
<1>8. /\ Len(c) = 34
      /\ \A n \in 1..32 : c[n] = b[n]
      /\ \A n \in 1..2 : c[32 + n] = u[n]
  <2>0. b \in Seq(Names) /\ u \in Seq(Names) /\ c = b \o u
    BY <1>4, <1>5, <1>7
  <2>1. /\ Len(c) = Len(b) + Len(u)
        /\ \A n \in 1..Len(b) : c[n] = b[n]
        /\ \A n \in 1..Len(u) : c[Len(b) + n] = u[n]
    BY <2>0, Joined
  <2> QED
    BY <1>4, <1>7, <2>1
<1>9. \A n \in 1..15 : c[n] = r[n]
  <2> SUFFICES ASSUME NEW n \in 1..15
               PROVE  c[n] = r[n]
    OBVIOUS
  <2>1. n \in 1..17 /\ n \in 1..32
    OBVIOUS
  <2>2. c[n] = b[n] /\ b[n] = a[n]
    BY <1>7, <1>8, <2>1
  <2> QED
    BY <1>6, <2>2
<1>10. \A n \in 1..15 : c[n + 17] = r[n]
  <2> SUFFICES ASSUME NEW n \in 1..15
               PROVE  c[n + 17] = r[n]
    OBVIOUS
  <2>1. 17 + n \in 1..32 /\ n + 17 = 17 + n
    OBVIOUS
  <2>2. c[17 + n] = b[17 + n]
    BY <1>8, <2>1
  <2> QED
    BY <1>7, <2>1, <2>2
<1>11. c[16] = t[1] /\ c[17] = t[2] /\ c[33] = u[1] /\ c[34] = u[2]
  <2>1. a[15 + 1] = t[1] /\ a[15 + 2] = t[2] /\ c[32 + 1] = u[1] /\ c[32 + 2] = u[2]
    BY <1>6, <1>8
  <2>2. c[16] = b[16] /\ c[17] = b[17]
    BY <1>8
  <2>3. b[16] = a[16] /\ b[17] = a[17]
    BY <1>7
  <2> QED
    BY <2>1, <2>2, <2>3
<1>12. c = Snapshot!Steps("write")
  BY <1>3, <1>5
<1> QED
  BY <1>1, <1>4, <1>8, <1>9, <1>10, <1>11, <1>12

LEMMA CheckSteps ==
  /\ Len(Snapshot!Steps("check")) = 25
  /\ Snapshot!Steps("check")[1] = "document"
  /\ \A n \in 1..15 : Snapshot!Steps("check")[n + 1] = Snapshot!Render[n]
  /\ Snapshot!Steps("check")[17] = "documentAgain"
  /\ Snapshot!Steps("check")[18] = "note"
  /\ Snapshot!Steps("check")[19] = "finalized"
  /\ Snapshot!Steps("check")[20] = "clean"
  /\ Snapshot!Steps("check")[21] = "noted"
  /\ Snapshot!Steps("check")[22] = "finalized"
  /\ Snapshot!Steps("check")[23] = "clean"
  /\ Snapshot!Steps("check")[24] = "last"
  /\ Snapshot!Steps("check")[25] = "done"
<1> DEFINE Names == RenderNames \cup {"document", "documentAgain", "note", "finalized",
                                      "clean", "noted", "last", "done"}
<1>1. PICK r : r = Snapshot!Render
  OBVIOUS
<1>2. r \in Seq(Names) /\ Len(r) = 15
  BY <1>1, RenderSteps
<1>3. PICK t, u : /\ t = <<"document">>
                  /\ u = <<"documentAgain", "note", "finalized", "clean", "noted",
                           "finalized", "clean", "last", "done">>
                  /\ Snapshot!Steps("check") = t \o r \o u
  BY <1>1 DEF Snapshot!Steps
<1>4. /\ t \in Seq(Names) /\ Len(t) = 1 /\ t[1] = "document"
      /\ u \in Seq(Names) /\ Len(u) = 9
  BY <1>3
<1>5. /\ u[1] = "documentAgain" /\ u[2] = "note" /\ u[3] = "finalized" /\ u[4] = "clean"
      /\ u[5] = "noted" /\ u[6] = "finalized" /\ u[7] = "clean" /\ u[8] = "last" /\ u[9] = "done"
  BY <1>3
<1>6. PICK a, c : a = t \o r /\ c = a \o u
  OBVIOUS
<1> HIDE DEF Names
<1>7. /\ a \in Seq(Names) /\ Len(a) = 16
      /\ a[1] = t[1]
      /\ \A n \in 1..15 : a[1 + n] = r[n]
  <2>0. t \in Seq(Names) /\ r \in Seq(Names) /\ a = t \o r
    BY <1>2, <1>4, <1>6
  <2>1. /\ a \in Seq(Names) /\ Len(a) = Len(t) + Len(r)
        /\ \A n \in 1..Len(t) : a[n] = t[n]
        /\ \A n \in 1..Len(r) : a[Len(t) + n] = r[n]
    BY <2>0, Joined
  <2> QED
    BY <1>2, <1>4, <2>1
<1>8. /\ Len(c) = 25
      /\ \A n \in 1..16 : c[n] = a[n]
      /\ \A n \in 1..9 : c[16 + n] = u[n]
  <2>0. a \in Seq(Names) /\ u \in Seq(Names) /\ c = a \o u
    BY <1>4, <1>6, <1>7
  <2>1. /\ Len(c) = Len(a) + Len(u)
        /\ \A n \in 1..Len(a) : c[n] = a[n]
        /\ \A n \in 1..Len(u) : c[Len(a) + n] = u[n]
    BY <2>0, Joined
  <2> QED
    BY <1>4, <1>7, <2>1
<1>9. \A n \in 1..15 : c[n + 1] = r[n]
  <2> SUFFICES ASSUME NEW n \in 1..15
               PROVE  c[n + 1] = r[n]
    OBVIOUS
  <2>1. 1 + n \in 1..16 /\ n + 1 = 1 + n
    OBVIOUS
  <2> QED
    BY <1>7, <1>8, <2>1
<1>10. c[1] = t[1]
  BY <1>7, <1>8
<1>11. /\ c[17] = u[1] /\ c[18] = u[2] /\ c[19] = u[3] /\ c[20] = u[4] /\ c[21] = u[5]
       /\ c[22] = u[6] /\ c[23] = u[7] /\ c[24] = u[8] /\ c[25] = u[9]
  <2>1. /\ c[16 + 1] = u[1] /\ c[16 + 2] = u[2] /\ c[16 + 3] = u[3] /\ c[16 + 4] = u[4]
        /\ c[16 + 5] = u[5] /\ c[16 + 6] = u[6] /\ c[16 + 7] = u[7] /\ c[16 + 8] = u[8]
        /\ c[16 + 9] = u[9]
    BY <1>8
  <2> QED
    BY <2>1
<1>12. c = Snapshot!Steps("check")
  BY <1>3, <1>6
<1> QED
  BY <1>1, <1>4, <1>5, <1>8, <1>9, <1>10, <1>11, <1>12

(* Where a command is when it takes a step.                                  *)
AtPlace(step) ==
  /\ step \in RenderNames => Place \in 1..15 /\ step = Snapshot!Render[Place]
  /\ step = "write" => writer.command = "write" /\ writer.at = 16
  /\ step = "document" => \/ writer.command = "write" /\ writer.at = 17
                          \/ writer.command = "check" /\ writer.at = 1
  /\ step = "documentAgain" => \/ writer.command = "write" /\ writer.at = 33
                               \/ writer.command = "check" /\ writer.at = 17
  /\ step = "note" => writer.command = "check" /\ writer.at = 18
  /\ step = "finalized" => writer.command = "check" /\ writer.at \in {19, 22}
  /\ step = "clean" => writer.command = "check" /\ writer.at \in {20, 23}
  /\ step = "noted" => writer.command = "check" /\ writer.at = 21
  /\ step = "last" => writer.command = "check" /\ writer.at = 24
  /\ step = "done" => \/ writer.command = "write" /\ writer.at = 34
                      \/ writer.command = "check" /\ writer.at = 25

LEMMA StepPlaces ==
  ASSUME Writing, NEW step, Snapshot!At(step)
  PROVE  AtPlace(step)
<1>1. CASE writer.command = "write"
  <2>1. writer.at \in 1..34 /\ Snapshot!Steps("write")[writer.at] = step
    BY <1>1, WriteSteps DEF Writing, Snapshot!At, Snapshot!Step
  <2>2. CASE writer.at \in 1..15
    <3>1. Place = writer.at
      BY <1>1, <2>2 DEF Place
    <3>2. step = Snapshot!Render[Place]
      BY <2>1, <2>2, <3>1, WriteSteps
    <3>3. step \in RenderNames
      BY <2>2, <3>1, <3>2, RenderedSteps
    <3> QED
      BY <2>2, <3>1, <3>2, <3>3 DEF AtPlace, RenderNames
  <2>3. CASE writer.at \in 18..32
    <3>1. PICK n \in 1..15 : writer.at = n + 17
      BY <2>3
    <3>2. Place = n
      BY <1>1, <3>1 DEF Place
    <3>3. step = Snapshot!Render[Place]
      BY <2>1, <3>1, <3>2, WriteSteps
    <3>4. step \in RenderNames
      BY <3>2, <3>3, RenderedSteps
    <3> QED
      BY <3>2, <3>3, <3>4 DEF AtPlace, RenderNames
  <2>4. CASE writer.at \in {16, 17, 33, 34}
    <3>1. \/ writer.at = 16 /\ step = "write"
          \/ writer.at = 17 /\ step = "document"
          \/ writer.at = 33 /\ step = "documentAgain"
          \/ writer.at = 34 /\ step = "done"
      BY <2>1, <2>4, WriteSteps
    <3>2. step \notin RenderNames
      BY <3>1 DEF RenderNames
    <3>3. CASE writer.at = 16 /\ step = "write"
      BY <1>1, <3>2, <3>3 DEF AtPlace
    <3>4. CASE writer.at = 17 /\ step = "document"
      BY <1>1, <3>2, <3>4 DEF AtPlace
    <3>5. CASE writer.at = 33 /\ step = "documentAgain"
      BY <1>1, <3>2, <3>5 DEF AtPlace
    <3>6. CASE writer.at = 34 /\ step = "done"
      BY <1>1, <3>2, <3>6 DEF AtPlace
    <3> QED
      BY <3>1, <3>3, <3>4, <3>5, <3>6
  <2> QED
    BY <2>1, <2>2, <2>3, <2>4
<1>2. CASE writer.command = "check"
  <2>1. writer.at \in 1..25 /\ Snapshot!Steps("check")[writer.at] = step
    BY <1>2, CheckSteps DEF Writing, Snapshot!At, Snapshot!Step
  <2>2. CASE writer.at \in 2..16
    <3>1. PICK n \in 1..15 : writer.at = n + 1
      BY <2>2
    <3>2. Place = n
      BY <1>2, <3>1 DEF Place
    <3>3. step = Snapshot!Render[Place]
      BY <2>1, <3>1, <3>2, CheckSteps
    <3>4. step \in RenderNames
      BY <3>2, <3>3, RenderedSteps
    <3> QED
      BY <3>2, <3>3, <3>4 DEF AtPlace, RenderNames
  <2>3. CASE writer.at \in {1, 17, 18, 19, 20, 21, 22, 23, 24, 25}
    BY <1>2, <2>1, <2>3, CheckSteps DEF AtPlace, RenderNames
  <2> QED
    BY <2>1, <2>2, <2>3
<1> QED
  BY <1>1, <1>2 DEF Writing

(* What fails in the clone goes on where the head is read again.             *)
LEMMA RecheckPlace ==
  ASSUME Writing, Place \in 6..9
  PROVE  Snapshot!Recheck = writer.at + 10 - Place
<1>1. PICK n, steps, at : n = writer.at + 10 - Place /\ steps = Snapshot!Steps(writer.command)
                          /\ at = writer.at
  OBVIOUS
<1>2. /\ n \in at..Len(steps) /\ at \in Nat /\ n \in Nat /\ n - at \in 1..4
      /\ Len(steps) \in Nat
      /\ \A k \in at..n : Place + (k - at) \in 1..15 /\ steps[k] = Snapshot!Render[Place + (k - at)]
  <2>1. CASE writer.command = "write" /\ writer.at <= 17
    <3>1. Place = at /\ at \in 6..9 /\ n = 10
      BY <1>1, <2>1 DEF Place, Writing
    <3>2. Len(steps) = 34 /\ \A k \in 1..15 : steps[k] = Snapshot!Render[k]
      BY <1>1, <2>1, WriteSteps
    <3> QED
      BY <3>1, <3>2
  <2>2. CASE writer.command = "write" /\ writer.at > 17
    <3>0. at \in 1..34
      BY <1>1, <2>2, WriteSteps DEF Writing
    <3>1. at = Place + 17 /\ at \in 23..26 /\ n = 27
      BY <1>1, <2>2, <3>0 DEF Place
    <3>2. Len(steps) = 34 /\ \A k \in 1..15 : steps[k + 17] = Snapshot!Render[k]
      BY <1>1, <2>2, WriteSteps
    <3>3. \A k \in at..n : (k - 17) \in 1..15 /\ (k - 17) + 17 = k /\ Place + (k - at) = k - 17
      BY <3>1
    <3> QED
      BY <3>1, <3>2, <3>3
  <2>3. CASE writer.command = "check"
    <3>0. at \in 1..25
      BY <1>1, <2>3, CheckSteps DEF Writing
    <3>1. at = Place + 1 /\ at \in 7..10 /\ n = 11
      BY <1>1, <2>3, <3>0 DEF Place
    <3>2. Len(steps) = 25 /\ \A k \in 1..15 : steps[k + 1] = Snapshot!Render[k]
      BY <1>1, <2>3, CheckSteps
    <3>3. \A k \in at..n : (k - 1) \in 1..15 /\ (k - 1) + 1 = k /\ Place + (k - at) = k - 1
      BY <3>1
    <3> QED
      BY <3>1, <3>2, <3>3
  <2> QED
    BY <2>1, <2>2, <2>3 DEF Writing
<1>3. steps[n] = "headAgain"
  <2>1. Place + (n - at) = 10
    BY <1>1, <1>2
  <2> QED
    BY <1>2, <2>1, RenderSteps
<1>4. \A k \in at..(n - 1) : steps[k] # "headAgain"
  <2> SUFFICES ASSUME NEW k \in at..(n - 1)
               PROVE  steps[k] # "headAgain"
    OBVIOUS
  <2>1. PICK p \in 6..9 : p = Place
    OBVIOUS
  <2>2. n = at + 10 - p /\ at \in Nat
    BY <1>1, <1>2, <2>1
  <2>3. p + (k - at) \in 6..9 /\ k \in at..n
    BY <2>2
  <2>4. steps[k] = Snapshot!Render[p + (k - at)]
    BY <1>2, <2>1, <2>3
  <2> QED
    BY <2>3, <2>4, RenderSteps
<1>5. \A m \in at..Len(steps) :
        steps[m] = "headAgain" /\ (\A k \in at..(m - 1) : steps[k] # "headAgain") => m = n
  BY <1>2, <1>3, <1>4
<1>6. Snapshot!Recheck = n
  BY <1>1, <1>2, <1>3, <1>4, <1>5 DEF Snapshot!Recheck
<1> QED
  BY <1>1, <1>6


(***************************************************************************)
(* What others do.                                                         *)
(***************************************************************************)

(* What is changed has the stamp of the change; commits only come.           *)
Developed ==
  /\ writer' = writer /\ snapChanges' = snapChanges + 1
  /\ disk' = [f \in Snapshot!Files |-> disk'[f]]
  /\ \A f \in Snapshot!Files : disk'[f] = disk[f] \/ disk'[f].stamp = snapChanges + 1
  /\ snapHead' = snapHead \/ snapHead'.stamp = snapChanges + 1
  /\ History'
  /\ \A c \in DOMAIN snapCommits :
       c \in DOMAIN snapCommits' /\ snapCommits'[c] = snapCommits[c]

LEMMA DeveloperSteps ==
  ASSUME Stamped, History,
         Snapshot!Edit \/ Snapshot!Commit \/ Snapshot!Merge \/ Snapshot!Checkout
  PROVE  Developed
<1>0. disk = [f \in Snapshot!Files |-> disk[f]]
  BY DEF Stamped
<1>1. CASE Snapshot!Edit
  <2>1. PICK f, v :
          /\ f \in Snapshot!Files
          /\ disk' = [disk EXCEPT ![f] = [content |-> v, stamp |-> snapChanges + 1]]
    BY <1>1 DEF Snapshot!Edit, Snapshot!Put, Snapshot!Now, Snapshot!Files
  <2>2. /\ writer' = writer /\ snapChanges' = snapChanges + 1
        /\ snapCommits' = snapCommits /\ snapHead' = snapHead
    BY <1>1 DEF Snapshot!Edit, Snapshot!Change
  <2>3. /\ disk' = [g \in Snapshot!Files |-> disk'[g]]
        /\ \A g \in Snapshot!Files : disk'[g] = disk[g] \/ disk'[g].stamp = snapChanges + 1
    <3>1. PICK e : e = [content |-> v, stamp |-> snapChanges + 1]
      OBVIOUS
    <3>2. disk' = [disk EXCEPT ![f] = e] /\ e.stamp = snapChanges + 1
      BY <2>1, <3>1
    <3> QED
      BY <1>0, <3>2
  <2>4. History'
    BY <2>2 DEF History
  <2> QED
    BY <2>2, <2>3, <2>4 DEF Developed
<1>2. CASE Snapshot!Commit \/ Snapshot!Merge
  <2>1. PICK e, s : /\ snapCommits' = Append(snapCommits, e)
                    /\ e.parents = <<snapHead.commit>> \/ e.parents = <<1, snapHead.commit>>
                    /\ e.tree = [f \in Snapshot!Files |-> e.tree[f]]
                    /\ s = snapChanges + 1
                    /\ snapHead' = [commit |-> Len(snapCommits) + 1, stamp |-> s]
                    /\ disk' = disk /\ writer' = writer /\ snapChanges' = s
    <3>1. PICK t : t = Snapshot!Contents
      OBVIOUS
    <3>2. t = [f \in Snapshot!Files |-> t[f]]
      BY <3>1 DEF Snapshot!Contents
    <3>3. PICK e : \/ e = [tree |-> t, parents |-> <<snapHead.commit>>]
                        /\ snapCommits' = Append(snapCommits, e)
                   \/ e = [tree |-> t, parents |-> <<1, snapHead.commit>>]
                        /\ snapCommits' = Append(snapCommits, e)
      BY <1>2, <3>1 DEF Snapshot!Commit, Snapshot!Merge
    <3>4. /\ e.parents = <<snapHead.commit>> \/ e.parents = <<1, snapHead.commit>>
          /\ e.tree = t /\ snapCommits' = Append(snapCommits, e)
      BY <3>3
    <3>5. /\ snapHead' = [commit |-> Len(snapCommits) + 1, stamp |-> snapChanges + 1]
          /\ disk' = disk /\ writer' = writer /\ snapChanges' = snapChanges + 1
      BY <1>2 DEF Snapshot!Commit, Snapshot!Merge, Snapshot!Change, Snapshot!Now
    <3> QED
      BY <3>2, <3>4, <3>5
  <2>2. PICK S, n : snapCommits \in Seq(S) /\ n = Len(snapCommits) + 1 /\ n - 1 = Len(snapCommits)
                    /\ n \in Nat
    BY DEF History
  <2>3. /\ snapCommits' \in Seq(S \cup {e}) /\ DOMAIN snapCommits' = 1..n
        /\ DOMAIN snapCommits = 1..(n - 1)
        /\ snapCommits'[n] = e
        /\ \A c \in DOMAIN snapCommits : snapCommits'[c] = snapCommits[c]
    <3>1. snapCommits \in Seq(S \cup {e}) /\ Len(snapCommits) = n - 1
      <4>1. \A c \in 1..Len(snapCommits) : snapCommits[c] \in S
        BY <2>2, ElementOfSeq
      <4> QED
        BY <2>2, <4>1, SeqDef
    <3> QED
      BY <2>1, <2>2, <3>1
  <2>4. snapHead'.commit = n /\ snapHead'.stamp = s
    BY <2>1, <2>2
  <2>5. History'
    <3>1. {1, 2, snapHead'.commit} \subseteq DOMAIN snapCommits'
      BY <2>2, <2>3, <2>4 DEF History
    <3>2. ASSUME NEW c \in DOMAIN snapCommits'
          PROVE  /\ snapCommits'[c].tree = [f \in Snapshot!Files |-> snapCommits'[c].tree[f]]
                 /\ \/ snapCommits'[c].parents = <<>>
                    \/ \E p \in DOMAIN snapCommits' :
                         snapCommits'[c].parents = <<p>> \/ snapCommits'[c].parents = <<1, p>>
      <4>1. CASE c \in DOMAIN snapCommits
        <5>1. DOMAIN snapCommits \subseteq DOMAIN snapCommits'
          BY <2>2, <2>3
        <5> QED
          BY <2>3, <4>1, <5>1 DEF History
      <4>2. CASE c = n
        <5>1. snapHead.commit \in DOMAIN snapCommits'
          BY <2>2, <2>3 DEF History
        <5> QED
          BY <2>1, <2>3, <4>2, <5>1
      <4> QED
        BY <2>2, <2>3, <4>1, <4>2
    <3> QED
      BY <2>3, <3>1, <3>2 DEF History
  <2>6. \A c \in DOMAIN snapCommits : c \in DOMAIN snapCommits' /\ snapCommits'[c] = snapCommits[c]
    BY <2>2, <2>3
  <2> QED
    BY <1>0, <2>1, <2>4, <2>5, <2>6 DEF Developed
<1>3. CASE Snapshot!Checkout
  <2>1. PICK c, s :
          /\ c \in DOMAIN snapCommits
          /\ s = snapChanges + 1
          /\ snapHead' = [commit |-> c, stamp |-> s]
          /\ disk' = [f \in Snapshot!Files |->
                        IF snapCommits[c].tree[f] = disk[f].content THEN disk[f]
                        ELSE [content |-> snapCommits[c].tree[f], stamp |-> s]]
          /\ snapCommits' = snapCommits /\ writer' = writer /\ snapChanges' = s
    <3>1. PICK c \in (1..Len(snapCommits)) \ {snapHead.commit} :
            /\ snapHead' = [commit |-> c, stamp |-> snapChanges + 1]
            /\ disk' = [f \in Snapshot!Files |->
                        IF snapCommits[c].tree[f] = disk[f].content THEN disk[f]
                        ELSE [content |-> snapCommits[c].tree[f], stamp |-> snapChanges + 1]]
      BY <1>3 DEF Snapshot!Checkout, Snapshot!Tree, Snapshot!Now
    <3>2. c \in DOMAIN snapCommits
      <4>1. PICK S : snapCommits \in Seq(S)
        BY DEF History
      <4> QED
        BY <3>1, <4>1
    <3>3. snapCommits' = snapCommits /\ writer' = writer /\ snapChanges' = snapChanges + 1
      BY <1>3 DEF Snapshot!Checkout, Snapshot!Change
    <3> QED
      BY <3>1, <3>2, <3>3
  <2>2. snapHead'.commit = c /\ snapHead'.stamp = s
    BY <2>1
  <2>3. History'
    BY <2>1, <2>2 DEF History
  <2>4. /\ disk' = [f \in Snapshot!Files |-> disk'[f]]
        /\ \A f \in Snapshot!Files : disk'[f] = disk[f] \/ disk'[f].stamp = s
    BY <2>1
  <2> QED
    BY <2>1, <2>2, <2>3, <2>4 DEF Developed
<1> QED
  BY <1>1, <1>2, <1>3

(* Commits stay what they are.                                               *)
LEMMA FinalStays ==
  ASSUME History, Developed, NEW c \in DOMAIN snapCommits, Snapshot!IsFinalized(c)
  PROVE  Snapshot!IsFinalized(c)'
<1> DEFINE ps == snapCommits[c].parents
<1>1. snapCommits'[c] = snapCommits[c] /\ 2 \in DOMAIN snapCommits
      /\ snapCommits'[2] = snapCommits[2]
  BY DEF Developed, History
<1>2. Snapshot!IsFinal(c) => Snapshot!IsFinal(c)'
  BY <1>1 DEF Snapshot!IsFinal, Snapshot!Tree, Snapshot!Evidence
<1>3. CASE Len(ps) = 1 /\ Snapshot!IsFinal(c)
  BY <1>1, <1>2, <1>3 DEF Snapshot!IsFinalized
<1>4. CASE /\ Len(ps) = 2 /\ ps[1] = 1
           /\ snapCommits[c].tree = snapCommits[ps[2]].tree /\ Snapshot!IsFinal(ps[2])
  <2>1. PICK p : p = ps[2]
    OBVIOUS
  <2>2. p \in DOMAIN snapCommits
    <3>1. \/ ps = <<>>
          \/ \E q \in DOMAIN snapCommits : ps = <<q>> \/ ps = <<1, q>>
      BY DEF History
    <3>2. PICK q \in DOMAIN snapCommits : ps = <<q>> \/ ps = <<1, q>>
      BY <1>4, <3>1
    <3>3. ps = <<1, q>>
      BY <1>4, <3>2
    <3> QED
      BY <2>1, <3>2, <3>3
  <2>3. snapCommits'[p] = snapCommits[p]
    BY <2>2 DEF Developed
  <2>4. Snapshot!IsFinal(p)
    BY <1>4, <2>1
  <2>5. Snapshot!IsFinal(p)'
    BY <1>1, <2>3, <2>4 DEF Snapshot!IsFinal, Snapshot!Tree, Snapshot!Evidence
  <2>6. /\ Len(snapCommits'[c].parents) = 2 /\ snapCommits'[c].parents[1] = 1
        /\ snapCommits'[c].parents[2] = p
        /\ snapCommits'[c].tree = snapCommits'[p].tree
    BY <1>1, <1>4, <2>1, <2>3
  <2> QED
    BY <2>5, <2>6 DEF Snapshot!IsFinalized, Snapshot!Tree
<1> QED
  BY <1>3, <1>4 DEF Snapshot!IsFinalized, Snapshot!Tree


(* What was read and has been overtaken is not put back.                     *)
LEMMA OvertakenStays ==
  ASSUME Stamped, Writing, Developed, NEW f \in Snapshot!Files,
         f # "document" \/ writer.command = "check", Unmoved(f)'
  PROVE  Unmoved(f)
<1>1. disk'[f] = writer.got[f]
  BY DEF Unmoved, Developed
<1>2. writer.got[f].stamp <= snapChanges /\ snapChanges \in Nat
  BY DEF Writing, Stamped
<1>3. disk'[f].stamp # snapChanges + 1
  BY <1>1, <1>2 DEF Writing
<1> QED
  BY <1>1, <1>3 DEF Developed, Unmoved

LEMMA DeveloperSnapshot ==
  ASSUME SnapshotOwned, Developed
  PROVE  SnapshotOwned'
<1>0. Stamped /\ History /\ Writing /\ Rendering /\ Checking
  BY DEF SnapshotOwned
<1>1. writer' = writer /\ snapChanges' = snapChanges + 1 /\ History'
  BY DEF Developed
<1>2. Stamped'
  BY <1>0 DEF Stamped, Developed
<1>3. Writing'
  <2>1. ASSUME NEW f \in Snapshot!Files, f # "document" \/ writer.command = "check"
        PROVE  /\ writer.got[f].stamp <= snapChanges + 1
               /\ disk'[f] = writer.got[f] \/ disk'[f].stamp > writer.got[f].stamp
    <3>1. /\ writer.got[f].stamp \in Int /\ writer.got[f].stamp <= snapChanges
          /\ disk[f] = writer.got[f] \/ disk[f].stamp > writer.got[f].stamp
      BY <1>0, <2>1 DEF Writing
    <3>2. snapChanges \in Nat
      BY <1>0 DEF Stamped
    <3>3. disk'[f] = disk[f] \/ disk'[f].stamp = snapChanges + 1
      BY DEF Developed
    <3> QED
      BY <3>1, <3>2, <3>3
  <2>2. writer.since <= snapHead'.stamp
    BY <1>0 DEF Writing, Stamped, Developed
  <2> QED
    BY <1>0, <1>1, <2>1, <2>2 DEF Writing
<1>4. Place' = Place
  BY <1>1 DEF Place
<1>5. \A f \in Snapshot!SourceFiles \cup {"memory"} : Unmoved(f)' => Unmoved(f)
  BY <1>0, OvertakenStays DEF Snapshot!Files, Snapshot!SourceFiles
<1>6. Rendering'
  <2>1. PICK p : p = Place
    OBVIOUS
  <2>2. Place' = p
    BY <1>4, <2>1
  <2>3. p \in 2..15 \/ writer.returned =>
          writer.head \in DOMAIN snapCommits /\ writer.head \in DOMAIN snapCommits'
            /\ snapCommits'[writer.head] = snapCommits[writer.head]
    BY <1>0, <2>1 DEF Rendering, Developed
  <2>4. ((p \in 7..15 /\ ~writer.failed) \/ writer.returned) =>
          \A f \in Snapshot!SourceFiles : writer.got[f].content = snapCommits'[writer.head].tree[f]
    BY <1>0, <2>1, <2>3 DEF Rendering
  <2>5. p \in 10..15 /\ ~writer.failed /\ ~writer.fresh =>
          \/ p <= 11 /\ ~Unmoved("s1")'
          \/ p <= 12 /\ ~Unmoved("s2")'
          \/ p <= 13 /\ ~Unmoved("memory")'
    BY <1>0, <1>5, <2>1 DEF Rendering, Snapshot!SourceFiles
  <2>6. (p \in 10..15 /\ ~writer.failed) \/ writer.returned =>
          writer.rendered = Snapshot!Document(writer.got["s1"].content, writer.got["s2"].content,
                                              writer.got["memory"].content)
    BY <1>0, <2>1 DEF Rendering
  <2>7. /\ writer.returned => writer.fresh
        /\ writer.returned => \/ writer.command = "check" /\ writer.at \in 17..25
                              \/ writer.command = "write" /\ writer.at \in {16, 33, 34}
    BY <1>0 DEF Rendering
  <2> QED
    BY <1>1, <2>2, <2>3, <2>4, <2>5, <2>6, <2>7 DEF Rendering, Snapshot!Document
<1>7. Checking'
  <2> SUFFICES ASSUME writer.command = "check"
               PROVE  Checking'
    BY <1>1 DEF Checking
  <2>1. snapHead'.stamp = writer.since => snapHead' = snapHead /\ snapHead.stamp = writer.since
    BY <1>0 DEF Stamped, Writing, Developed
  <2>2. Known(20)' = Known(20) /\ Known(21)' = Known(21)
    BY <1>1 DEF Known
  <2>3. writer.at >= 19 =>
          /\ writer.note.head \in DOMAIN snapCommits /\ writer.note.head \in DOMAIN snapCommits'
          /\ snapCommits'[writer.note.head] = snapCommits[writer.note.head]
          /\ Snapshot!IsFinalized(writer.note.head) => Snapshot!IsFinalized(writer.note.head)'
    <3>1. writer.at >= 19 => writer.note.head \in DOMAIN snapCommits
      BY <1>0 DEF Checking
    <3>2. \A c \in DOMAIN snapCommits : Snapshot!IsFinalized(c) => Snapshot!IsFinalized(c)'
      BY <1>0, FinalStays
    <3>3. PICK c : c = writer.note.head
      OBVIOUS
    <3>4. writer.at >= 19 /\ Snapshot!IsFinalized(c) => Snapshot!IsFinalized(c)'
      BY <3>1, <3>2, <3>3
    <3>5. Snapshot!IsFinalized(writer.note.head)' <=> Snapshot!IsFinalized(c)'
      BY <1>1, <3>3 DEF Snapshot!IsFinalized, Snapshot!IsFinal, Snapshot!Tree
    <3> QED
      BY <3>1, <3>3, <3>4, <3>5 DEF Developed
  <2>4. \A f \in {"document", "memory"} : Unmoved(f)' => Unmoved(f)
    BY <1>0, OvertakenStays DEF Snapshot!Files
  <2>5. /\ Known(20) => writer.at >= 19
        /\ Known(21) => writer.at >= 19
        /\ writer.at \in 1..25
    <3>1. writer.at \in 1..25
      BY <1>0, CheckSteps DEF Writing
    <3> QED
      BY <3>1 DEF Known
  <2>6. Known(20) /\ snapHead'.stamp = writer.since => Snapshot!IsFinalized(writer.note.head)'
    BY <1>0, <2>1, <2>3, <2>5 DEF Checking
  <2>7. Known(21) /\ snapHead'.stamp = writer.since =>
          \A f \in {"document", "memory"} :
            Unmoved(f)' => snapCommits'[writer.note.head].tree[f] = writer.got[f].content
    BY <1>0, <2>1, <2>3, <2>4, <2>5 DEF Checking
  <2>8. writer.steady =>
         /\ writer.at = 25
         /\ Snapshot!Names(writer.note.memory) =>
              /\ Snapshot!IsFinalized(writer.note.head)'
              /\ snapCommits'[writer.note.head].tree["document"]
                   = Snapshot!Rendered(snapCommits'[writer.note.head].tree)
    BY <1>0, <2>3, <2>5 DEF Checking, Snapshot!Rendered
  <2>9. /\ writer.at \in 17..25 => writer.returned
        /\ writer.at >= 3 /\ snapHead'.stamp = writer.since => snapHead'.commit = writer.head
        /\ writer.at >= 19 =>
             /\ writer.note.head \in DOMAIN snapCommits'
             /\ snapHead'.stamp = writer.since => snapHead'.commit = writer.note.head
    BY <1>0, <2>1, <2>3 DEF Checking
  <2> QED
    BY <1>1, <2>2, <2>6, <2>7, <2>8, <2>9 DEF Checking, Snapshot!Rendered, Snapshot!Names
<1> QED
  BY <1>1, <1>2, <1>3, <1>6, <1>7 DEF SnapshotOwned

(***************************************************************************)
(* The command.                                                            *)
(***************************************************************************)

(* What a step of the command does to the fields it does not name.           *)
Keeps(fields) ==
  /\ writer' = [x \in WriterFields |-> writer'[x]]
  /\ \A x \in WriterFields \ fields : writer'[x] = writer[x]

LEMMA GoKeeps ==
  ASSUME Writing, Snapshot!Go
  PROVE  Keeps({"at"}) /\ writer'.at = writer.at + 1
<1>1. PICK n : n = writer.at + 1
  OBVIOUS
<1>2. writer' = [writer EXCEPT !.at = n]
  BY <1>1 DEF Snapshot!Go
<1>3. writer = [x \in WriterFields |-> writer[x]]
  BY DEF Writing
<1> QED
  BY <1>1, <1>2, <1>3 DEF Keeps, WriterFields

(* The world rests while the command takes a step.                           *)
LEMMA WritingStep ==
  ASSUME Stamped, History, Writing, Snapshot!World' = Snapshot!World,
         Keeps({"at", "head", "rendered", "got", "failed", "fresh", "returned", "note",
                "since", "steady", "outcome"}),
         writer'.at \in 1..Len(Snapshot!Steps(writer.command)),
         writer'.got = [f \in Snapshot!Files |-> writer'.got[f]],
         \A f \in Snapshot!Files : writer'.got[f] = writer.got[f] \/ writer'.got[f] = disk[f],
         writer'.failed \in BOOLEAN, writer'.fresh \in BOOLEAN,
         writer'.returned \in BOOLEAN, writer'.steady \in BOOLEAN,
         writer'.since = writer.since \/ writer'.since = snapHead.stamp
  PROVE  Stamped' /\ History' /\ Writing'
<1>1. UNCHANGED <<snapCommits, snapHead, disk, snapChanges>>
  BY DEF Snapshot!World
<1>2. writer'.command = writer.command /\ writer' = [x \in WriterFields |-> writer'[x]]
  BY DEF Keeps, WriterFields
<1>3. Stamped' /\ History'
  BY <1>1, <1>2 DEF Stamped, History
<1>4. ASSUME NEW f \in Snapshot!Files
      PROVE  /\ writer'.got[f].stamp \in Int
             /\ f # "document" \/ writer.command = "check" =>
                  /\ writer'.got[f].stamp <= snapChanges
                  /\ disk[f] = writer'.got[f] \/ disk[f].stamp > writer'.got[f].stamp
  <2>1. /\ disk[f].stamp \in Nat
        /\ f # "document" \/ writer.command = "check" => disk[f].stamp <= snapChanges
    BY DEF Stamped
  <2>2. CASE writer'.got[f] = writer.got[f]
    BY <2>2 DEF Writing
  <2>3. CASE writer'.got[f] = disk[f]
    BY <2>1, <2>3
  <2> QED
    BY <2>2, <2>3
<1>5. writer'.since \in Nat /\ writer'.since <= snapHead.stamp
  BY DEF Stamped, Writing
<1>6. Writing'
  BY <1>1, <1>2, <1>4, <1>5 DEF Writing
<1> QED
  BY <1>3, <1>6

(* A step that is not the last one has a next.                               *)
LEMMA NextPlace ==
  ASSUME Writing, NEW step, Snapshot!At(step), step # "done"
  PROVE  /\ writer.at + 1 \in 1..Len(Snapshot!Steps(writer.command))
         /\ writer.at \in 1..33
<1>1. writer.at \in 1..Len(Snapshot!Steps(writer.command))
      /\ Snapshot!Steps(writer.command)[writer.at] = step
  BY DEF Writing, Snapshot!At, Snapshot!Step
<1>2. CASE writer.command = "write"
  <2>1. Len(Snapshot!Steps("write")) = 34 /\ Snapshot!Steps("write")[34] = "done"
    BY WriteSteps
  <2>2. PICK n, l : n = writer.at /\ l = Len(Snapshot!Steps(writer.command))
    OBVIOUS
  <2>3. l = 34 /\ n \in 1..34 /\ n # 34
    BY <1>1, <1>2, <2>1, <2>2
  <2>4. n + 1 \in 1..l /\ n \in 1..33
    BY <2>3
  <2> QED
    BY <2>2, <2>4
<1>3. CASE writer.command = "check"
  <2>1. Len(Snapshot!Steps("check")) = 25 /\ Snapshot!Steps("check")[25] = "done"
    BY CheckSteps
  <2>2. PICK n, l : n = writer.at /\ l = Len(Snapshot!Steps(writer.command))
    OBVIOUS
  <2>3. l = 25 /\ n \in 1..25 /\ n # 25
    BY <1>1, <1>3, <2>1, <2>2
  <2>4. n + 1 \in 1..l /\ n \in 1..33
    BY <2>3
  <2> QED
    BY <2>2, <2>4
<1> QED
  BY <1>2, <1>3 DEF Writing

LEMMA AnyPlace ==
  ASSUME Writing
  PROVE  writer.at \in 1..34 /\ writer.command \in {"write", "check"}
<1>1. writer.command \in {"write", "check"}
  BY DEF Writing
<1>2. CASE writer.command = "write"
  BY <1>2, WriteSteps DEF Writing
<1>3. CASE writer.command = "check"
  <2>1. writer.at \in 1..25
    BY <1>3, CheckSteps DEF Writing
  <2> QED
    BY <1>3, <2>1
<1> QED
  BY <1>1, <1>2, <1>3

LEMMA EveryLength ==
  ASSUME Writing, NEW n \in Nat, n >= 1,
         writer.command = "write" => n <= 34,
         writer.command = "check" => n <= 25
  PROVE  n \in 1..Len(Snapshot!Steps(writer.command))
<1>1. PICK l : l = Len(Snapshot!Steps(writer.command))
  OBVIOUS
<1>2. CASE writer.command = "write"
  <2>1. Snapshot!Steps(writer.command) = Snapshot!Steps("write")
    BY <1>2
  <2>2. l = 34
    BY <1>1, <2>1, WriteSteps
  <2>3. n \in 1..l
    BY <1>2, <2>2
  <2> QED
    BY <1>1, <2>3
<1>3. CASE writer.command = "check"
  <2>1. Snapshot!Steps(writer.command) = Snapshot!Steps("check")
    BY <1>3
  <2>2. l = 25
    BY <1>1, <2>1, CheckSteps
  <2>3. n \in 1..l
    BY <1>3, <2>2
  <2> QED
    BY <1>1, <2>3
<1> QED
  BY <1>2, <1>3 DEF Writing

LEMMA RenderPlace ==
  ASSUME SnapshotOwned, Place \in 1..15
  PROVE  /\ ~writer.returned
         /\ writer.command = "check" => writer.at = Place + 1 /\ ~writer.steady
         /\ writer.command # "check" => \/ writer.at \in 1..15 /\ writer.at = Place
                                        \/ writer.at \in 18..32 /\ writer.at = Place + 17
<1>1. PICK p, n : p \in 1..15 /\ p = Place /\ n = writer.at
  OBVIOUS
<1>2. n \in 1..34 /\ writer.command \in {"write", "check"}
  BY <1>1, AnyPlace DEF SnapshotOwned
<1>3. /\ writer.command = "check" => n = p + 1
      /\ writer.command # "check" => \/ n \in 1..15 /\ n = p
                                     \/ n \in 18..32 /\ n = p + 17
  BY <1>1, <1>2 DEF Place
<1>4. ~(\/ writer.command = "check" /\ n \in 17..25
        \/ writer.command = "write" /\ n \in {16, 33, 34})
  <2>1. CASE writer.command = "check"
    BY <1>1, <1>3, <2>1
  <2>2. CASE writer.command = "write"
    BY <1>3, <2>2
  <2> QED
    BY <1>2, <2>1, <2>2
<1>5. ~writer.returned
  BY <1>1, <1>4, Zenon DEF SnapshotOwned, Rendering
<1>6. writer.command = "check" => ~writer.steady
  BY <1>1, <1>3 DEF SnapshotOwned, Checking
<1> QED
  BY <1>1, <1>3, <1>5, <1>6

(* A step of the rendering that goes on, to where the head is read again or  *)
(* to the next place.                                                        *)
LEMMA RenderStep ==
  ASSUME SnapshotOwned, NEW p \in 1..14, p = Place, NEW q \in 2..15, q > p,
         writer'.at = writer.at + (q - p),
         Snapshot!World' = Snapshot!World,
         Keeps({"at", "head", "rendered", "got", "failed", "fresh"}),
         writer'.got = [f \in Snapshot!Files |-> writer'.got[f]],
         \A f \in Snapshot!Files : writer'.got[f] = writer.got[f] \/ writer'.got[f] = disk[f],
         writer'.failed \in BOOLEAN, writer'.fresh \in BOOLEAN,
         writer'.head \in DOMAIN snapCommits,
         snapHead.stamp = writer.since /\ writer.command = "check" => snapHead.commit = writer'.head,
         q \in 7..15 /\ ~writer'.failed =>
           \A f \in Snapshot!SourceFiles : writer'.got[f].content = snapCommits[writer'.head].tree[f],
         q \in 10..15 /\ ~writer'.failed =>
           writer'.rendered = Snapshot!Document(writer'.got["s1"].content, writer'.got["s2"].content,
                                                writer'.got["memory"].content),
         q \in 10..15 /\ ~writer'.failed /\ ~writer'.fresh =>
           \/ q <= 11 /\ ~Unmoved("s1")'
           \/ q <= 12 /\ ~Unmoved("s2")'
           \/ q <= 13 /\ ~Unmoved("memory")'
  PROVE  SnapshotOwned'
<1>0. Stamped /\ History /\ Writing /\ Rendering /\ Checking
  BY DEF SnapshotOwned
<1>1. UNCHANGED <<snapCommits, snapHead, disk, snapChanges>>
  BY DEF Snapshot!World
<1>2. /\ writer'.command = writer.command /\ writer'.returned = writer.returned
      /\ writer'.note = writer.note /\ writer'.since = writer.since
      /\ writer'.steady = writer.steady
  BY DEF Keeps, WriterFields
<1>3. /\ ~writer.returned
      /\ writer.command = "check" => writer.at = p + 1 /\ ~writer.steady
      /\ writer.command # "check" => \/ writer.at \in 1..15 /\ writer.at = p
                                     \/ writer.at \in 18..32 /\ writer.at = p + 17
  <2>1. Place \in 1..15
    OBVIOUS
  <2> QED
    BY <2>1, RenderPlace
<1>4. /\ writer.command = "check" => writer'.at = q + 1 /\ writer'.at \in 3..16
      /\ writer.command # "check" => \/ writer'.at \in 2..15 /\ writer'.at = q
                                     \/ writer'.at \in 19..32 /\ writer'.at = q + 17
  <2>1. PICK n : n = writer.at
    OBVIOUS
  <2>2. writer'.at = n + (q - p)
    BY <2>1
  <2> QED
    BY <1>3, <2>1, <2>2
<1>5. Place' = q
  BY <1>2, <1>4 DEF Place
<1>6. Stamped' /\ History' /\ Writing'
  <2>1. Keeps({"at", "head", "rendered", "got", "failed", "fresh", "returned", "note",
                "since", "steady", "outcome"})
    BY DEF Keeps
  <2>2. writer'.returned \in BOOLEAN /\ writer'.steady \in BOOLEAN
    BY <1>0, <1>2 DEF Writing
  <2>3. writer'.at \in 1..Len(Snapshot!Steps(writer.command))
    BY <1>0, <1>4, EveryLength
  <2> QED
    BY <1>0, <1>2, <2>1, <2>2, <2>3, WritingStep
<1>7. Rendering'
  BY <1>1, <1>2, <1>3, <1>5 DEF Rendering, Snapshot!Document
<1>8. Checking'
  <2> SUFFICES ASSUME writer.command = "check"
               PROVE  Checking'
    BY <1>2 DEF Checking
  <2>1. PICK n \in 3..16 : n = writer'.at
    BY <1>4
  <2>2. /\ ~(writer'.at >= 19) /\ writer'.at \notin 17..25 /\ writer'.at \notin 20..23
        /\ writer'.at \notin 21..23 /\ writer'.at \notin {24, 25}
    BY <2>1
  <2>3. ~Known(20)' /\ ~Known(21)'
    BY <2>2 DEF Known
  <2> QED
    BY <1>1, <1>2, <1>3, <2>2, <2>3, Zenon DEF Checking
<1> QED
  BY <1>6, <1>7, <1>8 DEF SnapshotOwned

(* What such a step has when it leaves the fields alone.                     *)
LEMMA KeepsWriting ==
  ASSUME Writing, writer'.got = writer.got
  PROVE  /\ writer'.got = [f \in Snapshot!Files |-> writer'.got[f]]
         /\ \A f \in Snapshot!Files : writer'.got[f] = writer.got[f] \/ writer'.got[f] = disk[f]
BY DEF Writing

(* The steps of the rendering that pass what they look at.                   *)
LEMMA PassRender ==
  ASSUME SnapshotOwned, Place \in {5, 6, 7, 8, 10, 11, 12, 13, 14},
         Snapshot!Go, Snapshot!World' = Snapshot!World,
         Place = 6 => Snapshot!BoundTo(writer.head),
         Place = 11 => Unmoved("s1"),
         Place = 12 => Unmoved("s2"),
         Place = 13 => Unmoved("memory")
  PROVE  SnapshotOwned'
<1>0. Stamped /\ History /\ Writing /\ Rendering /\ Checking
  BY DEF SnapshotOwned
<1>1. UNCHANGED <<snapCommits, snapHead, disk, snapChanges>>
  BY DEF Snapshot!World
<1>2. Keeps({"at"}) /\ writer'.at = writer.at + 1
  BY <1>0, GoKeeps
<1>3. /\ writer'.head = writer.head
      /\ writer'.rendered = writer.rendered /\ writer'.got = writer.got
      /\ writer'.failed = writer.failed /\ writer'.fresh = writer.fresh
  BY <1>2 DEF Keeps, WriterFields
<1>4. PICK p, q : p \in {5, 6, 7, 8, 10, 11, 12, 13, 14} /\ p = Place /\ q = p + 1
  OBVIOUS
<1>5. /\ p \in 1..14 /\ q \in 2..15 /\ q > p /\ q - p = 1
  BY <1>4
<1>6. writer.head \in DOMAIN snapCommits
  BY <1>0, <1>4 DEF Rendering
<1>7. snapHead.stamp = writer.since /\ writer.command = "check" => snapHead.commit = writer.head
  <2> SUFFICES ASSUME snapHead.stamp = writer.since, writer.command = "check"
               PROVE  snapHead.commit = writer.head
    OBVIOUS
  <2>1. Place \in 1..15
    BY <1>4
  <2>2. writer.at = p + 1
    BY <1>4, <2>1, RenderPlace
  <2>3. writer.at >= 3
    BY <1>4, <2>2
  <2> QED
    BY <1>0, <2>3 DEF Checking
<1>8. q \in 7..15 /\ ~writer.failed =>
        \A f \in Snapshot!SourceFiles : writer.got[f].content = snapCommits[writer.head].tree[f]
  <2>1. CASE p = 6
    BY <1>4, <2>1 DEF Snapshot!BoundTo, Snapshot!Tree
  <2>2. CASE p # 6
    BY <1>0, <1>4, <2>2 DEF Rendering
  <2> QED
    BY <2>1, <2>2
<1>9. q \in 10..15 /\ ~writer.failed =>
        writer.rendered = Snapshot!Document(writer.got["s1"].content, writer.got["s2"].content,
                                            writer.got["memory"].content)
  BY <1>0, <1>4 DEF Rendering
<1>10. q \in 10..15 /\ ~writer.failed /\ ~writer.fresh =>
         \/ q <= 11 /\ ~Unmoved("s1")
         \/ q <= 12 /\ ~Unmoved("s2")
         \/ q <= 13 /\ ~Unmoved("memory")
  BY <1>0, <1>4 DEF Rendering
<1>11. Unmoved("s1")' = Unmoved("s1") /\ Unmoved("s2")' = Unmoved("s2")
       /\ Unmoved("memory")' = Unmoved("memory")
  BY <1>1, <1>3 DEF Unmoved
<1>12. writer.failed \in BOOLEAN /\ writer.fresh \in BOOLEAN
  BY <1>0 DEF Writing
<1>13. Keeps({"at", "head", "rendered", "got", "failed", "fresh"})
  BY <1>2 DEF Keeps
<1>14. /\ writer'.got = [f \in Snapshot!Files |-> writer'.got[f]]
       /\ \A f \in Snapshot!Files : writer'.got[f] = writer.got[f] \/ writer'.got[f] = disk[f]
  BY <1>0, <1>3, KeepsWriting
<1>15. q \in 10..15 /\ ~writer.failed /\ ~writer.fresh =>
         \/ q <= 11 /\ ~Unmoved("s1")'
         \/ q <= 12 /\ ~Unmoved("s2")'
         \/ q <= 13 /\ ~Unmoved("memory")'
  BY <1>10, <1>11
<1>16. /\ writer'.at = writer.at + (q - p) /\ p = Place /\ p \in 1..14 /\ q \in 2..15 /\ q > p
       /\ writer'.failed \in BOOLEAN /\ writer'.fresh \in BOOLEAN
       /\ writer'.head \in DOMAIN snapCommits
       /\ snapHead.stamp = writer.since /\ writer.command = "check" => snapHead.commit = writer'.head
  BY <1>2, <1>3, <1>4, <1>5, <1>6, <1>7, <1>12
<1>17. /\ q \in 7..15 /\ ~writer'.failed =>
            \A f \in Snapshot!SourceFiles :
              writer'.got[f].content = snapCommits[writer'.head].tree[f]
       /\ q \in 10..15 /\ ~writer'.failed =>
            writer'.rendered = Snapshot!Document(writer'.got["s1"].content,
                                 writer'.got["s2"].content, writer'.got["memory"].content)
       /\ q \in 10..15 /\ ~writer'.failed /\ ~writer'.fresh =>
            \/ q <= 11 /\ ~Unmoved("s1")'
            \/ q <= 12 /\ ~Unmoved("s2")'
            \/ q <= 13 /\ ~Unmoved("memory")'
  BY <1>3, <1>8, <1>9, <1>15
<1> QED
  BY <1>13, <1>14, <1>16, <1>17, RenderStep

(* Only the outcome changes.                                                 *)
LEMMA EndSnapshot ==
  ASSUME SnapshotOwned, NEW o, writer' = [writer EXCEPT !.outcome = o],
         Snapshot!World' = Snapshot!World
  PROVE  SnapshotOwned'
<1>0. Stamped /\ History /\ Writing /\ Rendering /\ Checking
  BY DEF SnapshotOwned
<1>1. UNCHANGED <<snapCommits, snapHead, disk, snapChanges>>
  BY DEF Snapshot!World
<1>2. Keeps({"outcome"})
  <2>1. writer = [x \in WriterFields |-> writer[x]]
    BY <1>0 DEF Writing
  <2> QED
    BY <2>1 DEF Keeps, WriterFields
<1>3. /\ writer'.command = writer.command /\ writer'.head = writer.head /\ writer'.at = writer.at
      /\ writer'.rendered = writer.rendered /\ writer'.got = writer.got
      /\ writer'.failed = writer.failed /\ writer'.fresh = writer.fresh
      /\ writer'.returned = writer.returned /\ writer'.note = writer.note
      /\ writer'.since = writer.since /\ writer'.steady = writer.steady
  BY <1>2 DEF Keeps, WriterFields
<1>4. Stamped' /\ History'
  BY <1>0, <1>1, <1>3 DEF Stamped, History
<1>5. Writing'
  BY <1>0, <1>1, <1>2, <1>3 DEF Writing, Keeps
<1>6. Rendering'
  BY <1>0, <1>1, <1>3 DEF Rendering, Place, Unmoved
<1>7. Checking'
  <2>1. Known(20)' = Known(20) /\ Known(21)' = Known(21)
    BY <1>3 DEF Known
  <2>2. Snapshot!IsFinalized(writer.note.head)' = Snapshot!IsFinalized(writer.note.head)
    BY <1>1, <1>3 DEF Snapshot!IsFinalized, Snapshot!IsFinal, Snapshot!Tree
  <2>3. \A f \in {"document", "memory"} : Unmoved(f)' = Unmoved(f)
    BY <1>1, <1>3 DEF Unmoved
  <2> QED
    BY <1>0, <1>1, <1>3, <2>1, <2>2, <2>3 DEF Checking, Snapshot!Names, Snapshot!Rendered
<1> QED
  BY <1>4, <1>5, <1>6, <1>7 DEF SnapshotOwned


(* A check, passed or not.                                                   *)
LEMMA RefuseSnapshot ==
  ASSUME SnapshotOwned, Snapshot!Refuse, Snapshot!World' = Snapshot!World
  PROVE  SnapshotOwned'
BY EndSnapshot DEF Snapshot!Refuse

(* What fails in the clone is held back.                                     *)
LEMMA HoldSnapshot ==
  ASSUME SnapshotOwned, Place \in 6..8, Snapshot!Hold, Snapshot!World' = Snapshot!World
  PROVE  SnapshotOwned'
<1>0. Stamped /\ History /\ Writing /\ Rendering /\ Checking
  BY DEF SnapshotOwned
<1>1. PICK p, n : p \in 6..8 /\ p = Place /\ n = writer.at + (10 - p)
  OBVIOUS
<1>2. Snapshot!Recheck = n
  <2>1. Place \in 6..9
    BY <1>1
  <2>2. Snapshot!Recheck = writer.at + 10 - Place
    BY <1>0, <2>1, RecheckPlace
  <2>3. writer.at \in Nat
    BY <1>0, AnyPlace
  <2> QED
    BY <1>1, <2>2, <2>3
<1>3. Keeps({"at", "failed", "fresh"}) /\ writer'.at = n
      /\ writer'.failed = TRUE /\ writer'.fresh = FALSE
  <2>1. writer' = [writer EXCEPT !.at = n, !.failed = TRUE, !.fresh = FALSE]
    BY <1>2 DEF Snapshot!Hold
  <2>2. writer = [x \in WriterFields |-> writer[x]]
    BY <1>0 DEF Writing
  <2> QED
    BY <2>1, <2>2 DEF Keeps, WriterFields
<1>4. Keeps({"at", "head", "rendered", "got", "failed", "fresh"})
  BY <1>3 DEF Keeps
<1>5. writer'.head = writer.head /\ writer'.got = writer.got
  BY <1>3 DEF Keeps, WriterFields
<1>6. /\ writer'.got = [f \in Snapshot!Files |-> writer'.got[f]]
      /\ \A f \in Snapshot!Files : writer'.got[f] = writer.got[f] \/ writer'.got[f] = disk[f]
  BY <1>0, <1>5, KeepsWriting
<1>7. writer'.head \in DOMAIN snapCommits
  BY <1>0, <1>1, <1>5 DEF Rendering
<1>8. snapHead.stamp = writer.since /\ writer.command = "check" => snapHead.commit = writer'.head
  <2> SUFFICES ASSUME snapHead.stamp = writer.since, writer.command = "check"
               PROVE  snapHead.commit = writer.head
    BY <1>5
  <2>1. Place \in 1..15
    BY <1>1
  <2>2. writer.at = Place + 1
    BY <2>1, RenderPlace
  <2>3. writer.at >= 3
    BY <1>1, <2>2
  <2> QED
    BY <1>0, <2>3 DEF Checking
<1>9. p \in 1..14 /\ 10 \in 2..15 /\ 10 > p /\ writer'.at = writer.at + (10 - p)
  BY <1>1, <1>3
<1>10. writer'.failed \in BOOLEAN /\ writer'.fresh \in BOOLEAN /\ ~(~writer'.failed)
  BY <1>3
<1> QED
  BY <1>1, <1>4, <1>6, <1>7, <1>8, <1>9, <1>10, RenderStep

(* Where a rendering is, by the step it takes.                               *)
LEMMA RenderedAt ==
  ASSUME Writing, NEW step, Snapshot!At(step), step \in RenderNames
  PROVE  /\ Place \in 1..15
         /\ step = "head" => Place = 1
         /\ step = "s1" => Place = 2
         /\ step = "s2" => Place = 3
         /\ step = "memory" => Place = 4
         /\ step = "checkout" => Place = 5
         /\ step = "clone" => Place = 6
         /\ step = "copyS1" => Place = 7
         /\ step = "copyS2" => Place = 8
         /\ step = "worker" => Place = 9
         /\ step = "headAgain" => Place = 10
         /\ step = "s1Again" => Place = 11
         /\ step = "s2Again" => Place = 12
         /\ step = "memoryAgain" => Place = 13
         /\ step = "checkoutAgain" => Place = 14
         /\ step = "result" => Place = 15
<1>1. Place \in 1..15 /\ step = Snapshot!Render[Place]
  BY StepPlaces DEF AtPlace
<1>2. PICK p \in 1..15 : p = Place
  BY <1>1
<1>3. p \in {1, 2, 3, 4, 5, 6, 7, 8, 9, 10, 11, 12, 13, 14, 15}
  BY <1>2
<1>4. step = Snapshot!Render[p]
  BY <1>1, <1>2
<1> QED
  BY <1>2, <1>3, <1>4, RenderSteps

LEMMA ReadHeadSnapshot ==
  ASSUME SnapshotOwned, Snapshot!ReadHead
  PROVE  SnapshotOwned'
<1>0. Stamped /\ History /\ Writing /\ Rendering /\ Checking
  BY DEF SnapshotOwned
<1>1. Place = 1
  BY <1>0, RenderedAt DEF Snapshot!ReadHead, RenderNames
<1>2. Snapshot!World' = Snapshot!World
  BY DEF Snapshot!ReadHead, Snapshot!World
<1>3. /\ Keeps({"at", "head", "failed"}) /\ writer'.at = writer.at + 1
      /\ writer'.head = snapHead.commit /\ writer'.failed = FALSE
  <2>1. PICK n, h : n = writer.at + 1 /\ h = snapHead.commit
    OBVIOUS
  <2>2. writer' = [writer EXCEPT !.head = h, !.at = n, !.failed = FALSE]
    BY <2>1 DEF Snapshot!ReadHead
  <2>3. writer = [x \in WriterFields |-> writer[x]]
    BY <1>0 DEF Writing
  <2> QED
    BY <2>1, <2>2, <2>3 DEF Keeps, WriterFields
<1>4. Keeps({"at", "head", "rendered", "got", "failed", "fresh"})
  BY <1>3 DEF Keeps
<1>5. writer'.got = writer.got /\ writer'.fresh = writer.fresh
  BY <1>3 DEF Keeps, WriterFields
<1>6. /\ writer'.got = [f \in Snapshot!Files |-> writer'.got[f]]
      /\ \A f \in Snapshot!Files : writer'.got[f] = writer.got[f] \/ writer'.got[f] = disk[f]
  BY <1>0, <1>5, KeepsWriting
<1>7. writer'.head \in DOMAIN snapCommits
  BY <1>0, <1>3 DEF History
<1>8. /\ 1 \in 1..14 /\ 2 \in 2..15 /\ 2 > 1 /\ writer'.at = writer.at + (2 - 1)
      /\ 2 \notin 7..15 /\ 2 \notin 10..15
  BY <1>3
<1>9. writer'.failed \in BOOLEAN /\ writer'.fresh \in BOOLEAN
  BY <1>0, <1>3, <1>5 DEF Writing
<1> QED
  BY <1>1, <1>2, <1>3, <1>4, <1>6, <1>7, <1>8, <1>9, RenderStep

LEMMA ReadFileSnapshot ==
  ASSUME SnapshotOwned, NEW f \in Snapshot!SourceFiles \cup {"memory"}, Snapshot!ReadFile(f)
  PROVE  SnapshotOwned'
<1>0. Stamped /\ History /\ Writing /\ Rendering /\ Checking
  BY DEF SnapshotOwned
<1>1. f \in Snapshot!Files /\ f \in {"s1", "s2", "memory"}
  BY DEF Snapshot!Files, Snapshot!SourceFiles
<1>2. PICK p \in 2..4, q \in 3..5 : p = Place /\ q = p + 1
  BY <1>0, <1>1, RenderedAt DEF Snapshot!ReadFile, RenderNames
<1>3. Snapshot!World' = Snapshot!World
  BY DEF Snapshot!ReadFile, Snapshot!World
<1>4. PICK d, g : d = disk[f] /\ g = [writer.got EXCEPT ![f] = d]
  OBVIOUS
<1>5. Keeps({"at", "got"}) /\ writer'.at = writer.at + 1 /\ writer'.got = g
  <2>1. PICK n : n = writer.at + 1
    OBVIOUS
  <2>2. writer' = [writer EXCEPT !.got = g, !.at = n]
    BY <1>4, <2>1 DEF Snapshot!ReadFile
  <2>3. writer = [x \in WriterFields |-> writer[x]]
    BY <1>0 DEF Writing
  <2> QED
    BY <2>1, <2>2, <2>3 DEF Keeps, WriterFields
<1>6. Keeps({"at", "head", "rendered", "got", "failed", "fresh"})
  BY <1>5 DEF Keeps
<1>7. writer'.head = writer.head /\ writer'.failed = writer.failed /\ writer'.fresh = writer.fresh
  BY <1>5 DEF Keeps, WriterFields
<1>8. /\ writer'.got = [x \in Snapshot!Files |-> writer'.got[x]]
      /\ \A x \in Snapshot!Files : writer'.got[x] = writer.got[x] \/ writer'.got[x] = disk[x]
  <2>1. writer.got = [x \in Snapshot!Files |-> writer.got[x]]
    BY <1>0 DEF Writing
  <2> QED
    BY <1>4, <1>5, <2>1
<1>9. writer'.head \in DOMAIN snapCommits
  BY <1>0, <1>2, <1>7 DEF Rendering
<1>10. snapHead.stamp = writer.since /\ writer.command = "check" => snapHead.commit = writer'.head
  <2> SUFFICES ASSUME snapHead.stamp = writer.since, writer.command = "check"
               PROVE  snapHead.commit = writer.head
    BY <1>7
  <2>1. Place \in 1..15
    BY <1>2
  <2>2. writer.at = Place + 1
    BY <2>1, RenderPlace
  <2>3. writer.at >= 3
    BY <1>2, <2>2
  <2> QED
    BY <1>0, <2>3 DEF Checking
<1>11. /\ p \in 1..14 /\ q \in 2..15 /\ q > p /\ writer'.at = writer.at + (q - p)
       /\ q \notin 7..15 /\ q \notin 10..15
  BY <1>2, <1>5
<1>12. writer'.failed \in BOOLEAN /\ writer'.fresh \in BOOLEAN
  BY <1>0, <1>7 DEF Writing
<1> QED
  BY <1>2, <1>3, <1>6, <1>8, <1>9, <1>10, <1>11, <1>12, RenderStep

(* The worker renders what was read; what it knows of the disk is what is    *)
(* there when it has done.                                                   *)
LEMMA WorkSnapshot ==
  ASSUME SnapshotOwned, Snapshot!Work
  PROVE  SnapshotOwned'
<1>0. Stamped /\ History /\ Writing /\ Rendering /\ Checking
  BY DEF SnapshotOwned
<1>1. Place = 9
  BY <1>0, RenderedAt DEF Snapshot!Work, RenderNames
<1>2. Snapshot!World' = Snapshot!World /\ UNCHANGED disk
  BY DEF Snapshot!Work, Snapshot!World
<1>3. PICK n, b, d : /\ n = writer.at + 1 /\ b = Snapshot!InPlace
                     /\ d = Snapshot!Document(writer.got["s1"].content, writer.got["s2"].content,
                                              writer.got["memory"].content)
  OBVIOUS
<1>4. \/ writer' = [writer EXCEPT !.at = n, !.fresh = b, !.rendered = d]
      \/ writer' = [writer EXCEPT !.at = n, !.fresh = b, !.failed = TRUE]
  <2>1. Snapshot!Rendered([f \in Snapshot!Files |-> IF f = "document" THEN Snapshot!Stale
                                                    ELSE writer.got[f].content]) = d
    BY <1>3 DEF Snapshot!Rendered, Snapshot!Document, Snapshot!Files, Snapshot!SourceFiles
  <2> QED
    BY <1>3, <2>1 DEF Snapshot!Work
<1>5. /\ Keeps({"at", "fresh", "rendered", "failed"}) /\ writer'.at = n /\ writer'.fresh = b
      /\ \/ writer'.rendered = d /\ writer'.failed = writer.failed
         \/ writer'.failed = TRUE
  <2>1. writer = [x \in WriterFields |-> writer[x]]
    BY <1>0 DEF Writing
  <2> QED
    BY <1>4, <2>1 DEF Keeps, WriterFields
<1>6. Keeps({"at", "head", "rendered", "got", "failed", "fresh"})
  BY <1>5 DEF Keeps
<1>7. writer'.head = writer.head /\ writer'.got = writer.got
  BY <1>5 DEF Keeps, WriterFields
<1>8. /\ writer'.got = [f \in Snapshot!Files |-> writer'.got[f]]
      /\ \A f \in Snapshot!Files : writer'.got[f] = writer.got[f] \/ writer'.got[f] = disk[f]
  BY <1>0, <1>7, KeepsWriting
<1>9. writer'.head \in DOMAIN snapCommits
  BY <1>0, <1>1, <1>7 DEF Rendering
<1>10. snapHead.stamp = writer.since /\ writer.command = "check" => snapHead.commit = writer'.head
  <2> SUFFICES ASSUME snapHead.stamp = writer.since, writer.command = "check"
               PROVE  snapHead.commit = writer.head
    BY <1>7
  <2>1. writer.at = 10
    BY <1>1, RenderPlace
  <2> QED
    BY <1>0, <2>1 DEF Checking
<1>11. b \in BOOLEAN /\ (b <=> \A f \in Snapshot!SourceFiles \cup {"memory"} : Unmoved(f))
  BY <1>3 DEF Snapshot!InPlace, Unmoved
<1>12. writer'.failed \in BOOLEAN /\ writer'.fresh \in BOOLEAN
  BY <1>0, <1>5, <1>11 DEF Writing
<1>13. ~writer'.failed =>
         /\ \A f \in Snapshot!SourceFiles :
              writer'.got[f].content = snapCommits[writer'.head].tree[f]
         /\ writer'.rendered = Snapshot!Document(writer'.got["s1"].content,
                                 writer'.got["s2"].content, writer'.got["memory"].content)
  <2>1. ~writer'.failed => ~writer.failed /\ writer'.rendered = d
    BY <1>5
  <2> QED
    BY <1>0, <1>1, <1>3, <1>7, <2>1 DEF Rendering
<1>14. ~writer'.fresh => \/ 10 <= 11 /\ ~Unmoved("s1")'
                         \/ 10 <= 12 /\ ~Unmoved("s2")'
                         \/ 10 <= 13 /\ ~Unmoved("memory")'
  <2>1. ~b => ~Unmoved("s1") \/ ~Unmoved("s2") \/ ~Unmoved("memory")
    BY <1>11 DEF Snapshot!SourceFiles
  <2>2. Unmoved("s1")' = Unmoved("s1") /\ Unmoved("s2")' = Unmoved("s2")
        /\ Unmoved("memory")' = Unmoved("memory")
    BY <1>2, <1>7 DEF Unmoved
  <2> QED
    BY <1>5, <2>1, <2>2
<1>15. 9 \in 1..14 /\ 10 \in 2..15 /\ 10 > 9 /\ writer'.at = writer.at + (10 - 9)
  BY <1>3, <1>5
<1> QED
  BY <1>1, <1>2, <1>6, <1>8, <1>9, <1>10, <1>12, <1>13, <1>14, <1>15, RenderStep

(* The checks of the rendering.                                              *)
LEMMA LooksSnapshot ==
  ASSUME SnapshotOwned,
         \/ Snapshot!CheckCheckout("checkout") \/ Snapshot!CheckCheckout("checkoutAgain")
         \/ Snapshot!Clone
         \/ Snapshot!Copy("s1", "copyS1") \/ Snapshot!Copy("s2", "copyS2")
         \/ Snapshot!ReadHeadAgain
         \/ Snapshot!ReadFileAgain("s1", "s1Again") \/ Snapshot!ReadFileAgain("s2", "s2Again")
         \/ Snapshot!ReadFileAgain("memory", "memoryAgain")
  PROVE  SnapshotOwned'
<1>0. Writing
  BY DEF SnapshotOwned
<1>1. Snapshot!World' = Snapshot!World
  BY DEF Snapshot!CheckCheckout, Snapshot!Clone, Snapshot!Copy, Snapshot!ReadHeadAgain,
         Snapshot!ReadFileAgain, Snapshot!World
<1>2. CASE Snapshot!CheckCheckout("checkout") \/ Snapshot!CheckCheckout("checkoutAgain")
  <2>1. Place \in {5, 14}
    BY <1>0, <1>2, RenderedAt DEF Snapshot!CheckCheckout, RenderNames
  <2>2. Snapshot!Go \/ Snapshot!Refuse
    BY <1>2 DEF Snapshot!CheckCheckout, Snapshot!Check
  <2> QED
    BY <1>1, <2>1, <2>2, PassRender, RefuseSnapshot
<1>3. CASE Snapshot!Clone
  <2>1. Place = 6
    BY <1>0, <1>3, RenderedAt DEF Snapshot!Clone, RenderNames
  <2>2. (Snapshot!Go /\ Snapshot!BoundTo(writer.head)) \/ Snapshot!Hold
    BY <1>3 DEF Snapshot!Clone
  <2> QED
    BY <1>1, <2>1, <2>2, PassRender, HoldSnapshot
<1>4. CASE Snapshot!Copy("s1", "copyS1") \/ Snapshot!Copy("s2", "copyS2")
  <2>1. Place \in {7, 8}
    BY <1>0, <1>4, RenderedAt DEF Snapshot!Copy, RenderNames
  <2>2. Snapshot!Go \/ Snapshot!Hold
    BY <1>4 DEF Snapshot!Copy
  <2> QED
    BY <1>1, <2>1, <2>2, PassRender, HoldSnapshot
<1>5. CASE Snapshot!ReadHeadAgain
  <2>1. Place = 10
    BY <1>0, <1>5, RenderedAt DEF Snapshot!ReadHeadAgain, RenderNames
  <2>2. Snapshot!Go \/ Snapshot!Refuse
    BY <1>5 DEF Snapshot!ReadHeadAgain, Snapshot!Check
  <2> QED
    BY <1>1, <2>1, <2>2, PassRender, RefuseSnapshot
<1>6. CASE Snapshot!ReadFileAgain("s1", "s1Again")
  <2>1. Place = 11
    BY <1>0, <1>6, RenderedAt DEF Snapshot!ReadFileAgain, RenderNames
  <2>2. (Snapshot!Go /\ Unmoved("s1")) \/ Snapshot!Refuse
    BY <1>6 DEF Snapshot!ReadFileAgain, Snapshot!Check, Snapshot!Same, Unmoved
  <2> QED
    BY <1>1, <2>1, <2>2, PassRender, RefuseSnapshot
<1>7. CASE Snapshot!ReadFileAgain("s2", "s2Again")
  <2>1. Place = 12
    BY <1>0, <1>7, RenderedAt DEF Snapshot!ReadFileAgain, RenderNames
  <2>2. (Snapshot!Go /\ Unmoved("s2")) \/ Snapshot!Refuse
    BY <1>7 DEF Snapshot!ReadFileAgain, Snapshot!Check, Snapshot!Same, Unmoved
  <2> QED
    BY <1>1, <2>1, <2>2, PassRender, RefuseSnapshot
<1>8. CASE Snapshot!ReadFileAgain("memory", "memoryAgain")
  <2>1. Place = 13
    BY <1>0, <1>8, RenderedAt DEF Snapshot!ReadFileAgain, RenderNames
  <2>2. (Snapshot!Go /\ Unmoved("memory")) \/ Snapshot!Refuse
    BY <1>8 DEF Snapshot!ReadFileAgain, Snapshot!Check, Snapshot!Same, Unmoved
  <2> QED
    BY <1>1, <2>1, <2>2, PassRender, RefuseSnapshot
<1> QED
  BY <1>2, <1>3, <1>4, <1>5, <1>6, <1>7, <1>8

LEMMA ReturnSnapshot ==
  ASSUME SnapshotOwned, Snapshot!Return
  PROVE  SnapshotOwned'
<1>0. Stamped /\ History /\ Writing /\ Rendering /\ Checking
  BY DEF SnapshotOwned
<1>1. Place = 15 /\ Place \in 1..15
  BY <1>0, RenderedAt DEF Snapshot!Return, RenderNames
<1>2. Snapshot!World' = Snapshot!World
      /\ UNCHANGED <<snapCommits, snapHead, disk, snapChanges>>
  BY DEF Snapshot!Return, Snapshot!World
<1>3. CASE writer.failed
  BY <1>2, <1>3, EndSnapshot DEF Snapshot!Return
<1>4. CASE ~writer.failed
  <2>1. PICK n : n = writer.at + 1
    OBVIOUS
  <2>2. Keeps({"at", "returned"}) /\ writer'.at = n /\ writer'.returned = TRUE
    <3>1. writer' = [writer EXCEPT !.at = n, !.returned = TRUE]
      BY <1>4, <2>1 DEF Snapshot!Return
    <3>2. writer = [x \in WriterFields |-> writer[x]]
      BY <1>0 DEF Writing
    <3> QED
      BY <3>1, <3>2 DEF Keeps, WriterFields
  <2>3. /\ writer'.command = writer.command /\ writer'.head = writer.head
        /\ writer'.rendered = writer.rendered /\ writer'.got = writer.got
        /\ writer'.failed = writer.failed /\ writer'.fresh = writer.fresh
        /\ writer'.note = writer.note
        /\ writer'.since = writer.since /\ writer'.steady = writer.steady
    BY <2>2 DEF Keeps, WriterFields
  <2>4. /\ writer.command \in {"write", "check"}
        /\ writer.command = "check" => writer.at = 16 /\ ~writer.steady
        /\ writer.command # "check" => writer.at \in {15, 32}
    BY <1>0, <1>1, RenderPlace DEF Writing
  <2>5. /\ writer.command = "check" => n = 17
        /\ writer.command # "check" => n \in {16, 33}
    BY <2>1, <2>4
  <2>6. Stamped' /\ History' /\ Writing'
    <3>1. Keeps({"at", "head", "rendered", "got", "failed", "fresh", "returned", "note",
                  "since", "steady", "outcome"})
      BY <2>2 DEF Keeps
    <3>2. n \in 1..Len(Snapshot!Steps(writer.command))
      BY <1>0, <2>4, <2>5, EveryLength
    <3>3. /\ writer'.failed \in BOOLEAN /\ writer'.fresh \in BOOLEAN
          /\ writer'.returned \in BOOLEAN /\ writer'.steady \in BOOLEAN
      BY <1>0, <2>2, <2>3 DEF Writing
    <3> QED
      BY <1>0, <1>2, <2>2, <2>3, <3>1, <3>2, <3>3, KeepsWriting, WritingStep
  <2>7. Place' \notin 2..15 /\ Place' \notin 7..15 /\ Place' \notin 10..15
    BY <2>2, <2>3, <2>4, <2>5 DEF Place
  <2>8. Rendering'
    <3>1. writer.head \in DOMAIN snapCommits /\ writer.fresh
      BY <1>0, <1>1, <1>4 DEF Rendering
    <3>2. /\ \A f \in Snapshot!SourceFiles :
               writer.got[f].content = snapCommits[writer.head].tree[f]
          /\ writer.rendered = Snapshot!Document(writer.got["s1"].content,
                                 writer.got["s2"].content, writer.got["memory"].content)
      BY <1>0, <1>1, <1>4 DEF Rendering
    <3>3. \/ writer.command = "check" /\ n \in 17..25
          \/ writer.command = "write" /\ n \in {16, 33, 34}
      BY <2>4, <2>5
    <3> QED
      BY <1>2, <2>2, <2>3, <2>7, <3>1, <3>2, <3>3 DEF Rendering, Snapshot!Document
  <2>9. Checking'
    <3> SUFFICES ASSUME writer.command = "check"
                 PROVE  Checking'
      BY <2>3 DEF Checking
    <3>1. writer'.at = 17 /\ ~writer'.steady /\ writer'.returned /\ writer.at >= 3
      BY <2>2, <2>3, <2>4, <2>5
    <3>2. ~Known(20)' /\ ~Known(21)' /\ ~(writer'.at >= 19)
      BY <3>1 DEF Known
    <3>3. snapHead.stamp = writer.since => snapHead.commit = writer.head
      BY <1>0, <3>1 DEF Checking
    <3> QED
      BY <1>2, <2>3, <3>1, <3>2, <3>3, Zenon DEF Checking
  <2> QED
    BY <2>6, <2>8, <2>9 DEF SnapshotOwned
<1> QED
  BY <1>0, <1>3, <1>4 DEF Writing

LEMMA WriteDocumentSnapshot ==
  ASSUME SnapshotOwned, Snapshot!WriteDocument
  PROVE  SnapshotOwned'
<1>0. Stamped /\ History /\ Writing /\ Rendering /\ Checking
  BY DEF SnapshotOwned
<1>1. writer.command = "write" /\ writer.at = 16
  BY <1>0, StepPlaces DEF Snapshot!WriteDocument, AtPlace
<1>2. UNCHANGED <<snapCommits, snapHead, snapChanges>>
  BY DEF Snapshot!WriteDocument
<1>3. Keeps({"at", "returned"}) /\ writer'.at = 17 /\ writer'.returned = FALSE
  <2>1. writer' = [writer EXCEPT !.at = 17, !.returned = FALSE]
    BY <1>1 DEF Snapshot!WriteDocument
  <2>2. writer = [x \in WriterFields |-> writer[x]]
    BY <1>0 DEF Writing
  <2> QED
    BY <2>1, <2>2 DEF Keeps, WriterFields
<1>4. /\ writer'.command = writer.command /\ writer'.head = writer.head
      /\ writer'.rendered = writer.rendered /\ writer'.got = writer.got
      /\ writer'.failed = writer.failed /\ writer'.fresh = writer.fresh
      /\ writer'.note = writer.note
      /\ writer'.since = writer.since /\ writer'.steady = writer.steady
  BY <1>3 DEF Keeps, WriterFields
<1>5. /\ disk' = [f \in Snapshot!Files |-> disk'[f]]
      /\ \A f \in Snapshot!Files : disk'[f].stamp \in Nat
      /\ \A f \in Snapshot!Files : f # "document" => disk'[f] = disk[f]
  <2>1. PICK d : d = [content |-> writer.rendered, stamp |-> SnapshotChanges + 1]
    OBVIOUS
  <2>2. disk' = [disk EXCEPT !["document"] = d] /\ d.stamp \in Nat
    BY <2>1, RepositoryAssumption DEF Snapshot!WriteDocument
  <2> QED
    BY <1>0, <2>2 DEF Stamped
<1>6. Stamped'
  BY <1>0, <1>1, <1>2, <1>4, <1>5 DEF Stamped
<1>7. History'
  BY <1>0, <1>2 DEF History
<1>8. Writing'
  <2>1. writer'.at \in 1..Len(Snapshot!Steps(writer'.command))
    <3>1. 17 \in 1..Len(Snapshot!Steps(writer.command))
      BY <1>0, <1>1, EveryLength
    <3> QED
      BY <1>3, <1>4, <3>1
  <2>2. writer' = [x \in WriterFields |-> writer'[x]] /\ writer'.returned \in BOOLEAN
    BY <1>3 DEF Keeps
  <2> QED
    BY <1>0, <1>1, <1>2, <1>4, <1>5, <2>1, <2>2 DEF Writing
<1>9. Place' = 17
  BY <1>1, <1>3, <1>4 DEF Place
<1>10. Rendering'
  BY <1>3, <1>9 DEF Rendering
<1>11. Checking'
  BY <1>1, <1>4 DEF Checking
<1> QED
  BY <1>6, <1>7, <1>8, <1>10, <1>11 DEF SnapshotOwned

LEMMA ReadDocumentSnapshot ==
  ASSUME SnapshotOwned, Snapshot!ReadDocument
  PROVE  SnapshotOwned'
<1>0. Stamped /\ History /\ Writing /\ Rendering /\ Checking
  BY DEF SnapshotOwned
<1>1. (writer.command = "write" /\ writer.at = 17) \/ (writer.command = "check" /\ writer.at = 1)
  BY <1>0, StepPlaces DEF Snapshot!ReadDocument, AtPlace
<1>2. Snapshot!World' = Snapshot!World
      /\ UNCHANGED <<snapCommits, snapHead, disk, snapChanges>>
  BY DEF Snapshot!ReadDocument, Snapshot!World
<1>3. PICK n, d, g, s : /\ n = writer.at + 1 /\ d = disk["document"]
                        /\ g = [writer.got EXCEPT !["document"] = d] /\ s = snapHead.stamp
  OBVIOUS
<1>4. Keeps({"at", "got", "since"}) /\ writer'.at = n /\ writer'.got = g /\ writer'.since = s
  <2>1. writer' = [writer EXCEPT !.at = n, !.got = g, !.since = s]
    BY <1>3 DEF Snapshot!ReadDocument
  <2>2. writer = [x \in WriterFields |-> writer[x]]
    BY <1>0 DEF Writing
  <2> QED
    BY <2>1, <2>2 DEF Keeps, WriterFields
<1>5. /\ writer'.command = writer.command
      /\ writer'.failed = writer.failed /\ writer'.fresh = writer.fresh
      /\ writer'.returned = writer.returned /\ writer'.steady = writer.steady
  BY <1>4 DEF Keeps, WriterFields
<1>6. \/ writer.command = "write" /\ n = 18
      \/ writer.command = "check" /\ n = 2
  BY <1>1, <1>3
<1>7. Stamped' /\ History' /\ Writing'
  <2>1. Keeps({"at", "head", "rendered", "got", "failed", "fresh", "returned", "note",
                "since", "steady", "outcome"})
    BY <1>4 DEF Keeps
  <2>2. n \in 1..Len(Snapshot!Steps(writer.command))
    BY <1>0, <1>6, EveryLength
  <2>3. /\ writer'.failed \in BOOLEAN /\ writer'.fresh \in BOOLEAN
        /\ writer'.returned \in BOOLEAN /\ writer'.steady \in BOOLEAN
    BY <1>0, <1>5 DEF Writing
  <2>4. /\ writer'.got = [x \in Snapshot!Files |-> writer'.got[x]]
        /\ \A x \in Snapshot!Files : writer'.got[x] = writer.got[x] \/ writer'.got[x] = disk[x]
    <3>1. writer.got = [x \in Snapshot!Files |-> writer.got[x]] /\ "document" \in Snapshot!Files
      BY <1>0 DEF Writing, Snapshot!Files
    <3> QED
      BY <1>3, <1>4, <3>1
  <2> QED
    BY <1>0, <1>2, <1>3, <1>4, <2>1, <2>2, <2>3, <2>4, WritingStep
<1>8. Place' = 1
  BY <1>4, <1>5, <1>6 DEF Place
<1>9. ~writer.returned
  BY <1>0, <1>1 DEF Rendering
<1>10. Rendering'
  BY <1>5, <1>8, <1>9 DEF Rendering
<1>11. Checking'
  <2> SUFFICES ASSUME writer.command = "check"
               PROVE  Checking'
    BY <1>5 DEF Checking
  <2>1. writer'.at = 2 /\ writer.at = 1
    BY <1>1, <1>4, <1>6
  <2>2. ~writer'.steady
    BY <1>0, <1>5, <2>1 DEF Checking
  <2>3. ~Known(20)' /\ ~Known(21)' /\ ~(writer'.at >= 19) /\ ~(writer'.at >= 3)
        /\ writer'.at \notin 17..25
    BY <2>1 DEF Known
  <2> QED
    BY <2>2, <2>3, Zenon DEF Checking
<1> QED
  BY <1>7, <1>10, <1>11 DEF SnapshotOwned

(* What a check does after the rendering leaves what was rendered alone.     *)
LEMMA AfterRendering ==
  ASSUME SnapshotOwned, writer.command = "check", writer.at \in 17..24,
         writer'.at \in 18..25, Snapshot!World' = Snapshot!World,
         Keeps({"at", "note", "steady"}), writer'.steady \in BOOLEAN
  PROVE  Stamped' /\ History' /\ Writing' /\ Rendering' /\ writer.returned
<1>0. Stamped /\ History /\ Writing /\ Rendering /\ Checking
  BY DEF SnapshotOwned
<1>1. UNCHANGED <<snapCommits, snapHead, disk, snapChanges>>
  BY DEF Snapshot!World
<1>2. /\ writer'.command = writer.command /\ writer'.head = writer.head
      /\ writer'.rendered = writer.rendered /\ writer'.got = writer.got
      /\ writer'.failed = writer.failed /\ writer'.fresh = writer.fresh
      /\ writer'.returned = writer.returned /\ writer'.since = writer.since
  BY DEF Keeps, WriterFields
<1>3. Stamped' /\ History' /\ Writing'
  <2>1. Keeps({"at", "head", "rendered", "got", "failed", "fresh", "returned", "note",
                "since", "steady", "outcome"})
    BY DEF Keeps
  <2>2. PICK n \in 18..25 : n = writer'.at
    OBVIOUS
  <2>3. n \in 1..Len(Snapshot!Steps(writer.command))
    BY <1>0, EveryLength
  <2>4. /\ writer'.failed \in BOOLEAN /\ writer'.fresh \in BOOLEAN
        /\ writer'.returned \in BOOLEAN
    BY <1>0, <1>2 DEF Writing
  <2> QED
    BY <1>0, <1>2, <2>1, <2>2, <2>3, <2>4, KeepsWriting, WritingStep
<1>4. writer.returned
  <2>1. writer.at \in 17..25
    OBVIOUS
  <2> QED
    BY <1>0, <2>1 DEF Checking
<1>5. PICK p \in 17..24 : Place' = p
  BY <1>2 DEF Place
<1>6. p \notin 2..15 /\ p \notin 7..15 /\ p \notin 10..15
  BY <1>5
<1>7. /\ writer.head \in DOMAIN snapCommits /\ writer.fresh
      /\ \A f \in Snapshot!SourceFiles :
           writer.got[f].content = snapCommits[writer.head].tree[f]
      /\ writer.rendered = Snapshot!Document(writer.got["s1"].content,
                             writer.got["s2"].content, writer.got["memory"].content)
  BY <1>0, <1>4 DEF Rendering
<1>8. writer'.at \in 17..25
  OBVIOUS
<1>9. Rendering'
  BY <1>1, <1>2, <1>5, <1>6, <1>7, <1>8 DEF Rendering, Snapshot!Document
<1> QED
  BY <1>3, <1>4, <1>9

LEMMA PassCheck ==
  ASSUME SnapshotOwned, writer.command = "check", writer.at \in {17, 19, 20, 21, 22, 23},
         Snapshot!Go, Snapshot!World' = Snapshot!World,
         writer.at \in {19, 22} => Snapshot!IsFinalized(snapHead.commit),
         writer.at \in {20, 23} => Snapshot!Changed = {}
  PROVE  SnapshotOwned'
<1>0. Stamped /\ History /\ Writing /\ Rendering /\ Checking
  BY DEF SnapshotOwned
<1>1. UNCHANGED <<snapCommits, snapHead, disk, snapChanges>>
  BY DEF Snapshot!World
<1>2. Keeps({"at"}) /\ writer'.at = writer.at + 1
  BY <1>0, GoKeeps
<1>3. /\ writer'.command = writer.command /\ writer'.head = writer.head
      /\ writer'.got = writer.got /\ writer'.returned = writer.returned
      /\ writer'.note = writer.note
      /\ writer'.since = writer.since /\ writer'.steady = writer.steady
  BY <1>2 DEF Keeps, WriterFields
<1>4. PICK n, m : n = writer.at /\ m = writer'.at
  OBVIOUS
<1>5. n \in {17, 19, 20, 21, 22, 23} /\ m = n + 1
  BY <1>2, <1>4
<1>6. Stamped' /\ History' /\ Writing' /\ Rendering' /\ writer.returned
  <2>1. Keeps({"at", "note", "steady"})
    BY <1>2 DEF Keeps
  <2>2. writer'.steady \in BOOLEAN
    BY <1>0, <1>3 DEF Writing
  <2>3. writer.at \in 17..24 /\ writer'.at \in 18..25
    BY <1>4, <1>5
  <2> QED
    BY <2>1, <2>2, <2>3, AfterRendering
<1>7. ~writer.steady
  BY <1>0, <1>4, <1>5 DEF Checking
<1>8. snapHead.stamp = writer.since => snapHead.commit = writer.head
  <2>1. writer.at >= 3
    BY <1>4, <1>5
  <2> QED
    BY <1>0, <2>1 DEF Checking
<1>9. m >= 19 =>
        /\ writer.note.head \in DOMAIN snapCommits
        /\ snapHead.stamp = writer.since => snapHead.commit = writer.note.head
  <2>1. m >= 19 => writer.at >= 19
    BY <1>4, <1>5
  <2> QED
    BY <1>0, <2>1 DEF Checking
<1>10. m >= 20 /\ snapHead.stamp = writer.since => Snapshot!IsFinalized(writer.note.head)
  <2> SUFFICES ASSUME m >= 20, snapHead.stamp = writer.since
               PROVE  Snapshot!IsFinalized(writer.note.head)
    OBVIOUS
  <2>1. CASE n \in {19, 22}
    <3>1. snapHead.commit = writer.note.head
      BY <1>5, <1>9
    <3> QED
      BY <1>4, <2>1, <3>1
  <2>2. CASE n \in {20, 21, 23}
    BY <1>0, <1>4, <2>2 DEF Checking, Known
  <2> QED
    BY <1>5, <2>1, <2>2
<1>11. m >= 21 /\ snapHead.stamp = writer.since =>
         \A f \in {"document", "memory"} :
           Unmoved(f) => snapCommits[writer.note.head].tree[f] = writer.got[f].content
  <2> SUFFICES ASSUME m >= 21, snapHead.stamp = writer.since,
                      NEW f \in {"document", "memory"}, Unmoved(f)
               PROVE  snapCommits[writer.note.head].tree[f] = writer.got[f].content
    OBVIOUS
  <2>1. CASE n \in {20, 23}
    <3>1. snapHead.commit = writer.note.head
      BY <1>5, <1>9
    <3>2. f \in Snapshot!Files
      BY DEF Snapshot!Files
    <3>3. disk[f].content = snapCommits[snapHead.commit].tree[f]
      BY <1>4, <2>1, <3>2 DEF Snapshot!Changed, Snapshot!Tree
    <3> QED
      BY <3>1, <3>3 DEF Unmoved
  <2>2. CASE n \in {21, 22}
    BY <1>0, <1>4, <2>2 DEF Checking, Known
  <2> QED
    BY <1>5, <2>1, <2>2
<1>12. Checking'
  <2>1. /\ Known(20)' => m >= 20
        /\ Known(21)' => m >= 21
    BY <1>4, <1>5 DEF Known
  <2>2. Snapshot!IsFinalized(writer.note.head)' = Snapshot!IsFinalized(writer.note.head)
    BY <1>1, <1>3 DEF Snapshot!IsFinalized, Snapshot!IsFinal, Snapshot!Tree
  <2>3. \A f \in {"document", "memory"} : Unmoved(f)' = Unmoved(f)
    BY <1>1, <1>3 DEF Unmoved
  <2> QED
    BY <1>1, <1>3, <1>4, <1>6, <1>7, <1>8, <1>9, <1>10, <1>11, <2>1, <2>2, <2>3 DEF Checking
<1> QED
  BY <1>6, <1>12 DEF SnapshotOwned

LEMMA FinishedWriting ==
  ASSUME SnapshotOwned, writer.command = "write", writer.at = 33, Snapshot!Go,
         Snapshot!World' = Snapshot!World
  PROVE  SnapshotOwned'
<1>0. Stamped /\ History /\ Writing /\ Rendering /\ Checking
  BY DEF SnapshotOwned
<1>1. UNCHANGED <<snapCommits, snapHead, disk, snapChanges>>
  BY DEF Snapshot!World
<1>2. Keeps({"at"}) /\ writer'.at = 34
  BY <1>0, GoKeeps
<1>3. /\ writer'.command = writer.command /\ writer'.head = writer.head
      /\ writer'.rendered = writer.rendered /\ writer'.got = writer.got
      /\ writer'.failed = writer.failed /\ writer'.fresh = writer.fresh
      /\ writer'.returned = writer.returned
      /\ writer'.since = writer.since /\ writer'.steady = writer.steady
  BY <1>2 DEF Keeps, WriterFields
<1>4. Stamped' /\ History' /\ Writing'
  <2>1. Keeps({"at", "head", "rendered", "got", "failed", "fresh", "returned", "note",
                "since", "steady", "outcome"})
    BY <1>2 DEF Keeps
  <2>2. 34 \in 1..Len(Snapshot!Steps(writer.command))
    BY <1>0, EveryLength
  <2>3. /\ writer'.failed \in BOOLEAN /\ writer'.fresh \in BOOLEAN
        /\ writer'.returned \in BOOLEAN /\ writer'.steady \in BOOLEAN
    BY <1>0, <1>3 DEF Writing
  <2> QED
    BY <1>0, <1>2, <1>3, <2>1, <2>2, <2>3, KeepsWriting, WritingStep
<1>5. Place' = 17
  BY <1>2, <1>3 DEF Place
<1>6. Rendering'
  <2>1. /\ 17 \notin 2..15 /\ 17 \notin 7..15 /\ 17 \notin 10..15
        /\ 34 \in {16, 33, 34}
    OBVIOUS
  <2>2. writer.returned =>
          /\ writer.head \in DOMAIN snapCommits /\ writer.fresh
          /\ \A f \in Snapshot!SourceFiles :
               writer.got[f].content = snapCommits[writer.head].tree[f]
          /\ writer.rendered = Snapshot!Document(writer.got["s1"].content,
                                 writer.got["s2"].content, writer.got["memory"].content)
    BY <1>0 DEF Rendering
  <2> QED
    BY <1>1, <1>2, <1>3, <1>5, <2>1, <2>2 DEF Rendering, Snapshot!Document
<1>7. Checking'
  BY <1>3 DEF Checking
<1> QED
  BY <1>4, <1>6, <1>7 DEF SnapshotOwned

LEMMA NoteSnapshot ==
  ASSUME SnapshotOwned, Snapshot!Note
  PROVE  SnapshotOwned'
<1>0. Stamped /\ History /\ Writing /\ Rendering /\ Checking
  BY DEF SnapshotOwned
<1>1. writer.command = "check" /\ writer.at = 18
  BY <1>0, StepPlaces DEF Snapshot!Note, AtPlace
<1>2. Snapshot!World' = Snapshot!World
      /\ UNCHANGED <<snapCommits, snapHead, disk, snapChanges>>
  BY DEF Snapshot!Note, Snapshot!World
<1>3. PICK m, h, t : /\ m = disk["memory"].content /\ h = snapHead.commit
                     /\ t = [memory |-> m, head |-> h]
  OBVIOUS
<1>4. PICK n \in {19, 24} :
        /\ writer' = [writer EXCEPT !.note = t, !.at = n]
        /\ ~Snapshot!Names(m) => n = 24
        /\ Snapshot!Names(m) => n = 19
  <2>1. Len(Snapshot!Steps("check")) - 1 = 24 /\ writer.at + 1 = 19
    BY <1>1, CheckSteps
  <2> QED
    BY <1>3, <2>1 DEF Snapshot!Note
<1>5. Keeps({"at", "note"}) /\ writer'.at = n /\ writer'.note = t
  <2>1. writer = [x \in WriterFields |-> writer[x]]
    BY <1>0 DEF Writing
  <2> QED
    BY <1>4, <2>1 DEF Keeps, WriterFields
<1>6. /\ writer'.command = writer.command /\ writer'.head = writer.head
      /\ writer'.got = writer.got /\ writer'.returned = writer.returned
      /\ writer'.since = writer.since /\ writer'.steady = writer.steady
  BY <1>5 DEF Keeps, WriterFields
<1>7. Stamped' /\ History' /\ Writing' /\ Rendering' /\ writer.returned
  <2>1. Keeps({"at", "note", "steady"})
    BY <1>5 DEF Keeps
  <2>2. writer'.steady \in BOOLEAN
    BY <1>0, <1>6 DEF Writing
  <2> QED
    BY <1>1, <1>2, <1>5, <2>1, <2>2, AfterRendering
<1>8. ~writer.steady /\ (snapHead.stamp = writer.since => snapHead.commit = writer.head)
  BY <1>0, <1>1 DEF Checking
<1>9. writer'.note.head = snapHead.commit /\ writer'.note.memory = m
  BY <1>3, <1>5
<1>10. ~Known(20)' /\ ~Known(21)'
  BY <1>4, <1>5, <1>9 DEF Known, Snapshot!Names
<1>11. snapHead.commit \in DOMAIN snapCommits
  BY <1>0 DEF History
<1>12. Checking'
  BY <1>2, <1>6, <1>7, <1>8, <1>9, <1>10, <1>11 DEF Checking
<1> QED
  BY <1>7, <1>12 DEF SnapshotOwned

(* What a check that passes without a change has found.                      *)
LEMMA LastSnapshot ==
  ASSUME SnapshotOwned, Snapshot!CheckLast
  PROVE  SnapshotOwned'
<1>0. Stamped /\ History /\ Writing /\ Rendering /\ Checking
  BY DEF SnapshotOwned
<1>1. writer.command = "check" /\ writer.at = 24
  BY <1>0, StepPlaces DEF Snapshot!CheckLast, AtPlace
<1>2. Snapshot!World' = Snapshot!World
      /\ UNCHANGED <<snapCommits, snapHead, disk, snapChanges>>
  BY DEF Snapshot!CheckLast, Snapshot!World
<1>3. CASE ~(/\ disk["document"].content = writer.rendered
             /\ disk["memory"].content = writer.note.memory)
  BY <1>2, <1>3, RefuseSnapshot DEF Snapshot!CheckLast
<1>4. CASE /\ disk["document"].content = writer.rendered
           /\ disk["memory"].content = writer.note.memory
  <2>1. PICK b \in BOOLEAN : b = (/\ \A f \in {"document", "memory"} : disk[f] = writer.got[f]
                                  /\ snapHead.stamp = writer.since)
    BY Zenon
  <2>2. writer' = [writer EXCEPT !.at = writer.at + 1, !.steady = b]
    BY <1>4, <2>1, Zenon DEF Snapshot!CheckLast
  <2>3. b => Unmoved("document") /\ Unmoved("memory") /\ snapHead.stamp = writer.since
    BY <2>1 DEF Unmoved
  <2>4. Keeps({"at", "steady"}) /\ writer'.at = 25 /\ writer'.steady = b
    <3>1. writer = [x \in WriterFields |-> writer[x]]
      BY <1>0 DEF Writing
    <3>2. writer' = [writer EXCEPT !.at = 25, !.steady = b]
      BY <1>1, <2>2
    <3> QED
      BY <3>1, <3>2 DEF Keeps, WriterFields
  <2>5. /\ writer'.command = writer.command /\ writer'.head = writer.head
        /\ writer'.got = writer.got /\ writer'.returned = writer.returned
        /\ writer'.note = writer.note /\ writer'.since = writer.since
    BY <2>4 DEF Keeps, WriterFields
  <2>6. Stamped' /\ History' /\ Writing' /\ Rendering' /\ writer.returned
    <3>1. Keeps({"at", "note", "steady"})
      BY <2>4 DEF Keeps
    <3> QED
      BY <1>1, <1>2, <2>4, <3>1, AfterRendering
  <2>7. PICK c, names : c = writer.note.head /\ names = Snapshot!Names(writer.note.memory)
    OBVIOUS
  <2>8. /\ c \in DOMAIN snapCommits
        /\ snapHead.stamp = writer.since => snapHead.commit = c /\ snapHead.commit = writer.head
    BY <1>0, <1>1, <2>7 DEF Checking
  <2>9. Snapshot!Names(writer.note.memory) /\ snapHead.stamp = writer.since =>
          /\ Snapshot!IsFinalized(c)
          /\ \A f \in {"document", "memory"} :
               Unmoved(f) => snapCommits[c].tree[f] = writer.got[f].content
    BY <1>0, <1>1, <2>7 DEF Checking, Known
  <2>10. Snapshot!Names(writer.note.memory) /\ b =>
           snapCommits[c].tree["document"] = Snapshot!Rendered(snapCommits[c].tree)
    <3> SUFFICES ASSUME Snapshot!Names(writer.note.memory), b
                 PROVE  snapCommits[c].tree["document"] = Snapshot!Rendered(snapCommits[c].tree)
      OBVIOUS
    <3>1. writer.head = c
      BY <2>3, <2>8
    <3>2. /\ snapCommits[c].tree["document"] = writer.got["document"].content
          /\ snapCommits[c].tree["memory"] = writer.got["memory"].content
      BY <2>3, <2>9
    <3>3. disk["document"].content = writer.got["document"].content
      BY <2>3 DEF Unmoved
    <3>4. /\ writer.got["s1"].content = snapCommits[c].tree["s1"]
          /\ writer.got["s2"].content = snapCommits[c].tree["s2"]
          /\ writer.rendered = Snapshot!Document(writer.got["s1"].content,
                                 writer.got["s2"].content, writer.got["memory"].content)
      BY <1>0, <2>6, <3>1 DEF Rendering, Snapshot!SourceFiles
    <3> QED
      BY <1>4, <3>2, <3>3, <3>4 DEF Snapshot!Rendered, Snapshot!Document
  <2>11. Checking'
    <3>1. /\ Known(20)' => Snapshot!Names(writer.note.memory)
          /\ Known(21)' => Snapshot!Names(writer.note.memory)
      BY <2>4, <2>5 DEF Known, Snapshot!Names
    <3>2. Snapshot!IsFinalized(writer.note.head)' = Snapshot!IsFinalized(c)
      BY <1>2, <2>5, <2>7 DEF Snapshot!IsFinalized, Snapshot!IsFinal, Snapshot!Tree
    <3>3. \A f \in {"document", "memory"} : Unmoved(f)' = Unmoved(f)
      BY <1>2, <2>5 DEF Unmoved
    <3>4. Snapshot!Names(writer.note.memory)' = Snapshot!Names(writer.note.memory)
      BY <2>5 DEF Snapshot!Names
    <3>5. Snapshot!Rendered(snapCommits[writer.note.head].tree)'
            = Snapshot!Rendered(snapCommits[c].tree)
      BY <1>2, <2>5, <2>7 DEF Snapshot!Rendered
    <3>6. writer'.note.head = c
      BY <2>5, <2>7
    <3>7. b => snapHead.stamp = writer.since
      BY <2>3
    <3> QED
      BY <1>2, <2>4, <2>5, <2>6, <2>8, <2>9, <2>10, <3>1, <3>2, <3>3, <3>4, <3>5, <3>6, <3>7
      DEF Checking
  <2> QED
    BY <2>6, <2>11 DEF SnapshotOwned
<1> QED
  BY <1>3, <1>4

(* The checks after the rendering.                                           *)
LEMMA AfterwardsSnapshot ==
  ASSUME SnapshotOwned,
         \/ Snapshot!ReadDocumentAgain \/ Snapshot!CheckFinalized \/ Snapshot!CheckClean
         \/ Snapshot!CheckNoted \/ Snapshot!Finish
  PROVE  SnapshotOwned'
<1>0. Writing
  BY DEF SnapshotOwned
<1>1. Snapshot!World' = Snapshot!World
  BY DEF Snapshot!ReadDocumentAgain, Snapshot!CheckFinalized, Snapshot!CheckClean,
         Snapshot!CheckNoted, Snapshot!Finish, Snapshot!World
<1>2. CASE Snapshot!ReadDocumentAgain
  <2>1. (writer.command = "write" /\ writer.at = 33) \/ (writer.command = "check" /\ writer.at = 17)
    BY <1>0, <1>2, StepPlaces DEF Snapshot!ReadDocumentAgain, AtPlace
  <2>2. Snapshot!Go \/ Snapshot!Refuse
    BY <1>2 DEF Snapshot!ReadDocumentAgain, Snapshot!Check
  <2> QED
    BY <1>1, <2>1, <2>2, PassCheck, FinishedWriting, RefuseSnapshot
<1>3. CASE Snapshot!CheckFinalized
  <2>1. writer.command = "check" /\ writer.at \in {19, 22}
    BY <1>0, <1>3, StepPlaces DEF Snapshot!CheckFinalized, AtPlace
  <2>2. (Snapshot!Go /\ Snapshot!IsFinalized(snapHead.commit)) \/ Snapshot!Refuse
    BY <1>3 DEF Snapshot!CheckFinalized, Snapshot!Check
  <2> QED
    BY <1>1, <2>1, <2>2, PassCheck, RefuseSnapshot
<1>4. CASE Snapshot!CheckClean
  <2>1. writer.command = "check" /\ writer.at \in {20, 23}
    BY <1>0, <1>4, StepPlaces DEF Snapshot!CheckClean, AtPlace
  <2>2. (Snapshot!Go /\ Snapshot!Changed = {}) \/ Snapshot!Refuse
    BY <1>4 DEF Snapshot!CheckClean, Snapshot!Check
  <2> QED
    BY <1>1, <2>1, <2>2, PassCheck, RefuseSnapshot
<1>5. CASE Snapshot!CheckNoted
  <2>1. writer.command = "check" /\ writer.at = 21
    BY <1>0, <1>5, StepPlaces DEF Snapshot!CheckNoted, AtPlace
  <2>2. Snapshot!Go \/ Snapshot!Refuse
    BY <1>5 DEF Snapshot!CheckNoted, Snapshot!Check
  <2> QED
    BY <1>1, <2>1, <2>2, PassCheck, RefuseSnapshot
<1>6. CASE Snapshot!Finish
  BY <1>1, <1>6, EndSnapshot DEF Snapshot!Finish
<1> QED
  BY <1>2, <1>3, <1>4, <1>5, <1>6

LEMMA InitSnapshot == PartsInit => SnapshotInv
<1> SUFFICES ASSUME PartsInit, part = "snapshot"
             PROVE  SnapshotOwned
  BY DEF SnapshotInv
<1>1. Snapshot!Init
  BY DEF PartsInit
<1>2. PICK t1, t2, t3 :
        /\ snapCommits = <<[tree |-> t1, parents |-> <<>>], [tree |-> t2, parents |-> <<1>>],
                           [tree |-> t3, parents |-> <<2>>]>>
        /\ t1 = [f \in Snapshot!Files |-> t1[f]]
        /\ t2 = [f \in Snapshot!Files |-> t2[f]]
        /\ t3 = [f \in Snapshot!Files |-> t3[f]]
  <2>1. PICK memory, document :
          snapCommits = <<[tree |-> [Snapshot!Base EXCEPT !["s1"] = 1], parents |-> <<>>],
                          [tree |-> Snapshot!Base, parents |-> <<1>>],
                          [tree |-> Snapshot!Final(memory, document), parents |-> <<2>>]>>
    BY <1>1 DEF Snapshot!Init, Snapshot!Evidence
  <2>2. Snapshot!Base = [f \in Snapshot!Files |-> Snapshot!Base[f]]
    BY DEF Snapshot!Base, Snapshot!Files, Snapshot!SourceFiles
  <2>3. PICK base, t1, t3 :
          /\ base = Snapshot!Base /\ t1 = [Snapshot!Base EXCEPT !["s1"] = 1]
          /\ t3 = [Snapshot!Base EXCEPT !["memory"] = memory, !["document"] = document]
    OBVIOUS
  <2>4. t1 = [f \in Snapshot!Files |-> t1[f]] /\ t3 = [f \in Snapshot!Files |-> t3[f]]
        /\ base = [f \in Snapshot!Files |-> base[f]]
    BY <2>2, <2>3
  <2>5. snapCommits = <<[tree |-> t1, parents |-> <<>>], [tree |-> base, parents |-> <<1>>],
                        [tree |-> t3, parents |-> <<2>>]>>
    BY <2>1, <2>3 DEF Snapshot!Final
  <2> QED
    BY <2>4, <2>5
<1>3. PICK S, e1, e2, e3 :
        /\ e1 = [tree |-> t1, parents |-> <<>>]
        /\ e2 = [tree |-> t2, parents |-> <<1>>]
        /\ e3 = [tree |-> t3, parents |-> <<2>>]
        /\ S = {e1, e2, e3}
        /\ snapCommits = <<e1, e2, e3>>
  BY <1>2
<1>4. snapCommits \in Seq(S) /\ DOMAIN snapCommits = {1, 2, 3}
      /\ snapCommits[1] = e1 /\ snapCommits[2] = e2 /\ snapCommits[3] = e3
  BY <1>3
<1>5. PICK h \in {2, 3} : snapHead = [commit |-> h, stamp |-> 0]
  BY <1>1 DEF Snapshot!Init
<1>6. History
  <2>1. \A c \in DOMAIN snapCommits :
          snapCommits[c].tree = [f \in Snapshot!Files |-> snapCommits[c].tree[f]]
    <3>1. e1.tree = t1 /\ e2.tree = t2 /\ e3.tree = t3
      BY <1>3
    <3> QED
      BY <1>2, <1>4, <3>1
  <2>2. e1.parents = <<>> /\ e2.parents = <<1>> /\ e3.parents = <<2>>
    BY <1>3
  <2>3. \A c \in DOMAIN snapCommits :
          \/ snapCommits[c].parents = <<>>
          \/ \E p \in DOMAIN snapCommits :
               snapCommits[c].parents = <<p>> \/ snapCommits[c].parents = <<1, p>>
    BY <1>4, <2>2
  <2>4. {1, 2, snapHead.commit} \subseteq DOMAIN snapCommits
    BY <1>4, <1>5
  <2> QED
    BY <1>4, <2>1, <2>3, <2>4 DEF History
<1>7. /\ disk = [f \in Snapshot!Files |-> disk[f]]
      /\ \A f \in Snapshot!Files : disk[f].stamp = 0
      /\ snapChanges = 0
  BY <1>1 DEF Snapshot!Init
<1>8. Stamped
  BY <1>5, <1>7 DEF Stamped
<1>9. PICK command \in {"write", "check"} : \E g, d, t :
        /\ g = [f \in Snapshot!Files |-> [content |-> Snapshot!Stale, stamp |-> -1]]
        /\ d = Snapshot!Stale /\ t = [memory |-> "none", head |-> 0]
        /\ writer = [command |-> command, at |-> 1, head |-> 0, rendered |-> d,
                     got |-> g, failed |-> FALSE, fresh |-> FALSE, returned |-> FALSE,
                     note |-> t, since |-> 0, steady |-> FALSE, outcome |-> "open"]
  BY <1>1 DEF Snapshot!Init
<1>10. PICK g, d, t :
        /\ g = [f \in Snapshot!Files |-> [content |-> Snapshot!Stale, stamp |-> -1]]
        /\ d = Snapshot!Stale /\ t = [memory |-> "none", head |-> 0]
        /\ writer = [command |-> command, at |-> 1, head |-> 0, rendered |-> d,
                     got |-> g, failed |-> FALSE, fresh |-> FALSE, returned |-> FALSE,
                     note |-> t, since |-> 0, steady |-> FALSE, outcome |-> "open"]
  BY <1>9
<1>11. /\ writer.command = command /\ writer.at = 1 /\ writer.got = g
       /\ writer.failed = FALSE /\ writer.fresh = FALSE /\ writer.returned = FALSE
       /\ writer.since = 0 /\ writer.steady = FALSE
  BY <1>9, <1>10
<1>12. Writing
  <2>1. writer = [x \in WriterFields |-> writer[x]]
    BY <1>10 DEF WriterFields
  <2>2. writer.at \in 1..Len(Snapshot!Steps(writer.command))
    <3>2. CASE command = "write"
      <4>1. Snapshot!Steps(writer.command) = Snapshot!Steps("write")
        BY <1>11, <3>2
      <4>2. Len(Snapshot!Steps("write")) = 34
        BY WriteSteps
      <4>3. writer.at = 1 /\ 1 \in 1..34
        BY <1>11
      <4> QED
        BY <4>1, <4>2, <4>3
    <3>3. CASE command = "check"
      <4>1. Snapshot!Steps(writer.command) = Snapshot!Steps("check")
        BY <1>11, <3>3
      <4> QED
        BY <1>11, <4>1, CheckSteps
    <3> QED
      BY <3>2, <3>3
  <2>3. /\ writer.got = [f \in Snapshot!Files |-> writer.got[f]]
        /\ \A f \in Snapshot!Files : writer.got[f].stamp = -1
    BY <1>10, <1>11
  <2>4. snapHead.stamp = 0 /\ writer.since <= snapHead.stamp /\ writer.since \in Nat
    BY <1>5, <1>11
  <2>5. \A f \in Snapshot!Files :
          /\ writer.got[f].stamp \in Int /\ writer.got[f].stamp <= snapChanges
          /\ disk[f].stamp > writer.got[f].stamp
    BY <1>7, <2>3
  <2>6. writer.command \in {"write", "check"}
    BY <1>11
  <2>7. /\ writer.failed \in BOOLEAN /\ writer.fresh \in BOOLEAN
        /\ writer.returned \in BOOLEAN /\ writer.steady \in BOOLEAN
    BY <1>11
  <2> QED
    BY <2>1, <2>2, <2>3, <2>4, <2>5, <2>6, <2>7 DEF Writing
<1>13. Place \in {0, 1}
  BY <1>11 DEF Place
<1>14. Rendering
  BY <1>11, <1>13 DEF Rendering
<1>15. Checking
  <2>1. ~Known(20) /\ ~Known(21)
    BY <1>11 DEF Known
  <2> QED
    BY <1>11, <2>1 DEF Checking
<1> QED
  BY <1>6, <1>8, <1>12, <1>14, <1>15 DEF SnapshotOwned

LEMMA NextSnapshot == SnapshotInv /\ [PartsNext]_partsVars => SnapshotInv'
<1> SUFFICES ASSUME SnapshotInv, [PartsNext]_partsVars, part' = "snapshot"
             PROVE  SnapshotOwned'
  BY DEF SnapshotInv
<1>1. part = "snapshot" /\ SnapshotOwned
  BY DEF SnapshotInv, PartsNext, CycleStep, SnapshotStep, BindingStep, Ended, partsVars
<1>2. CASE Snapshot!Next
  <2>1. CASE Snapshot!Edit \/ Snapshot!Commit \/ Snapshot!Merge \/ Snapshot!Checkout
    BY <1>1, <2>1, DeveloperSteps, DeveloperSnapshot DEF SnapshotOwned
  <2>2. CASE \E f \in Snapshot!SourceFiles \cup {"memory"} : Snapshot!ReadFile(f)
    BY <1>1, <2>2, ReadFileSnapshot
  <2>3. CASE ~(\/ Snapshot!Edit \/ Snapshot!Commit \/ Snapshot!Merge \/ Snapshot!Checkout
               \/ \E f \in Snapshot!SourceFiles \cup {"memory"} : Snapshot!ReadFile(f))
    BY <1>1, <1>2, <2>3, ReadHeadSnapshot, WorkSnapshot, LooksSnapshot, ReturnSnapshot,
       WriteDocumentSnapshot, ReadDocumentSnapshot, NoteSnapshot, LastSnapshot,
       AfterwardsSnapshot DEF Snapshot!Next
  <2> QED
    BY <2>1, <2>2, <2>3
<1>3. CASE UNCHANGED partsVars
  <2>1. UNCHANGED <<snapCommits, snapHead, disk, snapChanges, writer>>
    BY <1>3 DEF partsVars, snapshotVars
  <2>2. Stamped' /\ History' /\ Writing'
    BY <1>1, <2>1 DEF SnapshotOwned, Stamped, History, Writing
  <2>3. Rendering'
    BY <1>1, <2>1 DEF SnapshotOwned, Rendering, Place, Unmoved
  <2>4. Known(20)' = Known(20) /\ Known(21)' = Known(21)
    BY <2>1 DEF Known
  <2>5. Snapshot!IsFinalized(writer.note.head)' = Snapshot!IsFinalized(writer.note.head)
    BY <2>1 DEF Snapshot!IsFinalized, Snapshot!IsFinal, Snapshot!Tree
  <2>6. \A f \in {"document", "memory"} : Unmoved(f)' = Unmoved(f)
    BY <2>1 DEF Unmoved
  <2>7. Checking'
    BY <1>1, <2>1, <2>4, <2>5, <2>6 DEF SnapshotOwned, Checking, Snapshot!Names, Snapshot!Rendered
  <2> QED
    BY <2>2, <2>3, <2>7 DEF SnapshotOwned
<1> QED
  BY <1>1, <1>2, <1>3 DEF PartsNext, CycleStep, SnapshotStep, BindingStep, Ended

(* A rendered document is what sources and a memory that were in place       *)
(* together give, whatever others write while they are read; and a check     *)
(* that passes has found a finalized commit with a document of its own,      *)
(* unless something was changed and changed back.                            *)
THEOREM DocumentsAreCurrent == PartsSpec => []DocumentIsCurrent
<1>1. SnapshotInv => DocumentIsCurrent
  <2> SUFFICES ASSUME SnapshotOwned
               PROVE  Snapshot!DocumentIsCurrent
    BY DEF SnapshotInv, DocumentIsCurrent
  <2>0. History /\ Rendering /\ Checking
    BY DEF SnapshotOwned
  <2>1. ASSUME writer.returned
        PROVE  /\ writer.fresh
               /\ writer.rendered = Snapshot!Rendered([snapCommits[writer.head].tree EXCEPT
                                      !["memory"] = writer.got["memory"].content])
    <3>1. PICK t, u : /\ t = snapCommits[writer.head].tree
                      /\ u = [t EXCEPT !["memory"] = writer.got["memory"].content]
      OBVIOUS
    <3>2. t = [f \in Snapshot!Files |-> t[f]]
      BY <2>0, <2>1, <3>1 DEF History, Rendering
    <3>3. u["s1"] = t["s1"] /\ u["s2"] = t["s2"] /\ u["memory"] = writer.got["memory"].content
      BY <3>1, <3>2 DEF Snapshot!Files, Snapshot!SourceFiles
    <3>4. /\ writer.fresh
          /\ writer.rendered = Snapshot!Document(t["s1"], t["s2"], writer.got["memory"].content)
      BY <2>0, <2>1, <3>1 DEF Rendering, Snapshot!SourceFiles
    <3>5. writer.rendered = Snapshot!Rendered(u)
      BY <3>3, <3>4 DEF Snapshot!Rendered, Snapshot!Document
    <3> QED
      BY <3>1, <3>4, <3>5
  <2>2. writer.command = "check" /\ writer.steady /\ Snapshot!Names(writer.note.memory) =>
          /\ Snapshot!IsFinalized(writer.note.head)
          /\ snapCommits[writer.note.head].tree["document"]
               = Snapshot!Rendered(snapCommits[writer.note.head].tree)
    BY <2>0 DEF Checking
  <2> QED
    BY <2>1, <2>2 DEF Snapshot!DocumentIsCurrent, Snapshot!Tree
<1> QED
  BY <1>1, InitSnapshot, NextSnapshot, PTL DEF PartsSpec
================================================================================
