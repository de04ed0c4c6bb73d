------------------------- MODULE SignedLedgerProofs -------------------------
(***************************************************************************)
(* Proofs about SignedLedger for every set of writers, readers, origins and *)
(* clock readings.                                                          *)
(***************************************************************************)
EXTENDS SignedLedger, SequenceTheorems, TLAPS

-----------------------------------------------------------------------------
(* Facts about sequences of events. *)

\* The types of a ledger are a sequence as long as the ledger.
LEMMA TypesAreASequence ==
  ASSUME NEW es \in Seq(Event)
  PROVE  /\ Types(es) \in Seq(EventTypes)
         /\ Len(Types(es)) = Len(es)
         /\ \A i \in 1..Len(es) : Types(es)[i] = es[i].type
<1>1. \A i \in 1..Len(es) : es[i] \in Event
  BY ElementOfSeq
<1>2. Types(es) \in [1..Len(es) -> EventTypes]
  BY <1>1 DEF Types, Event
<1>3. Len(es) \in Nat
  OBVIOUS
<1>4. Types(es) \in Seq(EventTypes)
  BY <1>2, <1>3, SeqDef
<1>5. Len(Types(es)) = Len(es)
  BY <1>2, <1>3, <1>4, LenProperties
<1>6. QED
  BY <1>4, <1>5 DEF Types

\* One more event adds its type at the end.
LEMMA TypesAppend ==
  ASSUME NEW es \in Seq(Event), NEW e \in Event
  PROVE  Types(Append(es, e)) = Append(Types(es), e.type)
<1> DEFINE new == Append(es, e)
<1>1. new \in Seq(Event) /\ Len(new) = Len(es) + 1
  OBVIOUS
<1>2. /\ \A i \in 1..Len(es) : new[i] = es[i]
      /\ new[Len(es) + 1] = e
  OBVIOUS
<1>3. e.type \in EventTypes
  BY DEF Event
<1>4. /\ Append(Types(es), e.type) \in Seq(EventTypes)
      /\ Len(Append(Types(es), e.type)) = Len(es) + 1
  BY <1>3, TypesAreASequence
<1>5. Types(new) \in Seq(EventTypes) /\ Len(Types(new)) = Len(es) + 1
  BY <1>1, TypesAreASequence
<1>6. ASSUME NEW i \in 1..Len(es) + 1
      PROVE  Types(new)[i] = Append(Types(es), e.type)[i]
  <2>1. Types(new)[i] = new[i].type
    BY <1>1, TypesAreASequence
  <2>2. CASE i \in 1..Len(es)
    <3>1. i \in 1..Len(Types(es)) /\ Types(es) \in Seq(EventTypes)
      BY <2>2, TypesAreASequence
    <3>2. Append(Types(es), e.type)[i] = Types(es)[i]
      BY <1>3, <3>1
    <3>3. Types(es)[i] = es[i].type
      BY <2>2, TypesAreASequence
    <3>4. new[i] = es[i]
      BY <1>2, <2>2
    <3>5. QED
      BY <2>1, <3>2, <3>3, <3>4
  <2>3. CASE i = Len(es) + 1
    <3>1. Types(es) \in Seq(EventTypes) /\ i = Len(Types(es)) + 1
      BY <2>3, TypesAreASequence
    <3>2. Append(Types(es), e.type)[i] = e.type
      BY <1>3, <3>1
    <3>3. new[i] = e
      BY <1>2, <2>3
    <3>4. QED
      BY <2>1, <3>2, <3>3
  <2>4. i \in 1..Len(es) \/ i = Len(es) + 1
    OBVIOUS
  <2>5. QED
    BY <2>2, <2>3, <2>4, Zenon
<1>7. QED
  BY <1>4, <1>5, <1>6, SeqEqual

\* An event that verifies at the end of a ledger is one the lifecycle admits there.
LEMMA VerifiedIsAdmissible ==
  ASSUME NEW es \in Seq(Event), NEW e \in Event, VerifyEvents(Append(es, e))
  PROVE  Admissible(Types(es), e.type)
<1> DEFINE ts == Types(es)
<1>1. e.type \in EventTypes
  BY DEF Event
<1>2. ts \in Seq(EventTypes)
  BY TypesAreASequence
<1>3. Lifecycle(Append(ts, e.type))
  BY TypesAppend DEF VerifyEvents
<1>4. CASE ts = <<>>
  BY <1>1, <1>2, <1>3, <1>4 DEF Lifecycle, Admissible
<1>5. CASE ts # <<>>
  <2>1. Len(ts) \in Nat \ {0}
    BY <1>2, <1>5, EmptySeq
  <2>2. Append(ts, e.type)[Len(ts) + 1] \in Transitions[Append(ts, e.type)[Len(ts)]]
    BY <1>1, <1>2, <1>3, <2>1 DEF Lifecycle
  <2>3. QED
    BY <1>1, <1>2, <1>5, <2>1, <2>2 DEF Admissible
<1>6. QED
  BY <1>4, <1>5

\* Verification is closed under prefixes.
LEMMA PrefixVerifies ==
  ASSUME NEW es \in Seq(Event), VerifyEvents(es), NEW n \in Int, n <= Len(es)
  PROVE  /\ SubSeq(es, 1, n) \in Seq(Event)
         /\ VerifyEvents(SubSeq(es, 1, n))
<1> DEFINE p == SubSeq(es, 1, n)
<1>1. \A i \in 1..n : es[i] \in Event
  BY ElementOfSeq
<1>2. p \in Seq(Event) /\ Len(p) <= Len(es) /\ \A i \in 1..Len(p) : p[i] = es[i]
  BY <1>1, SubSeqProperties
<1> HIDE DEF p
<1>a. /\ Len(p) \in Nat /\ Len(es) \in Nat
      /\ Len(Types(p)) = Len(p) /\ Len(Types(es)) = Len(es)
  BY <1>2, TypesAreASequence, LenProperties
<1>3. \A i \in 1..Len(p) : Types(p)[i] = Types(es)[i]
  <2>1. \A i \in 1..Len(p) : Types(p)[i] = p[i].type
    BY <1>2, TypesAreASequence
  <2>2. \A i \in 1..Len(es) : Types(es)[i] = es[i].type
    BY TypesAreASequence
  <2>3. QED
    BY <1>2, <1>a, <2>1, <2>2
<1>4. Lifecycle(Types(p))
  <2>1. /\ Len(p) \in Nat /\ Len(es) \in Nat
        /\ Len(Types(p)) = Len(p) /\ Len(Types(es)) = Len(es)
    BY <1>a
  <2>2. Types(p) \in Seq(EventTypes) /\ Types(es) \in Seq(EventTypes)
    BY <1>2, TypesAreASequence
  <2>3. Types(p) # <<>> => Types(p)[1] = "run-started"
    <3> SUFFICES ASSUME Types(p) # <<>> PROVE Types(p)[1] = "run-started"
      OBVIOUS
    <3>1. 1 \in 1..Len(p)
      BY <2>1, <2>2, EmptySeq
    <3>2. Types(es) # <<>>
      BY <3>1, <1>2, <2>1, <2>2, EmptySeq
    <3>3. QED
      BY <1>3, <3>1, <3>2 DEF VerifyEvents, Lifecycle
  <2>4. \A i \in 2..Len(p) : Types(p)[i] \in Transitions[Types(p)[i - 1]]
    BY <1>2, <1>3, <2>1 DEF VerifyEvents, Lifecycle
  <2>5. QED
    BY <2>1, <2>3, <2>4 DEF Lifecycle
<1>5. QED
  BY <1>2, <1>a, <1>4 DEF VerifyEvents, p

\* The empty ledger verifies.
LEMMA EmptyVerifies == VerifyEvents(<<>>)
<1>1. <<>> \in Seq(Event) /\ Len(<<>>) = 0
  OBVIOUS
<1>2. Types(<<>>) = <<>>
  BY <1>1, TypesAreASequence, EmptySeq
<1>3. QED
  BY <1>1, <1>2 DEF VerifyEvents, Lifecycle
-----------------------------------------------------------------------------
(* The inductive invariant.  The lock is what keeps a writer's view true: from *)
(* the moment it parses the file until it writes, nothing else can write, so   *)
(* the event verified at the end of the view is verified at the end of the file. *)

\* A writer is inside append exactly when it holds the lock.
LockHeld == \A w \in Writers : (pc[w] # "idle") <=> (lock = w)

\* What a writer inside append has read and built is still what it will extend.
ViewIsCurrent ==
  \A w \in Writers :
    /\ pc[w] \in {"parsed", "built"} => known[w] = events /\ Parses
    /\ pc[w] = "built" => VerifyEvents(Append(known[w], pending[w]))
    /\ pc[w] \in {"built", "written"} => pending[w] \in Event

LedgerInv == TypeOK /\ LockHeld /\ ViewIsCurrent /\ LedgerVerifies

LEMMA InitLedgerInv == Init => LedgerInv
<1> SUFFICES ASSUME Init PROVE LedgerInv
  OBVIOUS
<1>1. TypeOK
  BY LedgerAssumption DEF Init, TypeOK, LedgerHead, NoHead, Genesis
<1>2. LockHeld
  BY LedgerAssumption DEF Init, LockHeld
<1>3. ViewIsCurrent
  BY DEF Init, ViewIsCurrent
<1>4. LedgerVerifies
  BY EmptyVerifies DEF Init, LedgerVerifies
<1>5. QED
  BY <1>1, <1>2, <1>3, <1>4 DEF LedgerInv

\* Leaving append keeps the invariant whenever the file is left typed and verified.
LEMMA ReleaseKeepsInv ==
  ASSUME LedgerInv, NEW w \in Writers, pc[w] # "idle", Release(w),
         events' \in Seq(Event), head' \in LedgerHead,
         tail' \in {"clean", "fragment", "unterminated"},
         VerifyEvents(events')
  PROVE  LedgerInv'
<1>1. lock = w
  BY DEF LedgerInv, LockHeld
<1>2. \A v \in Writers : v # w => pc[v] = "idle"
  BY <1>1 DEF LedgerInv, LockHeld
<1>3. TypeOK'
  BY DEF LedgerInv, TypeOK, Release, readers
<1>4. LockHeld'
  BY <1>2, LedgerAssumption DEF LedgerInv, TypeOK, LockHeld, Release
<1>5. \A v \in Writers : pc'[v] = "idle"
  BY <1>2 DEF LedgerInv, TypeOK, Release
<1>6. ViewIsCurrent'
  BY <1>5 DEF ViewIsCurrent
<1>7. QED
  BY <1>3, <1>4, <1>6 DEF LedgerInv, LedgerVerifies

\* The line of a built event extends the file it was verified against.
LEMMA WriteExtends ==
  ASSUME LedgerInv, NEW w \in Writers, pc[w] = "built"
  PROVE  /\ pending[w] \in Event
         /\ Append(events, pending[w]) \in Seq(Event)
         /\ VerifyEvents(Append(events, pending[w]))
         /\ SubSeq(events, 1, Len(events) - 1) \in Seq(Event)
         /\ VerifyEvents(SubSeq(events, 1, Len(events) - 1))
<1>1. pending[w] \in Event /\ VerifyEvents(Append(events, pending[w]))
  BY DEF LedgerInv, ViewIsCurrent
<1>2. events \in Seq(Event) /\ VerifyEvents(events)
  BY DEF LedgerInv, TypeOK, LedgerVerifies
<1>3. Len(events) - 1 \in Int /\ Len(events) - 1 <= Len(events)
  BY <1>2
<1>4. QED
  BY <1>1, <1>2, <1>3, PrefixVerifies

LEMMA NextLedgerInv == LedgerInv /\ [Next]_vars => LedgerInv'
<1> SUFFICES ASSUME LedgerInv, [Next]_vars PROVE LedgerInv'
  OBVIOUS
<1>1. ASSUME NEW w \in Writers, Lock(w) PROVE LedgerInv'
  <2>1. TypeOK'
    BY <1>1 DEF Lock, LedgerInv, TypeOK, file, readers
  <2>2. LockHeld'
    BY <1>1, LedgerAssumption DEF Lock, LedgerInv, TypeOK, LockHeld
  <2>3. ViewIsCurrent'
    BY <1>1 DEF Lock, LedgerInv, TypeOK, ViewIsCurrent, file, Parses
  <2>4. QED
    BY <1>1, <2>1, <2>2, <2>3 DEF Lock, LedgerInv, LedgerVerifies, file
<1>2. ASSUME NEW w \in Writers, Parse(w) PROVE LedgerInv'
  <2>1. TypeOK'
    BY <1>2 DEF Parse, LedgerInv, TypeOK, file, readers
  <2>2. LockHeld'
    BY <1>2 DEF Parse, LedgerInv, TypeOK, LockHeld
  <2>3. ViewIsCurrent'
    BY <1>2 DEF Parse, Usable, LedgerInv, TypeOK, ViewIsCurrent, file, Parses
  <2>4. QED
    BY <1>2, <2>1, <2>2, <2>3 DEF Parse, LedgerInv, LedgerVerifies, file
<1>3. ASSUME NEW w \in Writers, NEW t \in EventTypes, NEW now \in Times, Build(w, t, now)
      PROVE  LedgerInv'
  <2>1. NewEvent(w, t, now) \in Event
    <3>1. minted + 1 \in Nat /\ OriginOf[w] \in Origins
      BY LedgerAssumption DEF LedgerInv, TypeOK
    <3>2. LastHash(known[w]) \in Nat
      <4>1. known[w] \in Seq(Event)
        BY DEF LedgerInv, TypeOK
      <4>2. CASE known[w] = <<>>
        BY <4>2 DEF LastHash, Genesis
      <4>3. CASE known[w] # <<>>
        <5>1. known[w][Len(known[w])] \in Event
          BY <4>1, <4>3, EmptySeq, ElementOfSeq
        <5>2. QED
          BY <4>3, <5>1 DEF LastHash, Event
      <4>4. QED
        BY <4>2, <4>3
    <3>3. QED
      BY <3>1, <3>2 DEF NewEvent, Event
  <2>2. TypeOK'
    BY <1>3, <2>1 DEF Build, LedgerInv, TypeOK, file, readers
  <2>3. LockHeld'
    BY <1>3 DEF Build, LedgerInv, TypeOK, LockHeld
  <2>4. ViewIsCurrent'
    BY <1>3, <2>1 DEF Build, LedgerInv, TypeOK, ViewIsCurrent, file, Parses
  <2>5. QED
    BY <1>3, <2>2, <2>3, <2>4 DEF Build, LedgerInv, LedgerVerifies, file
<1>4. ASSUME NEW w \in Writers, WriteLine(w) PROVE LedgerInv'
  <2>1. pc[w] = "built"
    BY <1>4 DEF WriteLine
  <2>2. events' \in Seq(Event) /\ VerifyEvents(events')
    BY <1>4, <2>1, WriteExtends DEF WriteLine
  <2>3. TypeOK'
    BY <1>4, <2>2 DEF WriteLine, LedgerInv, TypeOK, readers
  <2>4. LockHeld'
    BY <1>4 DEF WriteLine, LedgerInv, TypeOK, LockHeld
  <2>5. \A v \in Writers : v # w => pc'[v] = "idle"
    BY <1>4, <2>1 DEF WriteLine, LedgerInv, TypeOK, LockHeld
  <2>6. ViewIsCurrent'
    BY <1>4, <2>1, <2>5, WriteExtends DEF WriteLine, LedgerInv, TypeOK, ViewIsCurrent
  <2>7. QED
    BY <2>2, <2>3, <2>4, <2>6 DEF LedgerInv, LedgerVerifies
<1>5. ASSUME NEW w \in Writers, WriteHead(w) PROVE LedgerInv'
  <2>1. head' \in LedgerHead
    <3>1. /\ Len(known[w]) + 1 \in Nat
          /\ OriginOf[w] \in Origins
          /\ pending[w] \in Event
      BY <1>5, LedgerAssumption DEF WriteHead, LedgerInv, TypeOK, ViewIsCurrent
    <3>2. QED
      BY <1>5, <3>1 DEF WriteHead, LedgerHead, Event
  <2>2. QED
    BY <1>5, <2>1, ReleaseKeepsInv DEF WriteHead, LedgerInv, TypeOK, LedgerVerifies
<1>6. ASSUME NEW w \in Writers, NEW rest \in Remains, CutShort(w, rest) PROVE LedgerInv'
  <2>1. pc[w] = "built"
    BY <1>6 DEF CutShort
  <2>2. events \in Seq(Event) /\ VerifyEvents(events)
    BY DEF LedgerInv, TypeOK, LedgerVerifies
  <2>3. events' \in Seq(Event) /\ VerifyEvents(events')
    BY <1>6, <2>1, <2>2, WriteExtends DEF CutShort
  <2>4. tail' \in {"clean", "fragment", "unterminated"}
    BY <1>6, LedgerAssumption DEF CutShort
  <2>5. QED
    BY <1>6, <2>1, <2>3, <2>4, ReleaseKeepsInv DEF CutShort, LedgerInv, TypeOK
<1>7. ASSUME NEW w \in Writers, pc[w] # "idle", Release(w), UNCHANGED file PROVE LedgerInv'
  BY <1>7, ReleaseKeepsInv DEF LedgerInv, TypeOK, LedgerVerifies, file
<1>8. ASSUME NEW r \in Readers, ReadLedger(r) \/ ReadHead(r) PROVE LedgerInv'
  <2>1. /\ events \in Seq(Event)
        /\ seen \in [Readers -> Seq(Event)] /\ attested \in [Readers -> Seq(Event)]
        /\ <<>> \in Seq(Event)
    BY DEF LedgerInv, TypeOK
  <2>2. /\ seen' \in [Readers -> Seq(Event)] /\ attested' \in [Readers -> Seq(Event)]
        /\ UNCHANGED <<events, tail, head, lock, pc, known, pending, minted>>
    <3>1. CASE ReadLedger(r)
      BY <2>1, <3>1 DEF ReadLedger, file
    <3>2. CASE ReadHead(r)
      BY <2>1, <3>2 DEF ReadHead, file
    <3>3. QED
      BY <1>8, <3>1, <3>2
  <2>3. TypeOK'
    BY <2>2 DEF LedgerInv, TypeOK
  <2>4. QED
    BY <2>2, <2>3 DEF LedgerInv, LockHeld, ViewIsCurrent, LedgerVerifies, Parses
<1>9. CASE UNCHANGED vars
  BY <1>9 DEF vars, file, readers, LedgerInv, TypeOK, LockHeld, ViewIsCurrent, LedgerVerifies, Parses
<1>10. QED
  BY <1>1, <1>2, <1>3, <1>4, <1>5, <1>6, <1>7, <1>8, <1>9
  DEF Next, RefuseLedger, RefuseEvent, Interrupt

LEMMA LedgerInvariant == Spec => []LedgerInv
  BY InitLedgerInv, NextLedgerInv, PTL DEF Spec

\* Type correctness of the ledger, its processes and its files.
THEOREM TypeCorrect == Spec => []TypeOK
  BY LedgerInvariant, PTL DEF LedgerInv

\* Whatever appenders interleave and wherever they are cut short, the events in
\* the file verify, for any kind of remains an interrupted write leaves.
THEOREM LedgerAlwaysVerifies == Spec => []LedgerVerifies
  BY LedgerInvariant, PTL DEF LedgerInv

-----------------------------------------------------------------------------
(* What a reader is told, the append-only record and the abstract promise, for *)
(* interrupted writes that leave a piece of a line.  (When one can leave a      *)
(* whole event without its newline all three fail: see LedgerUnterminated.cfg.) *)

\* The head never covers more than the file holds, the writer between its line and
\* its head has just written the last event, and what readers hold is a prefix.
CommitInv ==
  /\ tail # "unterminated"
  /\ head.count <= Len(events)
  /\ \A w \in Writers : pc[w] = "written" =>
       /\ known[w] \in Seq(Event)
       /\ Len(events) = Len(known[w]) + 1
  /\ \A r \in Readers : /\ Len(seen[r]) <= Len(events)
                         /\ seen[r] = SubSeq(events, 1, Len(seen[r]))
  /\ AttestationIsCommitted

\* A prefix of a sequence is a prefix of everything appended to it.
LEMMA PrefixOfAppend ==
  ASSUME NEW es \in Seq(Event), NEW e \in Event, NEW n \in Nat, n <= Len(es)
  PROVE  SubSeq(Append(es, e), 1, n) = SubSeq(es, 1, n)
<1> DEFINE a == Append(es, e)
<1>1. a \in Seq(Event) /\ Len(a) = Len(es) + 1 /\ \A i \in 1..Len(es) : a[i] = es[i]
  OBVIOUS
<1>2. \A i \in 1..n : a[i] \in Event /\ es[i] \in Event /\ a[i] = es[i]
  BY <1>1, ElementOfSeq
<1> HIDE DEF a
<1>3. /\ SubSeq(a, 1, n) \in Seq(Event)
      /\ Len(SubSeq(a, 1, n)) = n
      /\ \A i \in 1..n : SubSeq(a, 1, n)[i] = a[i]
  BY <1>2, SubSeqProperties
<1>4. /\ SubSeq(es, 1, n) \in Seq(Event)
      /\ Len(SubSeq(es, 1, n)) = n
      /\ \A i \in 1..n : SubSeq(es, 1, n)[i] = es[i]
  BY <1>2, SubSeqProperties
<1>5. SubSeq(a, 1, n) = SubSeq(es, 1, n)
  BY <1>2, <1>3, <1>4, SeqEqual
<1>6. QED
  BY <1>5 DEF a

\* Without unterminated remains the ledger file only ever grows at its end.
FileGrows ==
  \/ UNCHANGED events
  \/ \E w \in Writers : /\ pc[w] = "built"
                        /\ WriteLine(w)
                        /\ events' = Append(events, pending[w])

LEMMA StepGrowsFile ==
  ASSUME Remains \subseteq {"fragment"}, LedgerInv, CommitInv, [Next]_vars
  PROVE  FileGrows /\ tail' # "unterminated"
<1>1. ASSUME NEW w \in Writers, WriteLine(w)
      PROVE  events' = Append(events, pending[w]) /\ UNCHANGED tail
  BY <1>1 DEF WriteLine, CommitInv
<1>2. ASSUME NEW w \in Writers, NEW rest \in Remains, CutShort(w, rest)
      PROVE  UNCHANGED events /\ tail' = "fragment"
  BY <1>2 DEF CutShort, CommitInv
<1>3. CASE UNCHANGED vars
  BY <1>3 DEF vars, FileGrows, CommitInv
<1>4. CASE Next
  BY <1>1, <1>2, <1>4 DEF Next, Lock, Parse, RefuseLedger, Build, RefuseEvent, WriteHead,
     WriteLine, Interrupt, ReadLedger, ReadHead, file, FileGrows, CommitInv
<1>5. QED
  BY <1>3, <1>4

LEMMA InitCommitInv == Init => CommitInv
<1> SUFFICES ASSUME Init PROVE CommitInv
  OBVIOUS
<1>1. SubSeq(<<>>, 1, 0) = <<>> /\ Len(<<>>) = 0
  BY SubSeqEmpty, EmptySeq
<1>2. QED
  BY <1>1 DEF Init, CommitInv, AttestationIsCommitted, NoHead

LEMMA NextCommitInv ==
  ASSUME Remains \subseteq {"fragment"}, LedgerInv, CommitInv, [Next]_vars
  PROVE  CommitInv'
<1>1. FileGrows /\ tail' # "unterminated"
  BY StepGrowsFile
<1>2. /\ events \in Seq(Event) /\ Len(events) \in Nat
      /\ head.count \in Nat
      /\ \A r \in Readers : /\ seen[r] \in Seq(Event) /\ Len(seen[r]) \in Nat
                             /\ attested[r] \in Seq(Event) /\ Len(attested[r]) \in Nat
  BY LenProperties DEF LedgerInv, TypeOK, LedgerHead, NoHead
<1>3. /\ Len(events) <= Len(events')
      /\ \A n \in Nat : n <= Len(events) => SubSeq(events', 1, n) = SubSeq(events, 1, n)
  <2>1. CASE UNCHANGED events
    BY <1>2, <2>1
  <2>2. CASE \E w \in Writers : pc[w] = "built" /\ events' = Append(events, pending[w])
    <3>1. PICK w \in Writers : pc[w] = "built" /\ events' = Append(events, pending[w])
      BY <2>2
    <3>2. pending[w] \in Event
      BY <3>1 DEF LedgerInv, ViewIsCurrent
    <3>3. QED
      BY <1>2, <3>1, <3>2, PrefixOfAppend
  <2>3. QED
    BY <1>1, <2>1, <2>2 DEF FileGrows
<1>4. head.count <= head'.count /\ head'.count <= Len(events')
  <2>1. CASE UNCHANGED head
    BY <1>2, <1>3, <2>1 DEF CommitInv
  <2>2. ASSUME NEW w \in Writers, WriteHead(w)
        PROVE  head.count <= head'.count /\ head'.count <= Len(events')
    BY <1>2, <2>2 DEF WriteHead, CommitInv, LedgerHead
  <2>3. QED
    BY <2>1, <2>2 DEF Next, vars, Lock, Parse, RefuseLedger, Build, RefuseEvent, CutShort,
       WriteLine, Interrupt, ReadLedger, ReadHead, file
<1>5. \A w \in Writers : pc'[w] = "written" =>
        known'[w] \in Seq(Event) /\ Len(events') = Len(known'[w]) + 1
  <2>1. ASSUME NEW w \in Writers, WriteLine(w), NEW v \in Writers, pc'[v] = "written"
        PROVE  known'[v] \in Seq(Event) /\ Len(events') = Len(known'[v]) + 1
    <3>1. v = w
      BY <2>1 DEF WriteLine, LedgerInv, LockHeld, TypeOK
    <3>2. known'[w] = events /\ events' = Append(events, pending[w])
      BY <2>1 DEF WriteLine, LedgerInv, ViewIsCurrent, CommitInv
    <3>3. QED
      BY <1>2, <3>1, <3>2
  <2>2. ASSUME NEW w \in Writers, Lock(w) \/ Parse(w) \/ RefuseLedger(w) \/ WriteHead(w)
                                  \/ Interrupt(w),
               NEW v \in Writers, pc'[v] = "written"
        PROVE  known'[v] \in Seq(Event) /\ Len(events') = Len(known'[v]) + 1
    BY <2>2 DEF Lock, Parse, RefuseLedger, WriteHead, Interrupt, Release, file, LedgerInv, TypeOK,
                CommitInv
  <2>3. ASSUME NEW w \in Writers, NEW t \in EventTypes, NEW now \in Times,
               Build(w, t, now) \/ RefuseEvent(w, t, now),
               NEW v \in Writers, pc'[v] = "written"
        PROVE  known'[v] \in Seq(Event) /\ Len(events') = Len(known'[v]) + 1
    BY <2>3 DEF Build, RefuseEvent, Release, file, LedgerInv, TypeOK, CommitInv
  <2>4. ASSUME NEW w \in Writers, NEW rest \in Remains, CutShort(w, rest),
               NEW v \in Writers, pc'[v] = "written"
        PROVE  known'[v] \in Seq(Event) /\ Len(events') = Len(known'[v]) + 1
    BY <2>4 DEF CutShort, Release, LedgerInv, LockHeld, TypeOK
  <2>5. ASSUME NEW r \in Readers, ReadLedger(r) \/ ReadHead(r),
               NEW v \in Writers, pc'[v] = "written"
        PROVE  known'[v] \in Seq(Event) /\ Len(events') = Len(known'[v]) + 1
    BY <2>5 DEF ReadLedger, ReadHead, file, CommitInv
  <2>6. QED
    BY <2>1, <2>2, <2>3, <2>4, <2>5 DEF Next, vars, CommitInv
<1>6. ASSUME NEW r \in Readers
      PROVE  /\ Len(seen'[r]) <= Len(events')
             /\ seen'[r] = SubSeq(events', 1, Len(seen'[r]))
  <2>1. CASE seen'[r] = seen[r]
    BY <1>2, <1>3, <2>1 DEF CommitInv
  <2>2. CASE seen'[r] = <<>>
    BY <1>2, <1>3, <2>2, SubSeqEmpty, EmptySeq
  <2>3. CASE seen'[r] = events /\ UNCHANGED events
    BY <1>2, <2>3, SubSeqFull
  <2>4. QED
    BY <2>1, <2>2, <2>3 DEF Next, vars, readers, Lock, Parse, RefuseLedger, Build, RefuseEvent,
       CutShort, WriteLine, WriteHead, Interrupt, Release, ReadLedger, ReadHead, file, LedgerInv,
       TypeOK
<1>7. ASSUME NEW r \in Readers
      PROVE  /\ Len(attested'[r]) <= head'.count
             /\ Len(attested'[r]) <= Len(events')
             /\ attested'[r] = SubSeq(events', 1, Len(attested'[r]))
  <2>1. CASE attested'[r] = attested[r]
    <3>1. /\ Len(attested[r]) <= head.count
          /\ Len(attested[r]) <= Len(events)
          /\ attested[r] = SubSeq(events, 1, Len(attested[r]))
      BY DEF CommitInv, AttestationIsCommitted
    <3>2. head'.count \in Nat /\ Len(events') \in Nat
      BY NextLedgerInv, LenProperties DEF LedgerInv, TypeOK, LedgerHead, NoHead
    <3>3. attested[r] = SubSeq(events', 1, Len(attested[r]))
      BY <1>2, <1>3, <3>1
    <3>4. Len(attested[r]) <= head'.count /\ Len(attested[r]) <= Len(events')
      BY <1>2, <1>3, <1>4, <3>1, <3>2
    <3>5. QED
      BY <2>1, <3>3, <3>4
  <2>2. CASE /\ attested'[r] = seen[r] /\ HeadMatches(seen[r])
             /\ UNCHANGED file
    BY <1>2, <2>2 DEF CommitInv, HeadMatches, file
  <2>3. QED
    BY <2>1, <2>2 DEF Next, vars, readers, Lock, Parse, RefuseLedger, Build, RefuseEvent,
       CutShort, WriteLine, WriteHead, Interrupt, Release, ReadLedger, ReadHead, LedgerInv,
       TypeOK
<1>8. QED
  BY <1>1, <1>4, <1>5, <1>6, <1>7 DEF CommitInv, AttestationIsCommitted

LEMMA CommitInvariant ==
  ASSUME Remains \subseteq {"fragment"}
  PROVE  Spec => [](LedgerInv /\ CommitInv)
<1>1. Init => LedgerInv /\ CommitInv
  BY InitLedgerInv, InitCommitInv
<1>2. LedgerInv /\ CommitInv /\ [Next]_vars => (LedgerInv /\ CommitInv)'
  BY NextLedgerInv, NextCommitInv
<1>3. QED
  BY <1>1, <1>2, PTL DEF Spec

\* A returned verification, read in two unlocked steps, is of events still at the
\* beginning of the ledger and covered by the signed head.
THEOREM AttestationsAreCommitted ==
  ASSUME Remains \subseteq {"fragment"}
  PROVE  Spec => []AttestationIsCommitted
<1>1. LedgerInv /\ CommitInv => AttestationIsCommitted
  BY DEF CommitInv
<1>2. QED
  BY <1>1, CommitInvariant, PTL

\* No append ever loses or changes an event the file parses to.
THEOREM LedgerIsAppendOnly ==
  ASSUME Remains \subseteq {"fragment"}
  PROVE  Spec => EventsSurvive
<1>1. LedgerInv /\ CommitInv /\ [Next]_vars =>
        [/\ Len(events) <= Len(events')
         /\ events = SubSeq(events', 1, Len(events))]_vars
  <2> SUFFICES ASSUME LedgerInv, CommitInv, [Next]_vars
               PROVE  /\ Len(events) <= Len(events')
                      /\ events = SubSeq(events', 1, Len(events))
    OBVIOUS
  <2>1. events \in Seq(Event) /\ Len(events) \in Nat /\ SubSeq(events, 1, Len(events)) = events
    BY LenProperties, SubSeqFull DEF LedgerInv, TypeOK
  <2>2. CASE UNCHANGED events
    BY <2>1, <2>2
  <2>3. ASSUME NEW w \in Writers, pc[w] = "built", events' = Append(events, pending[w])
        PROVE  /\ Len(events) <= Len(events')
               /\ events = SubSeq(events', 1, Len(events))
    <3>1. pending[w] \in Event
      BY <2>3 DEF LedgerInv, ViewIsCurrent
    <3>2. QED
      BY <2>1, <2>3, <3>1, PrefixOfAppend
  <2>4. QED
    BY <2>2, <2>3, StepGrowsFile DEF FileGrows
<1>2. QED
  BY <1>1, CommitInvariant, PTL DEF Spec, EventsSurvive

-----------------------------------------------------------------------------
(* SignedLedger implements AttemptLedger: writing a line records its type,     *)
(* replacing the head certifies the whole record, every other step stutters.   *)

LEMMA InitKeepsPromise == Init => Promise!Init
<1>1. Types(<<>>) = <<>>
  BY TypesAreASequence, EmptySeq
<1>2. QED
  BY <1>1 DEF Init, Promise!Init, NoHead

LEMMA StepKeepsPromise ==
  ASSUME Remains \subseteq {"fragment"}, LedgerInv, CommitInv, [Next]_vars
  PROVE  [Promise!Next]_(Promise!vars)
<1>1. ASSUME NEW w \in Writers, WriteLine(w) PROVE Promise!Next
  <2>1. events' = Append(events, pending[w]) /\ UNCHANGED head
    BY <1>1 DEF WriteLine, CommitInv
  <2>2. /\ events \in Seq(Event) /\ pending[w] \in Event
        /\ VerifyEvents(Append(events, pending[w]))
    BY <1>1, WriteExtends DEF WriteLine, LedgerInv, TypeOK
  <2>3. Admissible(Types(events), pending[w].type)
    BY <2>2, VerifiedIsAdmissible
  <2>4. Types(events') = Append(Types(events), pending[w].type)
    BY <2>1, <2>2, TypesAppend
  <2>5. pending[w].type \in EventTypes
    BY <2>2 DEF Event
  <2>6. Promise!Record(pending[w].type)
    BY <2>1, <2>3, <2>4 DEF Promise!Record, Promise!Admissible, Promise!EventTypes,
       Promise!Transitions, Admissible, EventTypes, Transitions
  <2>7. QED
    BY <2>5, <2>6 DEF Promise!Next, Promise!EventTypes, Promise!Transitions, EventTypes,
       Transitions
<1>2. ASSUME NEW w \in Writers, WriteHead(w) PROVE Promise!Next
  <2>1. events \in Seq(Event) /\ UNCHANGED events
    BY <1>2 DEF WriteHead, LedgerInv, TypeOK
  <2>2. head'.count = Len(events)
    BY <1>2 DEF WriteHead, CommitInv
  <2>3. QED
    BY <2>1, <2>2, TypesAreASequence DEF Promise!Next, Promise!Certify
<1>3. CASE UNCHANGED <<events, head>>
  BY <1>3 DEF Promise!vars
<1>4. ASSUME NEW w \in Writers, NEW rest \in Remains, CutShort(w, rest)
      PROVE  UNCHANGED <<events, head>>
  BY <1>4 DEF CutShort, CommitInv
<1>5. QED
  BY <1>1, <1>2, <1>3, <1>4 DEF Next, vars, Lock, Parse, RefuseLedger, Build, RefuseEvent,
     Interrupt, ReadLedger, ReadHead, file

\* Every behaviour of the concurrent, crashing ledger is one of the abstract ledger:
\* the record grows along the lifecycle and only whole records are certified.
THEOREM LedgerKeepsPromise ==
  ASSUME Remains \subseteq {"fragment"}
  PROVE  Spec => KeepsPromise
<1>1. Init => Promise!Init
  BY InitKeepsPromise
<1>2. LedgerInv /\ CommitInv /\ [Next]_vars => [Promise!Next]_(Promise!vars)
  BY StepKeepsPromise
<1>3. QED
  BY <1>1, <1>2, CommitInvariant, PTL DEF Spec, KeepsPromise, Promise!Spec
=============================================================================
