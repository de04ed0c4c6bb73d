----------------------------- MODULE CensusProofs -----------------------------
(***************************************************************************)
(* Proofs about the census: the session for every number of processes,     *)
(* candidates and bodies, every ceiling and every window; the screening    *)
(* for every report an author can write; the split for every number of     *)
(* incidents and every corpus; the folds for every finite set of           *)
(* incidents and every census of them.                                     *)
(***************************************************************************)
EXTENDS CensusParts, FiniteSetTheorems, WellFoundedInduction, TLAPS

-----------------------------------------------------------------------------
(* A set of numbers has a least one.                                         *)
LEMMA HasLeast ==
  ASSUME NEW T \in SUBSET Nat, T # {}
  PROVE  \E t \in T : \A u \in T : t <= u
<1> DEFINE R == OpToRel(<, Nat)
<1>1. IsWellFoundedOn(R, Nat)
  BY NatLessThanWellFounded
<1>2. \A x, y \in Nat : y < x => <<y, x>> \in R
  BY DEF OpToRel
<1> HIDE DEF R
<1>3. PICK t \in T : \A y \in T : ~ (<<y, t>> \in R)
  BY <1>1, WFMin
<1>4. ASSUME NEW u \in T PROVE t <= u
  <2>1. u \in Nat /\ t \in Nat /\ ~(u < t)
    BY <1>2, <1>3
  <2> QED
    BY <2>1
<1> QED
  BY <1>4

(***************************************************************************)
(* Sums.  A sum of numbers is the size of a set that has as many elements  *)
(* for each index as the number there; what adding an index does to a sum  *)
(* follows from what it does to that set.                                  *)
(***************************************************************************)

Shares(f, x) == {<<x, k>> : k \in 1..f[x]}
Heap(f, S) == UNION {Shares(f, x) : x \in S}

LEMMA SharesCount ==
  ASSUME NEW f, NEW x, f[x] \in Nat
  PROVE  IsFiniteSet(Shares(f, x)) /\ Cardinality(Shares(f, x)) = f[x]
<1> DEFINE to == [k \in 1..f[x] |-> <<x, k>>]
<1>1. to \in Bijection(1..f[x], Shares(f, x))
  BY DEF Shares, Bijection, Injection, Surjection, IsInjective
<1>2. IsFiniteSet(1..f[x]) /\ Cardinality(1..f[x]) = f[x]
  BY FS_Interval
<1> QED
  BY <1>1, <1>2, FS_Bijection DEF ExistsBijection

LEMMA HeapFinite ==
  ASSUME NEW S, IsFiniteSet(S), NEW f, \A x \in S : f[x] \in Nat
  PROVE  IsFiniteSet(Heap(f, S))
<1> DEFINE T == {Shares(f, x) : x \in S}
           to == [x \in S |-> Shares(f, x)]
<1>1. to \in Surjection(S, T)
  BY DEF Surjection
<1>2. IsFiniteSet(T)
  BY <1>1, FS_Surjection
<1>3. \A t \in T : IsFiniteSet(t)
  BY SharesCount
<1> QED
  BY <1>2, <1>3, FS_UNION DEF Heap

LEMMA HeapGrows ==
  ASSUME NEW S, IsFiniteSet(S), NEW x, x \notin S, NEW f, \A y \in S \cup {x} : f[y] \in Nat
  PROVE  Cardinality(Heap(f, S \cup {x})) = Cardinality(Heap(f, S)) + f[x]
<1>1. Heap(f, S \cup {x}) = Heap(f, S) \cup Shares(f, x)
  BY DEF Heap
<1>2. Heap(f, S) \cap Shares(f, x) = {}
  BY DEF Heap, Shares
<1>3. IsFiniteSet(Heap(f, S)) /\ Cardinality(Heap(f, S)) \in Nat
  BY HeapFinite, FS_CardinalityType
<1>4. IsFiniteSet(Shares(f, x)) /\ Cardinality(Shares(f, x)) = f[x]
  BY SharesCount
<1>5. Cardinality(Heap(f, S) \cup Shares(f, x))
        = Cardinality(Heap(f, S)) + Cardinality(Shares(f, x))
            - Cardinality(Heap(f, S) \cap Shares(f, x))
  BY <1>3, <1>4, FS_Union
<1>6. Cardinality(Heap(f, S) \cap Shares(f, x)) = 0
  BY <1>2, FS_EmptySet
<1>7. Cardinality(Heap(f, S \cup {x})) = Cardinality(Heap(f, S) \cup Shares(f, x))
  BY <1>1
<1>8. f[x] \in Nat
  OBVIOUS
<1> QED
  BY <1>3, <1>4, <1>5, <1>6, <1>7, <1>8

LEMMA SumIsHeap ==
  ASSUME NEW S, IsFiniteSet(S), NEW f, \A x \in S : f[x] \in Nat
  PROVE  SumFunctionOnSet(f, S) = Cardinality(Heap(f, S))
<1> DEFINE any(s) == CHOOSE x \in s : TRUE
           next(g) == [s \in SUBSET S |-> IF s = {} THEN 0 ELSE f[any(s)] + g[s \ {any(s)}]]
           sum == CHOOSE g : g = next(g)
           size == [s \in SUBSET S |-> Cardinality(Heap(f, s))]
<1>1. SumFunctionOnSet(f, S) = sum[S]
  BY DEF SumFunctionOnSet, FoldFunctionOnSet, MapThenFoldSet
<1>2. ASSUME NEW s \in SUBSET S, s # {}
      PROVE  /\ any(s) \in s /\ s \ {any(s)} \in SUBSET S
             /\ IsFiniteSet(s) /\ IsFiniteSet(s \ {any(s)})
             /\ Cardinality(s) \in Nat /\ Cardinality(s \ {any(s)}) = Cardinality(s) - 1
             /\ size[s] = f[any(s)] + size[s \ {any(s)}]
  <2>1. any(s) \in s /\ s \ {any(s)} \in SUBSET S
    BY <1>2
  <2>2. IsFiniteSet(s) /\ Cardinality(s) \in Nat
    BY FS_Subset, FS_CardinalityType
  <2> HIDE DEF any
  <2>3. IsFiniteSet(s \ {any(s)}) /\ Cardinality(s \ {any(s)}) = Cardinality(s) - 1
    BY <2>1, <2>2, FS_RemoveElement
  <2>4. (s \ {any(s)}) \cup {any(s)} = s
    BY <2>1
  <2>5. Cardinality(Heap(f, s)) = Cardinality(Heap(f, s \ {any(s)})) + f[any(s)]
    <3>1. \A y \in (s \ {any(s)}) \cup {any(s)} : f[y] \in Nat
      BY <2>4
    <3>2. Cardinality(Heap(f, (s \ {any(s)}) \cup {any(s)}))
            = Cardinality(Heap(f, s \ {any(s)})) + f[any(s)]
      BY <2>3, <3>1, HeapGrows
    <3> QED
      BY <2>4, <3>2
  <2>6. Cardinality(Heap(f, s \ {any(s)})) \in Nat /\ f[any(s)] \in Nat
    BY <2>1, <2>3, HeapFinite, FS_CardinalityType
  <2> QED
    BY <2>1, <2>2, <2>3, <2>5, <2>6
<1>3. size[{}] = 0
  <2>1. Heap(f, {}) = {}
    BY DEF Heap
  <2> QED
    BY <2>1, FS_EmptySet
<1> HIDE DEF any
<1>4. size = next(size)
  BY <1>2, <1>3
<1>5. sum = next(sum)
  BY <1>4
<1> HIDE DEF sum, size
<1> DEFINE Bad == {Cardinality(s) : s \in {s \in SUBSET S : sum[s] # size[s]}}
<1>6. sum[S] = size[S]
  <2> SUFFICES ASSUME sum[S] # size[S] PROVE FALSE
    OBVIOUS
  <2>1. Bad \in SUBSET Nat /\ Bad # {}
    BY FS_Subset, FS_CardinalityType
  <2>2. PICK s \in SUBSET S : sum[s] # size[s] /\ \A n \in Bad : Cardinality(s) <= n
    BY <2>1, HasLeast
  <2>3. s # {}
    BY <1>3, <1>5, <2>2
  <2>4. sum[s \ {any(s)}] = size[s \ {any(s)}]
    <3> SUFFICES ASSUME sum[s \ {any(s)}] # size[s \ {any(s)}] PROVE FALSE
      OBVIOUS
    <3>1. s \ {any(s)} \in SUBSET S
      BY <1>2, <2>3
    <3>2. Cardinality(s \ {any(s)}) \in Bad
      BY <3>1
    <3>3. Cardinality(s) <= Cardinality(s \ {any(s)})
      BY <2>2, <3>2
    <3> QED
      BY <1>2, <2>3, <3>3
  <2> QED
    BY <1>2, <1>5, <2>2, <2>3, <2>4
<1> QED
  BY <1>1, <1>6 DEF size

LEMMA SumAdds ==
  ASSUME NEW S, IsFiniteSet(S), NEW x, x \notin S, NEW f, NEW g,
         \A y \in S : f[y] \in Nat /\ g[y] = f[y], g[x] \in Nat
  PROVE  /\ SumFunctionOnSet(f, S) \in Nat
         /\ SumFunctionOnSet(g, S \cup {x}) = SumFunctionOnSet(f, S) + g[x]
<1>1. /\ \A y \in S : f[y] \in Nat
      /\ \A y \in S \cup {x} : g[y] \in Nat
      /\ IsFiniteSet(S \cup {x})
  BY FS_AddElement
<1>2. SumFunctionOnSet(f, S) = Cardinality(Heap(f, S)) /\ Cardinality(Heap(f, S)) \in Nat
  BY <1>1, SumIsHeap, HeapFinite, FS_CardinalityType
<1>3. SumFunctionOnSet(g, S \cup {x}) = Cardinality(Heap(g, S \cup {x}))
  BY <1>1, SumIsHeap
<1>4. Cardinality(Heap(g, S \cup {x})) = Cardinality(Heap(g, S)) + g[x]
  BY <1>1, HeapGrows
<1>5. Heap(g, S) = Heap(f, S)
  BY DEF Heap, Shares
<1> QED
  BY <1>2, <1>3, <1>4, <1>5

LEMMA SumOfNone == ASSUME NEW f PROVE SumFunctionOnSet(f, {}) = 0
<1>1. Heap(f, {}) = {}
  BY DEF Heap
<1>2. IsFiniteSet({}) /\ Cardinality({}) = 0
  BY FS_EmptySet
<1>3. SumFunctionOnSet(f, {}) = Cardinality(Heap(f, {}))
  BY <1>2, SumIsHeap
<1> QED
  BY <1>1, <1>2, <1>3

-----------------------------------------------------------------------------
LEMMA NoBodyType == NoBody \in Bodies
  BY SessionAssumption DEF NoBody

LEMMA NoRequestType == NoRequest \in [candidate : Candidates, at : 0..MaxTime]
  BY SessionAssumption DEF NoRequest

LEMMA NoLeaseType == NoLease \in Lease /\ NoLease.max = Ceiling
  BY SessionAssumption DEF NoLease, IssueLease, Lease, Keys, Registries

\* TypeOK bounds what a session has charged and counted, so it holds only together
\* with two facts about a session at work: its lease grants exactly the ceiling,
\* and a retrieval under way was within the bound when it began.
Working == {"transport", "admit", "blob", "fill", "record"}
Granted == \A p \in Openers : lease[p].max = Ceiling
Bounded == \A p \in Openers : pc[p] \in Working => counted[p] < MaxRetrievals
Typed == TypeOK /\ Granted /\ Bounded

LEMMA InitTyped == Init => Typed
<1> SUFFICES ASSUME Init PROVE Typed
  OBVIOUS
<1> USE SessionAssumption
<1>1. TypeOK
  <2>1. 0 \in 0..Ceiling /\ 0 \in 0..MaxRetrievals /\ 0 \in 0..MaxTime
    OBVIOUS
  <2>2. /\ lease \in [Openers -> Lease] /\ body \in [Openers -> Bodies]
        /\ request \in [Openers -> [candidate : Candidates, at : 0..MaxTime]]
    BY NoBodyType, NoRequestType, NoLeaseType DEF Init
  <2>3. /\ clock \in 0..MaxTime /\ manifest \in Seq(Record \cup {Garbled})
        /\ spent \in [Openers -> 0..Ceiling] /\ counted \in [Openers -> 0..MaxRetrievals]
        /\ failed \in [Openers -> SUBSET Candidates]
    BY <2>1 DEF Init
  <2>4. QED
    BY <2>2, <2>3 DEF Init, TypeOK
<1>2. Granted /\ Bounded
  BY NoLeaseType DEF Init, Granted, Bounded, Working
<1>3. QED
  BY <1>1, <1>2 DEF Typed

LEMMA NextTyped == Typed /\ [Next]_vars => Typed'
<1> SUFFICES ASSUME Typed, [Next]_vars PROVE Typed'
  OBVIOUS
<1> USE SessionAssumption DEF Goto, disk, session, call, history
<1>0. TypeOK /\ Granted /\ Bounded
  BY DEF Typed
<1>1. CASE Tick
  BY <1>0, <1>1 DEF Tick, TypeOK, Granted, Bounded, Typed
<1>2. ASSUME NEW p \in Openers, Open(p) PROVE Typed'
  <2>1. PICK l \in Lease : VerifyLease(l, "committed", clock) /\ lease' = [lease EXCEPT ![p] = l]
    BY <1>2 DEF Open
  <2>2. l.max = Ceiling
    BY <2>1 DEF VerifyLease
  <2>3. Granted'
    BY <1>0, <2>1, <2>2 DEF Granted, TypeOK
  <2>4. TypeOK'
    BY <1>0, <1>2, <2>1 DEF Open, TypeOK
  <2>5. Bounded'
    BY <1>0, <1>2 DEF Open, TypeOK, Bounded, Working
  <2>6. QED
    BY <2>3, <2>4, <2>5 DEF Typed
<1>3. ASSUME NEW p \in Openers, MakeRoot(p) \/ MakeBlobs(p) \/ RefuseBlobs(p) PROVE Typed'
  <2>1. CASE MakeRoot(p)
    BY <1>0, <2>1 DEF MakeRoot, TypeOK, Granted, Bounded, Working, Typed
  <2>2. CASE MakeBlobs(p)
    BY <1>0, <2>2 DEF MakeBlobs, TypeOK, Granted, Bounded, Working, Typed
  <2>3. CASE RefuseBlobs(p)
    BY <1>0, <2>3 DEF RefuseBlobs, TypeOK, Granted, Bounded, Working, Typed
  <2>4. QED
    BY <1>3, <2>1, <2>2, <2>3
<1>4. ASSUME NEW p \in Openers, NEW c \in Candidates, RecordFailedGate(p, c) PROVE Typed'
  BY <1>0, <1>4 DEF RecordFailedGate, TypeOK, Granted, Bounded, Typed
<1>5. ASSUME NEW p \in Openers, NEW c \in Candidates, Retrieve(p, c) PROVE Typed'
  BY <1>0, <1>5 DEF Retrieve, TypeOK, Granted, Bounded, Working, Typed
<1>6. ASSUME NEW p \in Openers, NEW b \in Bodies, Answer(p, b) PROVE Typed'
  BY <1>0, <1>6 DEF Answer, TypeOK, Granted, Bounded, Working, Typed
<1>7. ASSUME NEW p \in Openers, AnswerRefused(p) \/ RefuseBody(p) PROVE Typed'
  BY <1>0, <1>7 DEF AnswerRefused, RefuseBody, TypeOK, Granted, Bounded, Working, Typed
<1>8. ASSUME NEW p \in Openers, Admit(p) PROVE Typed'
  <2>1. body[p] \in Bodies /\ spent[p] \in Nat /\ lease[p].max = Ceiling
    BY <1>0 DEF TypeOK, Granted
  <2>2. spent[p] + Size[body[p]] \in 0..Ceiling
    BY <1>8, <2>1 DEF Admit
  <2>3. QED
    BY <1>0, <1>8, <2>2 DEF Admit, TypeOK, Granted, Bounded, Working, Typed
<1>9. ASSUME NEW p \in Openers, OpenBlob(p) \/ FillBlob(p) \/ FillFails(p) PROVE Typed'
  BY <1>0, <1>9 DEF OpenBlob, FillBlob, FillFails, TypeOK, Granted, Bounded, Working, Typed
<1>10. ASSUME NEW p \in Openers, KeepRecord(p) PROVE Typed'
  <2>1. counted[p] + 1 \in 0..MaxRetrievals
    BY <1>0, <1>10 DEF KeepRecord, TypeOK, Bounded, Working
  <2>2. QED
    BY <1>0, <1>10, <2>1 DEF KeepRecord, TypeOK, Granted, Bounded, Working, Typed
<1>11. ASSUME NEW p \in Openers, AppendLine(p) PROVE Typed'
  <2>1. body[p] \in Bodies /\ request[p] \in [candidate : Candidates, at : 0..MaxTime]
    BY <1>0 DEF TypeOK
  <2>2. Size[body[p]] \in Range(Size)
    BY <2>1 DEF Range
  <2>3. NewRecord(p) \in Record
    BY <2>1, <2>2 DEF NewRecord, Record
  <2>4. manifest' \in Seq(Record \cup {Garbled})
    BY <1>0, <1>11, <2>3 DEF AppendLine, TypeOK
  <2>5. TypeOK'
    BY <1>0, <1>11, <2>4 DEF AppendLine, TypeOK
  <2>6. QED
    BY <1>0, <1>11, <2>5 DEF AppendLine, TypeOK, Granted, Bounded, Working, Typed
<1>12. ASSUME NEW p \in Openers, AppendFails(p) \/ Crash(p) PROVE Typed'
  BY <1>0, <1>12 DEF AppendFails, Crash, TypeOK, Granted, Bounded, Working, Typed
<1>13. CASE UNCHANGED vars
  BY <1>0, <1>13 DEF vars, TypeOK, Granted, Bounded, Typed
<1>14. QED
  BY <1>1, <1>2, <1>3, <1>4, <1>5, <1>6, <1>7, <1>8, <1>9, <1>10, <1>11, <1>12, <1>13 DEF Next

\* What a session has charged never passes the ceiling of the code, whatever lease
\* it was opened with, and every other variable of a session keeps its range.
THEOREM SessionTypeCorrect == Spec => []TypeOK
<1>1. Typed => TypeOK
  BY DEF Typed
<1>2. QED
  BY <1>1, InitTyped, NextTyped, PTL DEF Spec
-----------------------------------------------------------------------------
Served(p) == pc[p] \notin {"closed", "mkdir", "blobs"}

\* The store decides who is served: it opens once, for one process, and a process
\* that dies leaves it open.
OneIsServed ==
  /\ served <= 1 /\ (served = 1 => store = "open")
  /\ \A p \in Openers : Served(p) => served = 1
  /\ \A p, q \in Openers : Served(p) /\ Served(q) => p = q

\* The memory of the process that is served is the memory of the session.
MemoryIsWhole ==
  /\ served = 0 => stopped = {}
  /\ \A p \in Openers : pc[p] \in {"mkdir", "blobs"} => failed[p] = {}
  /\ \A p \in Openers : Served(p) => failed[p] = stopped
  /\ \A p \in Openers : pc[p] \in Working \cup {"line"} => request[p].candidate \notin failed[p]

\* While no write has failed, the process that is served finds no blob cut short
\* but the one it is filling, and has one for the record it is about to make.
BlobsAreWhole ==
  /\ served = 0 => \A b \in Bodies : blobs[b] = "absent"
  /\ \A p \in Openers : pc[p] = "fill" => blobs[body[p]] = "partial"
  /\ \A p \in Openers : pc[p] \in {"record", "line"} => blobs[body[p]] # "absent"
  /\ writeFailed \/ \A p \in Openers, b \in Bodies :
       Served(p) /\ blobs[b] = "partial" => pc[p] = "fill" /\ body[p] = b
  /\ writeFailed \/ \A i \in 1..Len(manifest) :
       manifest[i] # Garbled => blobs[manifest[i].body] = "whole"

\* The inductive invariant.
SessionInv == Typed /\ OneIsServed /\ MemoryIsWhole /\ BlobsAreWhole

LEMMA InitSession == Init => SessionInv
<1> SUFFICES ASSUME Init PROVE SessionInv
  OBVIOUS
<1>1. Typed
  BY InitTyped
<1>2. OneIsServed /\ MemoryIsWhole
  BY DEF Init, OneIsServed, MemoryIsWhole, Served, Working
<1>3. BlobsAreWhole
  BY DEF Init, BlobsAreWhole, Served
<1>4. QED
  BY <1>1, <1>2, <1>3 DEF SessionInv

LEMMA NextOneIsServed == Typed /\ OneIsServed /\ [Next]_vars => OneIsServed'
<1> SUFFICES ASSUME Typed, OneIsServed, [Next]_vars PROVE OneIsServed'
  OBVIOUS
<1> USE DEF Goto, disk, session, call, history, OneIsServed, Served
<1>0. pc \in [Openers -> {"closed", "mkdir", "blobs", "ready", "transport", "admit", "blob",
                          "fill", "record", "line"}] /\ served \in Nat
  BY DEF Typed, TypeOK
<1>1. ASSUME NEW p \in Openers, NEW l, Served(p), pc' = [pc EXCEPT ![p] = l],
             UNCHANGED <<store, served>>
      PROVE  OneIsServed'
  BY <1>0, <1>1
<1>2. ASSUME NEW p \in Openers, Open(p) \/ RefuseBlobs(p) PROVE OneIsServed'
  BY <1>0, <1>2 DEF Open, RefuseBlobs
<1>3. ASSUME NEW p \in Openers, MakeRoot(p) PROVE OneIsServed'
  BY <1>0, <1>3 DEF MakeRoot
<1>4. ASSUME NEW p \in Openers, MakeBlobs(p) PROVE OneIsServed'
  <2>1. served = 0 /\ served' = 1
    BY <1>0, <1>4 DEF MakeBlobs
  <2>2. \A q \in Openers : q # p => pc'[q] \in {"closed", "mkdir", "blobs"}
    BY <1>0, <1>4, <2>1 DEF MakeBlobs
  <2>3. QED
    BY <1>4, <2>1, <2>2 DEF MakeBlobs
<1>5. ASSUME NEW p \in Openers, NEW c \in Candidates, RecordFailedGate(p, c) PROVE OneIsServed'
  BY <1>5 DEF RecordFailedGate
<1>6. ASSUME NEW p \in Openers, NEW c \in Candidates, Retrieve(p, c) PROVE OneIsServed'
  BY <1>1, <1>6 DEF Retrieve
<1>7. ASSUME NEW p \in Openers, NEW b \in Bodies, Answer(p, b) PROVE OneIsServed'
  BY <1>1, <1>7 DEF Answer
<1>8. ASSUME NEW p \in Openers,
             \/ AnswerRefused(p) \/ Admit(p) \/ RefuseBody(p) \/ FillBlob(p) \/ FillFails(p)
             \/ KeepRecord(p) \/ AppendLine(p) \/ AppendFails(p)
      PROVE  OneIsServed'
  BY <1>1, <1>8 DEF AnswerRefused, Admit, RefuseBody, FillBlob, FillFails, KeepRecord,
                    AppendLine, AppendFails
<1>9. ASSUME NEW p \in Openers, OpenBlob(p) PROVE OneIsServed'
  BY <1>1, <1>9 DEF OpenBlob
<1>10. ASSUME NEW p \in Openers, Crash(p) PROVE OneIsServed'
  BY <1>0, <1>10 DEF Crash
<1>11. CASE Tick \/ UNCHANGED vars
  BY <1>11 DEF Tick, vars
<1>12. QED
  BY <1>2, <1>3, <1>4, <1>5, <1>6, <1>7, <1>8, <1>9, <1>10, <1>11 DEF Next

LEMMA NextMemoryIsWhole ==
  Typed /\ OneIsServed /\ MemoryIsWhole /\ [Next]_vars => MemoryIsWhole'
<1> SUFFICES ASSUME Typed, OneIsServed, MemoryIsWhole, [Next]_vars PROVE MemoryIsWhole'
  OBVIOUS
<1> USE DEF Goto, disk, session, call, history, MemoryIsWhole, Served, Working
<1>0. /\ pc \in [Openers -> {"closed", "mkdir", "blobs", "ready", "transport", "admit", "blob",
                             "fill", "record", "line"}]
      /\ failed \in [Openers -> SUBSET Candidates] /\ served \in Nat
      /\ request \in [Openers -> [candidate : Candidates, at : 0..MaxTime]]
  BY DEF Typed, TypeOK
<1>1. ASSUME NEW p \in Openers, NEW l, pc' = [pc EXCEPT ![p] = l],
             \/ l \in {"closed", "ready"}
             \/ pc[p] \in Working \cup {"line"}, Served(p) \/ l = "closed",
             l \notin {"mkdir", "blobs"}, UNCHANGED <<failed, request, served, stopped>>
      PROVE  MemoryIsWhole'
  BY <1>0, <1>1
<1>2. ASSUME NEW p \in Openers, Open(p) PROVE MemoryIsWhole'
  BY <1>0, <1>2 DEF Open
<1>3. ASSUME NEW p \in Openers, MakeRoot(p) \/ RefuseBlobs(p) PROVE MemoryIsWhole'
  BY <1>0, <1>3 DEF MakeRoot, RefuseBlobs
<1>4. ASSUME NEW p \in Openers, MakeBlobs(p) PROVE MemoryIsWhole'
  <2>1. served = 0 /\ served' = 1
    BY <1>0, <1>4 DEF MakeBlobs, OneIsServed
  <2>2. \A q \in Openers : ~Served(q)
    BY <2>1 DEF OneIsServed
  <2>3. stopped' = {} /\ failed' = failed /\ failed[p] = {}
    BY <1>4, <2>1 DEF MakeBlobs
  <2>4. \A q \in Openers : pc'[q] = IF q = p THEN "ready" ELSE pc[q]
    BY <1>0, <1>4 DEF MakeBlobs
  <2>5. QED
    BY <2>1, <2>2, <2>3, <2>4
<1>5. ASSUME NEW p \in Openers, NEW c \in Candidates, RecordFailedGate(p, c) PROVE MemoryIsWhole'
  <2>1. \A q \in Openers : q # p => ~Served(q)
    BY <1>5 DEF RecordFailedGate, OneIsServed
  <2>2. served # 0
    BY <1>5 DEF RecordFailedGate, OneIsServed
  <2>3. /\ \A q \in Openers : failed'[q] = IF q = p THEN failed[p] \cup {c} ELSE failed[q]
        /\ UNCHANGED <<pc, request, served>> /\ stopped' = stopped \cup {c}
    BY <1>0, <1>5 DEF RecordFailedGate
  <2>4. QED
    BY <1>5, <2>1, <2>2, <2>3 DEF RecordFailedGate
<1>6. ASSUME NEW p \in Openers, NEW c \in Candidates, Retrieve(p, c) PROVE MemoryIsWhole'
  BY <1>0, <1>6 DEF Retrieve
<1>7. ASSUME NEW p \in Openers, NEW b \in Bodies, Answer(p, b) PROVE MemoryIsWhole'
  BY <1>1, <1>7 DEF Answer
<1>8. ASSUME NEW p \in Openers,
             \/ AnswerRefused(p) \/ Admit(p) \/ RefuseBody(p) \/ FillBlob(p) \/ FillFails(p)
             \/ KeepRecord(p) \/ AppendLine(p) \/ AppendFails(p) \/ Crash(p)
      PROVE  MemoryIsWhole'
  <2>1. UNCHANGED <<failed, request, served, stopped>>
    BY <1>8 DEF AnswerRefused, Admit, RefuseBody, FillBlob, FillFails, KeepRecord,
                AppendLine, AppendFails, Crash
  <2>2. PICK l \in {"ready", "blob", "record", "line", "closed"} : pc' = [pc EXCEPT ![p] = l]
    BY <1>8 DEF AnswerRefused, Admit, RefuseBody, FillBlob, FillFails, KeepRecord,
                AppendLine, AppendFails, Crash
  <2>3. l = "closed" \/ pc[p] \in Working \cup {"line"}
    BY <1>0, <1>8, <2>2 DEF AnswerRefused, Admit, RefuseBody, FillBlob, FillFails, KeepRecord,
                AppendLine, AppendFails, Crash
  <2>4. QED
    BY <1>1, <2>1, <2>2, <2>3
<1>9. ASSUME NEW p \in Openers, OpenBlob(p) PROVE MemoryIsWhole'
  BY <1>1, <1>9 DEF OpenBlob
<1>10. CASE Tick \/ UNCHANGED vars
  BY <1>10 DEF Tick, vars
<1>11. QED
  BY <1>2, <1>3, <1>4, <1>5, <1>6, <1>7, <1>8, <1>9, <1>10 DEF Next

LEMMA NextBlobsAreWhole ==
  Typed /\ OneIsServed /\ BlobsAreWhole /\ [Next]_vars => BlobsAreWhole'
<1> SUFFICES ASSUME Typed, OneIsServed, BlobsAreWhole, [Next]_vars PROVE BlobsAreWhole'
  OBVIOUS
<1> USE DEF Goto, disk, session, call, history, BlobsAreWhole, Served
<1>0. /\ pc \in [Openers -> {"closed", "mkdir", "blobs", "ready", "transport", "admit", "blob",
                             "fill", "record", "line"}]
      /\ blobs \in [Bodies -> {"absent", "partial", "whole"}] /\ body \in [Openers -> Bodies]
      /\ manifest \in Seq(Record \cup {Garbled})
      /\ \A i \in 1..Len(manifest) : manifest[i] # Garbled => manifest[i].body \in Bodies
      /\ writeFailed \in BOOLEAN
  BY DEF Typed, TypeOK, Record
<1>1. ASSUME NEW p \in Openers, NEW l, pc' = [pc EXCEPT ![p] = l],
             l \in {"closed", "mkdir", "blobs"} \/ (Served(p) /\ pc[p] # "fill"),
             l \notin {"fill", "record"}, l = "line" => pc[p] = "record",
             UNCHANGED <<blobs, manifest, writeFailed, body, served>>
      PROVE  BlobsAreWhole'
  <2>1. \A q \in Openers : pc'[q] = IF q = p THEN l ELSE pc[q]
    BY <1>0, <1>1
  <2>2. writeFailed \/ \A q \in Openers, b \in Bodies :
          Served(q)' /\ blobs[b] = "partial" => pc'[q] = "fill" /\ body[q] = b
    BY <1>1, <2>1
  <2>3. QED
    BY <1>1, <2>1, <2>2
<1>2. ASSUME NEW p \in Openers, Open(p) \/ RefuseBlobs(p) \/ MakeRoot(p) PROVE BlobsAreWhole'
  <2>1. UNCHANGED <<blobs, manifest, writeFailed, body, served>>
    BY <1>2 DEF Open, RefuseBlobs, MakeRoot
  <2>2. PICK l \in {"closed", "mkdir", "blobs"} : pc' = [pc EXCEPT ![p] = l]
    BY <1>2 DEF Open, RefuseBlobs, MakeRoot
  <2>3. QED
    BY <1>1, <2>1, <2>2
<1>3. ASSUME NEW p \in Openers, MakeBlobs(p) PROVE BlobsAreWhole'
  <2>1. \A q \in Openers : pc'[q] = IF q = p THEN "ready" ELSE pc[q]
    BY <1>0, <1>3 DEF MakeBlobs
  <2>2. served = 0 /\ served' = 1
    BY <1>0, <1>3 DEF MakeBlobs, OneIsServed, Typed, TypeOK
  <2>3. \A b \in Bodies : blobs'[b] = "absent"
    BY <1>3, <2>2 DEF MakeBlobs
  <2>4. UNCHANGED <<blobs, manifest, writeFailed, body>>
    BY <1>3 DEF MakeBlobs
  <2>5. QED
    BY <1>0, <2>1, <2>2, <2>3, <2>4
<1>4. ASSUME NEW p \in Openers, NEW c \in Candidates, RecordFailedGate(p, c) PROVE BlobsAreWhole'
  BY <1>4 DEF RecordFailedGate
<1>5. ASSUME NEW p \in Openers, NEW c \in Candidates, Retrieve(p, c) PROVE BlobsAreWhole'
  BY <1>1, <1>5 DEF Retrieve
<1>6. ASSUME NEW p \in Openers, NEW b \in Bodies, Answer(p, b) PROVE BlobsAreWhole'
  <2>1. \A q \in Openers : /\ pc'[q] = IF q = p THEN "admit" ELSE pc[q]
                           /\ body'[q] = IF q = p THEN b ELSE body[q]
    BY <1>0, <1>6 DEF Answer
  <2>2. pc[p] = "transport" /\ UNCHANGED <<blobs, manifest, writeFailed, served>>
    BY <1>6 DEF Answer
  <2>3. QED
    BY <2>1, <2>2
<1>7. ASSUME NEW p \in Openers,
             \/ AnswerRefused(p) \/ Admit(p) \/ RefuseBody(p) \/ KeepRecord(p)
      PROVE  BlobsAreWhole'
  <2>1. UNCHANGED <<blobs, manifest, writeFailed, body, served>>
    BY <1>7 DEF AnswerRefused, Admit, RefuseBody, KeepRecord
  <2>2. PICK l \in {"ready", "blob", "line"} :
          pc' = [pc EXCEPT ![p] = l] /\ (l = "line" => pc[p] = "record")
    BY <1>7 DEF AnswerRefused, Admit, RefuseBody, KeepRecord
  <2>3. Served(p) /\ pc[p] # "fill"
    BY <1>7 DEF AnswerRefused, Admit, RefuseBody, KeepRecord
  <2>4. QED
    BY <1>1, <2>1, <2>2, <2>3
<1>8. ASSUME NEW p \in Openers, Served(p)
      PROVE  /\ \A q \in Openers : q # p => ~Served(q)
             /\ served # 0 /\ body[p] \in Bodies
  BY <1>0, <1>8 DEF OneIsServed
<1>9. ASSUME NEW p \in Openers, OpenBlob(p) PROVE BlobsAreWhole'
  <2>1. /\ pc[p] = "blob"
        /\ UNCHANGED <<manifest, writeFailed, body, served>>
    BY <1>9 DEF OpenBlob
  <2>2. CASE blobs[body[p]] # "absent"
    <3>1. blobs' = blobs /\ \A q \in Openers : pc'[q] = IF q = p THEN "record" ELSE pc[q]
      BY <1>0, <1>9, <2>2 DEF OpenBlob
    <3>2. QED
      BY <2>1, <2>2, <3>1
  <2>3. CASE blobs[body[p]] = "absent"
    <3>1. /\ \A q \in Openers : pc'[q] = IF q = p THEN "fill" ELSE pc[q]
          /\ \A b \in Bodies : blobs'[b] = IF b = body[p] THEN "partial" ELSE blobs[b]
      BY <1>0, <1>9, <2>3 DEF OpenBlob
    <3>2. \A q \in Openers : q # p => pc[q] \in {"closed", "mkdir", "blobs"}
      BY <1>0, <1>8, <2>1
    <3>3. served # 0 /\ body[p] \in Bodies
      BY <1>8, <2>1
    <3>4. QED
      BY <1>0, <2>1, <2>3, <3>1, <3>2, <3>3
  <2>4. QED
    BY <2>2, <2>3
<1>10. ASSUME NEW p \in Openers, FillBlob(p) PROVE BlobsAreWhole'
  <2>1. /\ pc[p] = "fill"
        /\ UNCHANGED <<manifest, writeFailed, body, served>>
        /\ \A q \in Openers : pc'[q] = IF q = p THEN "record" ELSE pc[q]
        /\ \A b \in Bodies : blobs'[b] = IF b = body[p] THEN "whole" ELSE blobs[b]
    BY <1>0, <1>10 DEF FillBlob
  <2>2. \A q \in Openers : q # p => pc[q] \in {"closed", "mkdir", "blobs"}
    BY <1>0, <1>8, <2>1
  <2>3. served # 0 /\ body[p] \in Bodies
    BY <1>8, <2>1
  <2>4. QED
    BY <1>0, <2>1, <2>2, <2>3
<1>11. ASSUME NEW p \in Openers, FillFails(p) \/ AppendFails(p) PROVE BlobsAreWhole'
  <2>1. /\ writeFailed' = TRUE /\ UNCHANGED <<blobs, manifest, body, served>>
        /\ \A q \in Openers : pc'[q] = IF q = p THEN "ready" ELSE pc[q]
    BY <1>0, <1>11 DEF FillFails, AppendFails
  <2>2. QED
    BY <2>1
<1>12. ASSUME NEW p \in Openers, AppendLine(p) PROVE BlobsAreWhole'
  <2>1. /\ pc[p] = "line" /\ UNCHANGED <<blobs, writeFailed, body, served>>
        /\ \A q \in Openers : pc'[q] = IF q = p THEN "ready" ELSE pc[q]
        /\ manifest' = Append(manifest, IF torn THEN Garbled ELSE NewRecord(p))
    BY <1>0, <1>12 DEF AppendLine
  <2>2. writeFailed \/ blobs[body[p]] = "whole"
    BY <1>0, <1>8, <2>1
  <2>3. NewRecord(p).body = body[p]
    BY DEF NewRecord
  <2>4. writeFailed \/ \A i \in 1..Len(manifest') :
          manifest'[i] # Garbled => blobs[manifest'[i].body] = "whole"
    <3>1. Len(manifest') = Len(manifest) + 1 /\ Len(manifest) \in Nat
      BY <1>0, <2>1
    <3>2. \A i \in 1..Len(manifest) : manifest'[i] = manifest[i]
      BY <1>0, <2>1
    <3>3. manifest'[Len(manifest) + 1] \in {Garbled, NewRecord(p)}
      BY <1>0, <2>1
    <3>4. \A i \in 1..Len(manifest') : i \in 1..Len(manifest) \/ i = Len(manifest) + 1
      BY <3>1
    <3>5. QED
      BY <2>2, <2>3, <3>2, <3>3, <3>4
  <2>5. QED
    BY <2>1, <2>4
<1>13. ASSUME NEW p \in Openers, Crash(p) PROVE BlobsAreWhole'
  <2>1. /\ pc[p] # "closed" /\ UNCHANGED <<blobs, manifest, writeFailed, body, served>>
        /\ \A q \in Openers : pc'[q] = IF q = p THEN "closed" ELSE pc[q]
    BY <1>0, <1>13 DEF Crash
  <2>2. QED
    BY <2>1
<1>14. CASE Tick \/ UNCHANGED vars
  BY <1>14 DEF Tick, vars
<1>15. QED
  BY <1>2, <1>3, <1>4, <1>5, <1>6, <1>7, <1>9, <1>10, <1>11, <1>12, <1>13, <1>14 DEF Next

LEMMA NextSession == SessionInv /\ [Next]_vars => SessionInv'
  BY NextTyped, NextOneIsServed, NextMemoryIsWhole, NextBlobsAreWhole DEF SessionInv

\* However many processes present leases for one session, the store is served to one
\* of them, once, and never again after that one died.
THEOREM OneIsEverServed == Spec => []OneLeaseOneSession
<1>1. SessionInv => OneLeaseOneSession
  BY DEF SessionInv, OneIsServed, OneLeaseOneSession
<1>2. QED
  BY <1>1, InitSession, NextSession, PTL DEF Spec

\* Every line of the manifest that is a record names a blob that is whole, wherever
\* processes died, as long as no write raised.
THEOREM RecordsHaveBlobs == Spec => []RecordsAreBacked
<1>1. SessionInv => RecordsAreBacked
  <2> SUFFICES ASSUME SessionInv, ~writeFailed, NEW r \in Records PROVE blobs[r.body] = "whole"
    BY DEF RecordsAreBacked
  <2>1. DOMAIN manifest = 1..Len(manifest)
    BY DEF SessionInv, Typed, TypeOK
  <2>2. PICK i \in 1..Len(manifest) : manifest[i] # Garbled /\ r = manifest[i]
    BY <2>1 DEF Records
  <2>3. QED
    BY <2>2 DEF SessionInv, BlobsAreWhole
<1>2. QED
  BY <1>1, InitSession, NextSession, PTL DEF Spec

LEMMA NextStops ==
  SessionInv /\ [Next]_vars =>
    \A c \in stopped : Len(manifest') > Len(manifest) =>
      Last(manifest') = Garbled \/ Last(manifest').candidate # c
<1> SUFFICES ASSUME SessionInv, [Next]_vars, NEW c \in stopped, Len(manifest') > Len(manifest)
             PROVE  Last(manifest') = Garbled \/ Last(manifest').candidate # c
  OBVIOUS
<1>0. TypeOK /\ MemoryIsWhole
  BY DEF SessionInv, Typed
<1>1. Len(manifest) \in Nat
  BY <1>0 DEF TypeOK
<1>2. ASSUME UNCHANGED manifest PROVE FALSE
  BY <1>1, <1>2
<1>3. PICK p \in Openers : AppendLine(p)
  BY <1>2 DEF Next, Tick, Open, MakeRoot, MakeBlobs, RefuseBlobs, RecordFailedGate, Retrieve,
     Answer, AnswerRefused, Admit, RefuseBody, OpenBlob, FillBlob, FillFails, KeepRecord,
     AppendFails, Crash, disk, vars
<1>4. Last(manifest') = IF torn THEN Garbled ELSE NewRecord(p)
  BY <1>0, <1>3 DEF AppendLine, Last, TypeOK
<1>5. request[p].candidate \notin stopped
  BY <1>0, <1>3 DEF AppendLine, MemoryIsWhole, Served, Working
<1>6. QED
  BY <1>4, <1>5 DEF NewRecord

\* The stop rule lives in the memory of one process, and yet no record of a candidate
\* that was ever stopped is added by any.
THEOREM StopRuleHolds == Spec => StopRule
  BY InitSession, NextSession, NextStops, PTL DEF Spec, StopRule

-----------------------------------------------------------------------------
(* What a session has charged covers what its manifest claims and what lies  *)
(* in its store, and the retrieval under way as soon as it is admitted.      *)
Due(p, places) == IF pc[p] \in places THEN Size[body[p]] ELSE 0

Charged ==
  /\ IsFiniteSet(Stored)
  /\ served = 0 => manifest = <<>> /\ Stored = {}
  /\ Claimed <= Ceiling
  /\ \A p \in Openers : Served(p) =>
       /\ Claimed + Due(p, {"blob", "fill", "record", "line"}) <= spent[p]
       /\ SumFunctionOnSet(Size, Stored) + Due(p, {"blob"}) <= spent[p]
       /\ Len(manifest) + (IF pc[p] = "line" THEN 1 ELSE 0) <= counted[p]

LEMMA SumsAreNumbers ==
  ASSUME Typed, IsFiniteSet(Stored)
  PROVE  Claimed \in Nat /\ SumFunctionOnSet(Size, Stored) \in Nat
<1>1. IsFiniteSet(DOMAIN ClaimedBytes) /\ \A i \in DOMAIN ClaimedBytes : ClaimedBytes[i] \in Nat
  <2>1. manifest \in Seq(Record \cup {Garbled})
    BY DEF Typed, TypeOK
  <2>2. DOMAIN ClaimedBytes = 1..Len(manifest) /\ Len(manifest) \in Nat
    BY <2>1 DEF ClaimedBytes
  <2>3. \A i \in 1..Len(manifest) : manifest[i] # Garbled => manifest[i].bytes \in Nat
    BY <2>1, SessionAssumption DEF Record, Range
  <2> QED
    BY <2>2, <2>3, FS_Interval DEF ClaimedBytes
<1>2. Claimed \in Nat
  BY <1>1, SumIsHeap, HeapFinite, FS_CardinalityType DEF Claimed, SumFunction
<1>3. \A b \in Stored : Size[b] \in Nat
  BY SessionAssumption DEF Stored
<1> QED
  BY <1>2, <1>3, SumIsHeap, HeapFinite, FS_CardinalityType

LEMMA ClaimOfLine ==
  ASSUME Typed, NEW p \in Openers, AppendLine(p)
  PROVE  /\ Claimed \in Nat /\ Claimed' \in Nat /\ Claimed' <= Claimed + Size[body[p]]
         /\ Len(manifest') = Len(manifest) + 1
<1>1. manifest \in Seq(Record \cup {Garbled}) /\ Len(manifest) \in Nat /\ body[p] \in Bodies
  BY DEF Typed, TypeOK
<1>2. PICK r : /\ manifest' = Append(manifest, r)
               /\ r = Garbled \/ r.bytes = Size[body[p]]
  BY DEF AppendLine, NewRecord
<1>3. /\ Len(manifest') = Len(manifest) + 1 /\ manifest'[Len(manifest) + 1] = r
      /\ \A i \in 1..Len(manifest) : manifest'[i] = manifest[i]
      /\ DOMAIN manifest = 1..Len(manifest) /\ DOMAIN manifest' = 1..(Len(manifest) + 1)
  BY <1>1, <1>2
<1>4. \A i \in 1..Len(manifest) : manifest[i] # Garbled => manifest[i].bytes \in Nat
  BY <1>1, SessionAssumption DEF Record, Range
<1>5. Size[body[p]] \in Nat
  BY <1>1, SessionAssumption
<1>6. PICK f, g : f = ClaimedBytes /\ g = ClaimedBytes'
  OBVIOUS
<1>7. /\ DOMAIN f = 1..Len(manifest) /\ DOMAIN g = 1..(Len(manifest) + 1)
      /\ \A i \in 1..Len(manifest) : f[i] \in Nat /\ g[i] = f[i]
      /\ g[Len(manifest) + 1] \in 0..Size[body[p]]
  BY <1>1, <1>2, <1>3, <1>4, <1>5, <1>6 DEF ClaimedBytes
<1>8. \A n \in Nat : 1..(n + 1) = (1..n) \cup {n + 1} /\ n + 1 \notin 1..n
                   /\ IsFiniteSet(1..n)
  BY FS_Interval
<1>9. /\ SumFunctionOnSet(f, 1..Len(manifest)) \in Nat
      /\ SumFunctionOnSet(g, (1..Len(manifest)) \cup {Len(manifest) + 1})
           = SumFunctionOnSet(f, 1..Len(manifest)) + g[Len(manifest) + 1]
  <2>1. PICK n \in Nat : n = Len(manifest)
    BY <1>1
  <2>2. n + 1 \notin 1..n /\ IsFiniteSet(1..n) /\ g[n + 1] \in Nat
        /\ \A i \in 1..n : f[i] \in Nat /\ g[i] = f[i]
    BY <1>5, <1>7, <1>8, <2>1
  <2>3. /\ SumFunctionOnSet(f, 1..n) \in Nat
        /\ SumFunctionOnSet(g, (1..n) \cup {n + 1}) = SumFunctionOnSet(f, 1..n) + g[n + 1]
    <3>1. PICK S, x : S = 1..n /\ x = n + 1
      OBVIOUS
    <3>2. IsFiniteSet(S) /\ x \notin S /\ g[x] \in Nat
          /\ \A i \in S : f[i] \in Nat /\ g[i] = f[i]
      BY <2>2, <3>1
    <3>3. /\ SumFunctionOnSet(f, S) \in Nat
          /\ SumFunctionOnSet(g, S \cup {x}) = SumFunctionOnSet(f, S) + g[x]
      BY <3>2, SumAdds
    <3> QED
      BY <3>1, <3>3
  <2> QED
    BY <2>1, <2>3
<1>10. Claimed = SumFunctionOnSet(f, 1..Len(manifest))
  BY <1>6, <1>7 DEF Claimed, SumFunction
<1>11. Claimed' = SumFunctionOnSet(g, (1..Len(manifest)) \cup {Len(manifest) + 1})
  BY <1>1, <1>6, <1>7, <1>8 DEF Claimed, SumFunction
<1> QED
  BY <1>3, <1>5, <1>7, <1>9, <1>10, <1>11

LEMMA ChargeOfBlob ==
  ASSUME Typed, IsFiniteSet(Stored), NEW p \in Openers, OpenBlob(p), blobs[body[p]] = "absent"
  PROVE  /\ IsFiniteSet(Stored')
         /\ SumFunctionOnSet(Size, Stored)' = SumFunctionOnSet(Size, Stored) + Size[body[p]]
<1>1. body[p] \in Bodies /\ blobs \in [Bodies -> {"absent", "partial", "whole"}]
  BY DEF Typed, TypeOK
<1>2. Stored' = Stored \cup {body[p]} /\ body[p] \notin Stored
  BY <1>1 DEF OpenBlob, Stored
<1>3. \A b \in Stored \cup {body[p]} : Size[b] \in Nat
  BY <1>1, SessionAssumption DEF Stored
<1>4. IsFiniteSet(Stored \cup {body[p]})
  BY FS_AddElement
<1> QED
  BY <1>2, <1>3, <1>4, SumAdds

LEMMA InitCharged == Init => Charged
<1> SUFFICES ASSUME Init PROVE Charged
  OBVIOUS
<1>1. Stored = {} /\ manifest = <<>>
  BY DEF Init, Stored
<1>2. Claimed = 0
  <2>1. DOMAIN ClaimedBytes = {}
    BY <1>1 DEF ClaimedBytes
  <2> QED
    BY <2>1, SumOfNone DEF Claimed, SumFunction
<1>3. \A p \in Openers : ~Served(p)
  BY DEF Init, Served
<1> QED
  BY <1>1, <1>2, <1>3, FS_EmptySet, SessionAssumption DEF Charged

LEMMA NextCharged == Typed /\ OneIsServed /\ BlobsAreWhole /\ Charged /\ [Next]_vars => Charged'
<1> SUFFICES ASSUME Typed, OneIsServed, BlobsAreWhole, Charged, [Next]_vars PROVE Charged'
  OBVIOUS
<1> USE DEF Goto, disk, session, call, history
<1>0. /\ pc \in [Openers -> {"closed", "mkdir", "blobs", "ready", "transport", "admit", "blob",
                             "fill", "record", "line"}]
      /\ spent \in [Openers -> 0..Ceiling] /\ counted \in [Openers -> 0..MaxRetrievals]
      /\ body \in [Openers -> Bodies] /\ \A p \in Openers : lease[p].max = Ceiling
      /\ manifest \in Seq(Record \cup {Garbled}) /\ Len(manifest) \in Nat
      /\ \A b \in Bodies : Size[b] \in Nat
      /\ Ceiling \in Nat /\ MaxRetrievals \in Nat
  BY SessionAssumption DEF Typed, TypeOK, Granted
<1>1. Claimed \in Nat /\ SumFunctionOnSet(Size, Stored) \in Nat
  BY SumsAreNumbers DEF Charged
<1>2. UNCHANGED <<manifest, blobs>> => Claimed' = Claimed /\ Stored' = Stored
  BY DEF Claimed, ClaimedBytes, Stored
\* Who is not served before and after has nothing to answer for.
<1>3. ASSUME NEW p \in Openers, UNCHANGED <<manifest, blobs>>,
             \A q \in Openers : q # p => pc'[q] = pc[q] /\ spent'[q] = spent[q]
                                        /\ counted'[q] = counted[q] /\ body'[q] = body[q],
             served' = 0 => served = 0,
             Served(p)' =>
               /\ Claimed + Due(p, {"blob", "fill", "record", "line"})' <= spent'[p]
               /\ SumFunctionOnSet(Size, Stored) + Due(p, {"blob"})' <= spent'[p]
               /\ Len(manifest) + (IF pc'[p] = "line" THEN 1 ELSE 0) <= counted'[p]
      PROVE  Charged'
  <2>1. \A q \in Openers : q # p =>
          /\ Served(q)' = Served(q)
          /\ Due(q, {"blob", "fill", "record", "line"})' = Due(q, {"blob", "fill", "record", "line"})
          /\ Due(q, {"blob"})' = Due(q, {"blob"})
    BY <1>3 DEF Served, Due
  <2> QED
    BY <1>2, <1>3, <2>1 DEF Charged
<1>4. ASSUME NEW p \in Openers, Open(p) \/ MakeRoot(p) \/ RefuseBlobs(p) \/ Crash(p)
      PROVE  Charged'
  <2>1. ~Served(p)'
    BY <1>0, <1>4 DEF Open, MakeRoot, RefuseBlobs, Crash, Served
  <2>2. /\ UNCHANGED <<manifest, blobs, served, body>>
        /\ \A q \in Openers : q # p => pc'[q] = pc[q] /\ spent'[q] = spent[q]
                                        /\ counted'[q] = counted[q]
    BY <1>0, <1>4 DEF Open, MakeRoot, RefuseBlobs, Crash
  <2> QED
    BY <1>3, <2>1, <2>2
<1>5. ASSUME NEW p \in Openers, MakeBlobs(p) PROVE Charged'
  <2>1. served = 0 /\ served' = 1
    BY <1>5 DEF MakeBlobs, OneIsServed, Typed, TypeOK
  <2>2. manifest = <<>> /\ Stored = {} /\ Claimed = 0
    <3>1. manifest = <<>> /\ Stored = {}
      BY <2>1 DEF Charged
    <3>2. DOMAIN ClaimedBytes = {}
      BY <3>1 DEF ClaimedBytes
    <3> QED
      BY <3>1, <3>2, SumOfNone DEF Claimed, SumFunction
  <2>3. SumFunctionOnSet(Size, Stored) = 0 /\ Len(manifest) = 0
    BY <2>2, SumOfNone
  <2>4. /\ UNCHANGED <<manifest, blobs, spent, counted, body>>
        /\ pc'[p] = "ready" /\ \A q \in Openers : q # p => pc'[q] = pc[q]
    BY <1>0, <1>5 DEF MakeBlobs
  <2>5. Due(p, {"blob", "fill", "record", "line"})' = 0 /\ Due(p, {"blob"})' = 0
    BY <2>4 DEF Due
  <2> QED
    BY <1>0, <1>3, <2>1, <2>2, <2>3, <2>4, <2>5
\* The served process goes on, and charges, has or owes no more than before.
<1>6. ASSUME NEW p \in Openers, Served(p), UNCHANGED <<manifest, blobs, served>>,
             NEW l, pc' = [pc EXCEPT ![p] = l], l \notin {"blob", "line"},
             l \in {"fill", "record"} => pc[p] \in {"blob", "fill", "record"} /\ body' = body,
             \A q \in Openers : q # p => body'[q] = body[q],
             UNCHANGED <<spent, counted>>
      PROVE  Charged'
  <2>1. /\ Claimed + Due(p, {"blob", "fill", "record", "line"}) <= spent[p]
        /\ SumFunctionOnSet(Size, Stored) + Due(p, {"blob"}) <= spent[p]
        /\ Len(manifest) + (IF pc[p] = "line" THEN 1 ELSE 0) <= counted[p]
    BY <1>6 DEF Charged
  <2>2. pc'[p] = l /\ \A q \in Openers : q # p => pc'[q] = pc[q]
    BY <1>0, <1>6
  <2>3. Size[body[p]] \in Nat /\ spent[p] \in Nat /\ counted[p] \in Nat
    BY <1>0
  <2>4. Due(p, {"blob"})' = 0 /\ Due(p, {"blob"}) \in Nat
    BY <1>6, <2>2, <2>3 DEF Due
  <2>5. Due(p, {"blob", "fill", "record", "line"})' <= Due(p, {"blob", "fill", "record", "line"})
        /\ Due(p, {"blob", "fill", "record", "line"})' \in Nat
        /\ Due(p, {"blob", "fill", "record", "line"}) \in Nat
    BY <1>6, <2>2, <2>3 DEF Due
  <2>6. Claimed + Due(p, {"blob", "fill", "record", "line"})' <= spent[p]
    BY <1>1, <2>1, <2>3, <2>5
  <2>7. SumFunctionOnSet(Size, Stored) + Due(p, {"blob"})' <= spent[p]
    BY <1>1, <2>1, <2>3, <2>4
  <2>8. Len(manifest) + (IF pc'[p] = "line" THEN 1 ELSE 0) <= counted[p]
    BY <1>0, <1>6, <2>1, <2>2, <2>3
  <2> QED
    BY <1>3, <1>6, <2>2, <2>6, <2>7, <2>8
<1>7. ASSUME NEW p \in Openers, NEW c \in Candidates, Retrieve(p, c) PROVE Charged'
  BY <1>6, <1>7 DEF Retrieve, Served
<1>8. ASSUME NEW p \in Openers, NEW b \in Bodies, Answer(p, b) PROVE Charged'
  BY <1>0, <1>6, <1>8 DEF Answer, Served
<1>9. ASSUME NEW p \in Openers, AnswerRefused(p) \/ RefuseBody(p) \/ FillFails(p) \/ AppendFails(p)
      PROVE  Charged'
  BY <1>6, <1>9 DEF AnswerRefused, RefuseBody, FillFails, AppendFails, Served
<1>10. ASSUME NEW p \in Openers, Admit(p) PROVE Charged'
  <2>1. Served(p) /\ pc[p] = "admit" /\ UNCHANGED <<manifest, blobs, served, counted, body>>
        /\ pc'[p] = "blob" /\ spent'[p] = spent[p] + Size[body[p]]
        /\ \A q \in Openers : q # p => pc'[q] = pc[q] /\ spent'[q] = spent[q]
    BY <1>0, <1>10 DEF Admit, Served
  <2>2. Claimed <= spent[p] /\ SumFunctionOnSet(Size, Stored) <= spent[p]
        /\ Len(manifest) <= counted[p]
    <3>1. Due(p, {"blob", "fill", "record", "line"}) = 0 /\ Due(p, {"blob"}) = 0
      BY <2>1 DEF Due
    <3> QED
      BY <1>0, <1>1, <2>1, <3>1 DEF Charged
  <2>3. Due(p, {"blob", "fill", "record", "line"})' = Size[body[p]] /\ Due(p, {"blob"})' = Size[body[p]]
    BY <2>1 DEF Due
  <2>4. Size[body[p]] \in Nat /\ spent[p] \in Nat /\ counted[p] \in Nat
    BY <1>0
  <2>5. /\ Claimed + Due(p, {"blob", "fill", "record", "line"})' <= spent'[p]
        /\ SumFunctionOnSet(Size, Stored) + Due(p, {"blob"})' <= spent'[p]
    BY <1>1, <2>1, <2>2, <2>3, <2>4
  <2>6. Len(manifest) + (IF pc'[p] = "line" THEN 1 ELSE 0) <= counted'[p]
    BY <1>0, <2>1, <2>2, <2>4
  <2> QED
    BY <1>3, <2>1, <2>5, <2>6
<1>11. ASSUME NEW p \in Openers, FillBlob(p) PROVE Charged'
  <2>1. blobs[body[p]] # "absent" /\ pc[p] = "fill" /\ Served(p)
    BY <1>11 DEF FillBlob, BlobsAreWhole, Served
  <2>2. Stored' = Stored
    BY <1>0, <1>11, <2>1 DEF FillBlob, Stored
  <2>3. Claimed' = Claimed /\ manifest' = manifest
    BY <1>11 DEF FillBlob, Claimed, ClaimedBytes
  <2>4. /\ UNCHANGED <<served, spent, counted, body>>
        /\ \A q \in Openers : pc'[q] = IF q = p THEN "record" ELSE pc[q]
    BY <1>0, <1>11 DEF FillBlob
  <2>5. ASSUME NEW q \in Openers
        PROVE  /\ Served(q)' = Served(q)
               /\ Due(q, {"blob", "fill", "record", "line"})' = Due(q, {"blob", "fill", "record", "line"})
               /\ Due(q, {"blob"})' = Due(q, {"blob"})
               /\ pc'[q] = "line" <=> pc[q] = "line"
    BY <2>1, <2>4 DEF Served, Due
  <2> QED
    BY <2>2, <2>3, <2>4, <2>5 DEF Charged
\* A blob that is new was charged when it was admitted.
<1>12. ASSUME NEW p \in Openers, OpenBlob(p) PROVE Charged'
  <2>1. CASE blobs[body[p]] # "absent"
    <3>1. /\ Served(p) /\ pc[p] = "blob" /\ UNCHANGED <<manifest, blobs, served, spent, counted, body>>
          /\ pc' = [pc EXCEPT ![p] = "record"]
      BY <1>12, <2>1 DEF OpenBlob, Served
    <3> QED
      BY <1>6, <3>1
  <2>2. CASE blobs[body[p]] = "absent"
    <3>1. IsFiniteSet(Stored)
      BY DEF Charged
    <3>2. /\ IsFiniteSet(Stored')
          /\ SumFunctionOnSet(Size, Stored)' = SumFunctionOnSet(Size, Stored) + Size[body[p]]
      BY <1>12, <2>2, <3>1, ChargeOfBlob
    <3>3. Claimed' = Claimed /\ manifest' = manifest
      BY <1>12 DEF OpenBlob, Claimed, ClaimedBytes
    <3>4. /\ UNCHANGED <<served, spent, counted, body>> /\ pc[p] = "blob" /\ Served(p)
          /\ \A q \in Openers : pc'[q] = IF q = p THEN "fill" ELSE pc[q]
      BY <1>0, <1>12, <2>2 DEF OpenBlob, Served
    <3>5. \A q \in Openers : Served(q)' => q = p
      BY <3>4 DEF Served, OneIsServed
    <3>6. served' # 0
      BY <3>4 DEF OneIsServed
    <3>7. /\ Due(p, {"blob", "fill", "record", "line"}) = Size[body[p]]
          /\ Due(p, {"blob", "fill", "record", "line"})' = Size[body[p]]
          /\ Due(p, {"blob"}) = Size[body[p]] /\ Due(p, {"blob"})' = 0
      BY <3>4 DEF Due
    <3>8. /\ Claimed + Size[body[p]] <= spent[p]
          /\ SumFunctionOnSet(Size, Stored) + Size[body[p]] <= spent[p]
          /\ Len(manifest) <= counted[p]
      BY <1>0, <3>4, <3>7 DEF Charged
    <3>9. SumFunctionOnSet(Size, Stored)' + Due(p, {"blob"})' <= spent'[p]
      BY <1>0, <1>1, <3>2, <3>4, <3>7, <3>8
    <3>10. Len(manifest) + (IF pc'[p] = "line" THEN 1 ELSE 0) <= counted'[p]
      BY <1>0, <3>4, <3>8
    <3>11. Claimed <= Ceiling
      BY DEF Charged
    <3> QED
      BY <3>2, <3>3, <3>4, <3>5, <3>6, <3>7, <3>8, <3>9, <3>10, <3>11 DEF Charged
  <2> QED
    BY <2>1, <2>2
<1>13. ASSUME NEW p \in Openers, KeepRecord(p) PROVE Charged'
  <2>1. Served(p) /\ pc[p] = "record" /\ UNCHANGED <<manifest, blobs, served, spent, body>>
        /\ pc'[p] = "line" /\ counted'[p] = counted[p] + 1
        /\ \A q \in Openers : q # p => pc'[q] = pc[q] /\ counted'[q] = counted[q]
    BY <1>0, <1>13 DEF KeepRecord, Served
  <2>2. /\ Due(p, {"blob", "fill", "record", "line"})' = Due(p, {"blob", "fill", "record", "line"})
        /\ Due(p, {"blob"})' = Due(p, {"blob"})
    BY <2>1 DEF Due
  <2>3. Len(manifest) + 1 <= counted'[p]
    BY <1>0, <2>1 DEF Charged
  <2> QED
    BY <1>3, <2>1, <2>2, <2>3 DEF Charged
\* The line that is written was charged too, and counted.
<1>14. ASSUME NEW p \in Openers, AppendLine(p) PROVE Charged'
  <2>1. /\ Claimed' \in Nat /\ Claimed' <= Claimed + Size[body[p]]
        /\ Len(manifest') = Len(manifest) + 1
    BY <1>14, ClaimOfLine
  <2>2. /\ Served(p) /\ pc[p] = "line" /\ UNCHANGED <<blobs, served, spent, counted, body>>
        /\ \A q \in Openers : pc'[q] = IF q = p THEN "ready" ELSE pc[q]
    BY <1>0, <1>14 DEF AppendLine, Served
  <2>3. Stored' = Stored
    BY <2>2 DEF Stored
  <2>4. /\ Due(p, {"blob", "fill", "record", "line"}) = Size[body[p]] /\ Due(p, {"blob"}) = 0
        /\ Due(p, {"blob", "fill", "record", "line"})' = 0 /\ Due(p, {"blob"})' = 0
    BY <2>2 DEF Due
  <2>5. /\ Claimed + Size[body[p]] <= spent[p]
        /\ SumFunctionOnSet(Size, Stored) <= spent[p]
        /\ Len(manifest) + 1 <= counted[p]
    BY <1>0, <1>1, <2>2, <2>4 DEF Charged
  <2>6. spent[p] <= Ceiling /\ spent[p] \in Nat /\ Size[body[p]] \in Nat
    BY <1>0
  <2>7. Claimed' <= spent[p] /\ Claimed' <= Ceiling
    BY <1>0, <1>1, <2>1, <2>5, <2>6
  <2>8. \A q \in Openers : Served(q)' => q = p
    BY <2>2 DEF Served, OneIsServed
  <2>9. served' # 0 /\ IsFiniteSet(Stored)
    BY <2>2 DEF OneIsServed, Charged
  <2>10. /\ Claimed' + Due(p, {"blob", "fill", "record", "line"})' <= spent'[p]
         /\ SumFunctionOnSet(Size, Stored)' + Due(p, {"blob"})' <= spent'[p]
         /\ Len(manifest') + (IF pc'[p] = "line" THEN 1 ELSE 0) <= counted'[p]
    BY <1>0, <1>1, <2>1, <2>2, <2>3, <2>4, <2>5, <2>7
  <2> QED
    BY <2>3, <2>7, <2>8, <2>9, <2>10 DEF Charged
<1>15. CASE Tick \/ (\E p \in Openers, c \in Candidates : RecordFailedGate(p, c)) \/ UNCHANGED vars
  <2>1. UNCHANGED <<manifest, blobs, served, pc, spent, counted, body>>
    BY <1>15 DEF Tick, RecordFailedGate, vars
  <2>2. \A q \in Openers :
          /\ Served(q)' = Served(q)
          /\ Due(q, {"blob", "fill", "record", "line"})' = Due(q, {"blob", "fill", "record", "line"})
          /\ Due(q, {"blob"})' = Due(q, {"blob"})
    BY <2>1 DEF Served, Due
  <2> QED
    BY <1>2, <2>1, <2>2 DEF Charged
<1> QED
  BY <1>4, <1>5, <1>7, <1>8, <1>9, <1>10, <1>11, <1>12, <1>13, <1>14, <1>15 DEF Next

\* The length of a body is known once it has arrived, and the ceiling is compared with what
\* the process has charged, of which the manifest and the store know nothing: that they
\* never pass what the process reports, nor the process the ceiling, for any sizes.
THEOREM CeilingHolds == Spec => []CeilingIsKept
<1>1. SessionInv /\ Charged => CeilingIsKept
  <2> SUFFICES ASSUME SessionInv, Charged PROVE CeilingIsKept
    OBVIOUS
  <2>1. Typed /\ Claimed \in Nat /\ SumFunctionOnSet(Size, Stored) \in Nat
    BY SumsAreNumbers DEF SessionInv, Charged
  <2>2. ASSUME NEW p \in Openers, Served(p)
        PROVE  /\ Claimed <= spent[p] /\ spent[p] <= Ceiling /\ Len(manifest) <= counted[p]
               /\ SumFunctionOnSet(Size, Stored) <= spent[p]
    <3>1. /\ Claimed + Due(p, {"blob", "fill", "record", "line"}) <= spent[p]
          /\ SumFunctionOnSet(Size, Stored) + Due(p, {"blob"}) <= spent[p]
          /\ Len(manifest) + (IF pc[p] = "line" THEN 1 ELSE 0) <= counted[p]
      BY <2>2 DEF Charged
    <3>2. /\ spent[p] \in 0..Ceiling /\ counted[p] \in 0..MaxRetrievals
          /\ Len(manifest) \in Nat /\ Size[body[p]] \in Nat
          /\ Ceiling \in Nat /\ MaxRetrievals \in Nat
      BY <2>1, SessionAssumption DEF Typed, TypeOK
    <3>3. Due(p, {"blob", "fill", "record", "line"}) \in Nat /\ Due(p, {"blob"}) \in Nat
      BY <3>2 DEF Due
    <3> QED
      BY <2>1, <3>1, <3>2, <3>3
  <2> QED
    BY <2>2 DEF CeilingIsKept, ExecutionBinding, Served, Charged
<1>2. SessionInv /\ Charged /\ [Next]_vars => Charged'
  BY NextCharged DEF SessionInv
<1> QED
  BY <1>1, <1>2, InitSession, NextSession, InitCharged, PTL DEF Spec

-----------------------------------------------------------------------------
(***************************************************************************)
(* CensusScreening.                                                        *)
(***************************************************************************)

Results == [gate : Screening!Gates, status : {"passed", "failed", "not_screened"},
            facts : SUBSET Screening!Facts]

(* The results of a screening are of increasing gates, and those that say    *)
(* "passed" have a fact that can be checked again.                           *)
Ordered(results) ==
  /\ results \in Seq(Results)
  /\ \A i, j \in DOMAIN results :
       i < j => Screening!Position(results[i].gate) < Screening!Position(results[j].gate)
  /\ \A i \in DOMAIN results :
       results[i].status = "passed" => \E f \in results[i].facts : f.frozen

Screened(x, s) ==
  /\ x = [kind |-> "screening", source |-> s, results |-> x.results,
          chronology |-> x.chronology]
  /\ Ordered(x.results)

Verified(x) ==
  /\ Screening!OwnFacts(x)
  /\ ~(x.chronology # Screening!None /\ Screening!Passed(x) /\ x.chronology.contaminated)

Reported ==
  /\ report = [kind |-> "report", verdict |-> report.verdict,
               screenings |-> report.screenings, breach |-> report.breach]
  /\ \A s \in DOMAIN report.screenings : Screened(report.screenings[s], s)
  /\ Screening!VerdictFollows(report.verdict, report.screenings)

ScreeningOwned ==
  /\ draft = Screening!None \/ \E s \in Screening!Sources : Screened(draft, s)
  /\ \A s \in DOMAIN filed : Screened(filed[s], s)
  /\ report = Screening!None \/ Reported
  /\ accepted \in BOOLEAN
  /\ accepted =>
       /\ report # Screening!None
       /\ \A s \in DOMAIN report.screenings : Verified(report.screenings[s])

ScreeningInv == part = "screening" => ScreeningOwned

LEMMA GatePositions ==
  /\ Screening!Gates = {"rights", "chronology"}
  /\ Screening!Position("rights") = 1 /\ Screening!Position("chronology") = 2
<1>1. DOMAIN Screening!GateOrder = {1, 2}
      /\ Screening!GateOrder[1] = "rights" /\ Screening!GateOrder[2] = "chronology"
  BY DEF Screening!GateOrder
<1>2. Screening!Gates = {"rights", "chronology"}
  BY <1>1 DEF Screening!Gates
<1>3. \A i \in DOMAIN Screening!GateOrder : Screening!GateOrder[i] = "rights" <=> i = 1
  BY <1>1
<1>4. \A i \in DOMAIN Screening!GateOrder : Screening!GateOrder[i] = "chronology" <=> i = 2
  BY <1>1
<1>5. Screening!Position("rights") = 1
  BY <1>1, <1>3 DEF Screening!Position
<1>6. Screening!Position("chronology") = 2
  BY <1>1, <1>4 DEF Screening!Position
<1> QED
  BY <1>2, <1>5, <1>6

(* The results that pass are of all gates.                                   *)
LEMMA PassedEveryGate ==
  ASSUME NEW x, Ordered(x.results), Screening!Passed(x), NEW g \in Screening!Gates
  PROVE  \E i \in DOMAIN x.results :
           x.results[i].gate = g /\ \E f \in x.results[i].facts : f.frozen
<1>1. PICK r : r = x.results
  OBVIOUS
<1>2. r \in Seq(Results) /\ Len(r) = 2 /\ DOMAIN r = 1..2
  <2>1. r \in Seq(Results)
    BY <1>1 DEF Ordered
  <2>2. Len(Screening!GateOrder) = 2
    BY DEF Screening!GateOrder
  <2>3. Len(r) = 2
    BY <1>1, <2>2 DEF Screening!Passed
  <2> QED
    BY <2>1, <2>3
<1>3. r[1] \in Results /\ r[2] \in Results
  <2>1. \A i \in 1..Len(r) : r[i] \in Results
    BY <1>2
  <2>2. 1 \in 1..Len(r) /\ 2 \in 1..Len(r)
    BY <1>2
  <2> QED
    BY <2>1, <2>2
<1>4. r[1].gate \in {"rights", "chronology"} /\ r[2].gate \in {"rights", "chronology"}
  BY <1>3, GatePositions DEF Results
<1>5. Screening!Position(r[1].gate) < Screening!Position(r[2].gate)
  BY <1>1, <1>2 DEF Ordered
<1>6. r[1].gate = "rights" /\ r[2].gate = "chronology"
  BY <1>4, <1>5, GatePositions
<1>7. PICK i \in DOMAIN r : r[i].gate = g
  BY <1>2, <1>6, GatePositions
<1>8. r[i].status = "passed"
  BY <1>1, <1>7 DEF Screening!Passed
<1> QED
  BY <1>1, <1>7, <1>8 DEF Ordered

LEMMA OwnedNominationIsBacked ==
  ASSUME ScreeningOwned
  PROVE  Screening!NominationIsBacked
<1> SUFFICES ASSUME accepted
             PROVE  Screening!NominationIsBacked
  BY DEF Screening!NominationIsBacked
<1>1. Reported /\ \A s \in DOMAIN report.screenings : Verified(report.screenings[s])
  BY DEF ScreeningOwned
<1>2. ASSUME NEW s \in Screening!Nominations(report)
      PROVE  LET x == report.screenings[s]
             IN  /\ \A g \in Screening!Gates : \E i \in DOMAIN x.results :
                      /\ x.results[i].gate = g
                      /\ \E f \in x.results[i].facts : f.frozen /\ f.source = s
                 /\ x.chronology # Screening!None => ~x.chronology.contaminated
  <2>1. PICK x : x = report.screenings[s]
    OBVIOUS
  <2>2. s \in DOMAIN report.screenings /\ Screening!Passed(x)
    BY <2>1 DEF Screening!Nominations
  <2>3. Screened(x, s) /\ Verified(x)
    BY <1>1, <2>1, <2>2 DEF Reported
  <2>4. x.source = s /\ Ordered(x.results)
    BY <2>3 DEF Screened
  <2>5. x.chronology # Screening!None => ~x.chronology.contaminated
    BY <2>2, <2>3 DEF Verified
  <2>6. ASSUME NEW g \in Screening!Gates
        PROVE  \E i \in DOMAIN x.results :
                 /\ x.results[i].gate = g
                 /\ \E f \in x.results[i].facts : f.frozen /\ f.source = s
    <3>1. PICK i \in DOMAIN x.results :
            x.results[i].gate = g /\ \E f \in x.results[i].facts : f.frozen
      BY <2>2, <2>4, PassedEveryGate
    <3>2. PICK f \in x.results[i].facts : f.frozen
      BY <3>1
    <3>3. f \in Screening!GateFacts(x)
      BY <3>2 DEF Screening!GateFacts
    <3>4. f.source = s
      BY <2>3, <2>4, <3>3 DEF Verified, Screening!OwnFacts
    <3> QED
      BY <3>1, <3>2, <3>4
  <2> QED
    BY <2>1, <2>5, <2>6
<1>3. /\ report.verdict = "QUALIFYING" => Screening!Nominations(report) # {}
      /\ report.verdict = "NULL" => Screening!Nominations(report) = {}
  BY <1>1 DEF Reported, Screening!VerdictFollows, Screening!Nominations
<1> QED
  BY <1>2, <1>3 DEF Screening!NominationIsBacked

LEMMA InitScreening == PartsInit => ScreeningInv
BY DEF PartsInit, Screening!Init, ScreeningInv, ScreeningOwned

(* What a screening is does not depend on the state.                         *)
LEMMA SameScreening ==
  /\ \A x, s : Screened(x, s)' <=> Screened(x, s)
  /\ \A x : Verified(x)' <=> Verified(x)
BY DEF Screened, Ordered, Verified

LEMMA BeginScreening ==
  ASSUME ScreeningOwned, NEW s \in Screening!Sources, Screening!Begin(s)
  PROVE  ScreeningOwned'
<1>1. UNCHANGED <<filed, report, accepted>> /\ draft' = Screening!Blank(s)
  BY DEF Screening!Begin
<1>2. Screened(Screening!Blank(s), s)
  BY DEF Screened, Ordered, Screening!Blank
<1> QED
  BY <1>1, <1>2 DEF ScreeningOwned, Reported

LEMMA DecideScreening ==
  ASSUME ScreeningOwned, NEW g \in Screening!Gates,
         NEW status \in {"passed", "failed", "not_screened"},
         NEW facts \in {{}} \cup {{f} : f \in Screening!Facts},
         Screening!Decide(g, status, facts)
  PROVE  ScreeningOwned'
<1>1. UNCHANGED <<filed, report, accepted>> /\ draft # Screening!None
      /\ Screening!Supported(status, facts)
  BY DEF Screening!Decide
<1>2. PICK s \in Screening!Sources : Screened(draft, s)
  BY <1>1 DEF ScreeningOwned
<1>3. PICK r : r = draft.results
  OBVIOUS
<1>4. PICK new : new = [gate |-> g, status |-> status, facts |-> facts]
  OBVIOUS
<1>5. Ordered(r)
  BY <1>2, <1>3 DEF Screened
<1>6. r \in Seq(Results) /\ new \in Results
  BY <1>4, <1>5 DEF Ordered, Results
<1>7. /\ Append(r, new) \in Seq(Results)
      /\ DOMAIN Append(r, new) = 1..(Len(r) + 1) /\ DOMAIN r = 1..Len(r) /\ Len(r) \in Nat
      /\ Append(r, new)[Len(r) + 1] = new
      /\ \A i \in 1..Len(r) : Append(r, new)[i] = r[i]
  BY <1>6
<1>8. \A i \in 1..Len(r) : Screening!Position(r[i].gate) < Screening!Position(g)
  BY <1>3, <1>7 DEF Screening!Decide
<1>9. PICK q : q = Append(r, new)
  OBVIOUS
<1>10. \A i, j \in 1..(Len(r) + 1) :
         i < j => Screening!Position(q[i].gate) < Screening!Position(q[j].gate)
  <2> SUFFICES ASSUME NEW i \in 1..(Len(r) + 1), NEW j \in 1..(Len(r) + 1), i < j
               PROVE  Screening!Position(q[i].gate) < Screening!Position(q[j].gate)
    OBVIOUS
  <2>1. i \in 1..Len(r) /\ q[i] = r[i]
    BY <1>7, <1>9
  <2>2. CASE j \in 1..Len(r)
    BY <1>5, <1>7, <1>9, <2>1, <2>2 DEF Ordered
  <2>3. CASE j = Len(r) + 1
    <3>1. q[j].gate = g
      BY <1>4, <1>7, <1>9, <2>3
    <3> QED
      BY <1>8, <2>1, <3>1
  <2> QED
    BY <1>7, <2>2, <2>3
<1>11. \A i \in 1..(Len(r) + 1) :
         q[i].status = "passed" => \E f \in q[i].facts : f.frozen
  <2> SUFFICES ASSUME NEW i \in 1..(Len(r) + 1), q[i].status = "passed"
               PROVE  \E f \in q[i].facts : f.frozen
    OBVIOUS
  <2>1. CASE i \in 1..Len(r)
    <3>1. q[i] = r[i]
      BY <1>7, <1>9, <2>1
    <3> QED
      BY <1>5, <1>7, <2>1, <3>1 DEF Ordered
  <2>2. CASE i = Len(r) + 1
    <3>1. q[i].status = status /\ q[i].facts = facts
      BY <1>4, <1>7, <1>9, <2>2
    <3> QED
      BY <1>1, <3>1 DEF Screening!Supported
  <2> QED
    BY <1>7, <2>1, <2>2
<1>12. Ordered(q)
  BY <1>7, <1>9, <1>10, <1>11 DEF Ordered
<1>13. draft' = [kind |-> "screening", source |-> s, results |-> q, chronology |-> draft.chronology]
  <2>1. draft' = [draft EXCEPT !.results = q]
    BY <1>3, <1>4, <1>9 DEF Screening!Decide
  <2> QED
    BY <1>2, <2>1 DEF Screened
<1>14. Screened(draft', s)
  BY <1>12, <1>13 DEF Screened
<1> QED
  BY <1>1, <1>14 DEF ScreeningOwned, Reported

LEMMA ChronologyScreening ==
  ASSUME ScreeningOwned, NEW artifacts, NEW c6, Screening!Chronology(artifacts, c6)
  PROVE  ScreeningOwned'
<1>1. UNCHANGED <<filed, report, accepted>> /\ draft # Screening!None
  BY DEF Screening!Chronology
<1>2. PICK s \in Screening!Sources : Screened(draft, s)
  BY <1>1 DEF ScreeningOwned
<1>3. PICK c : draft' = [draft EXCEPT !.chronology = c]
  BY DEF Screening!Chronology
<1>4. draft' = [kind |-> "screening", source |-> s, results |-> draft.results, chronology |-> c]
  BY <1>2, <1>3 DEF Screened
<1>5. Screened(draft', s)
  BY <1>2, <1>4 DEF Screened
<1> QED
  BY <1>1, <1>5 DEF ScreeningOwned, Reported

LEMMA FileScreening ==
  ASSUME ScreeningOwned, Screening!File
  PROVE  ScreeningOwned'
<1>1. UNCHANGED <<report, accepted>> /\ draft # Screening!None /\ draft' = Screening!None
  BY DEF Screening!File
<1>2. PICK s \in Screening!Sources : Screened(draft, s)
  BY <1>1 DEF ScreeningOwned
<1>3. draft.source = s
  BY <1>2 DEF Screened
<1>4. filed' = [t \in DOMAIN filed \cup {s} |-> IF t = s THEN draft ELSE filed[t]]
  BY <1>3 DEF Screening!File
<1>5. \A t \in DOMAIN filed' : Screened(filed'[t], t)
  BY <1>2, <1>4 DEF ScreeningOwned
<1> QED
  BY <1>1, <1>5 DEF ScreeningOwned, Reported

LEMMA ConcludeScreening ==
  ASSUME ScreeningOwned, NEW verdict, NEW breach, Screening!Conclude(verdict, breach)
  PROVE  ScreeningOwned'
<1>1. /\ UNCHANGED <<filed, draft, accepted>> /\ report = Screening!None
      /\ Screening!VerdictFollows(verdict, filed)
      /\ report' = [kind |-> "report", verdict |-> verdict, screenings |-> filed,
                    breach |-> breach]
  BY DEF Screening!Conclude
<1>2. ~accepted
  BY <1>1 DEF ScreeningOwned
<1>3. report'.verdict = verdict /\ report'.screenings = filed /\ report'.breach = breach
  BY <1>1
<1>4. \A s \in DOMAIN filed : Screened(filed[s], s)
  BY DEF ScreeningOwned
<1>5. Reported'
  BY <1>1, <1>3, <1>4 DEF Reported, Screening!VerdictFollows
<1> QED
  BY <1>1, <1>2, <1>5 DEF ScreeningOwned

LEMMA VerifyScreening ==
  ASSUME ScreeningOwned, Screening!Verify
  PROVE  ScreeningOwned'
<1>1. UNCHANGED <<filed, draft, report>> /\ report # Screening!None /\ accepted' = TRUE
  BY DEF Screening!Verify
<1>2. \A s \in DOMAIN report.screenings : Verified(report.screenings[s])
  BY DEF Screening!Verify, Verified
<1> QED
  BY <1>1, <1>2 DEF ScreeningOwned, Reported

LEMMA NextScreening == ScreeningInv /\ [PartsNext]_partsVars => ScreeningInv'
<1> SUFFICES ASSUME ScreeningInv, [PartsNext]_partsVars, part' = "screening"
             PROVE  ScreeningOwned'
  BY DEF ScreeningInv
<1>1. part = "screening" /\ ScreeningOwned
  BY DEF ScreeningInv, PartsNext, SessionStep, ScreeningStep, SplitStep, FoldsStep, partsVars
<1>2. CASE Screening!Next
  BY <1>1, <1>2, BeginScreening, DecideScreening, ChronologyScreening, FileScreening,
     ConcludeScreening, VerifyScreening DEF Screening!Next
<1>3. CASE UNCHANGED partsVars
  BY <1>1, <1>3 DEF ScreeningOwned, Reported, partsVars, screeningVars
<1> QED
  BY <1>1, <1>2, <1>3 DEF PartsNext, SessionStep, ScreeningStep, SplitStep, FoldsStep

(* An accepted census nominates only candidates every gate of which was      *)
(* passed on frozen bytes of the candidate's own source.                     *)
THEOREM NominationsAreBacked == PartsSpec => []NominationIsBacked
<1>1. ScreeningInv => NominationIsBacked
  BY OwnedNominationIsBacked DEF ScreeningInv, NominationIsBacked
<1> QED
  BY <1>1, InitScreening, NextScreening, PTL DEF PartsSpec

-----------------------------------------------------------------------------
(***************************************************************************)
(* SplitLock.                                                              *)
(***************************************************************************)

LEMMA SameSplitCardinality == \A S : Split!Cardinality(S) = Cardinality(S)
<1>1. \A S : Split!IsFiniteSet(S) = IsFiniteSet(S)
  BY DEF Split!IsFiniteSet, IsFiniteSet
<1> QED
  BY <1>1 DEF Split!Cardinality, Cardinality

(* The first incident with the same value has it, and is the same for all    *)
(* that have it.                                                             *)
LEMMA PreviousShares ==
  ASSUME NEW d, NEW u \in Split!Units
  PROVE  /\ Split!Previous(d, u) \in Split!Units
         /\ corpus[d][Split!Previous(d, u)] = corpus[d][u]
         /\ \A v \in Split!Units :
              corpus[d][v] = corpus[d][u] => Split!Previous(d, v) = Split!Previous(d, u)
<1> DEFINE Same == {p \in Split!Units : corpus[d][p] = corpus[d][u]}
<1>1. Same \in SUBSET Nat /\ Same # {}
  BY CensusAssumption DEF Split!Units
<1>2. PICK t \in Same : \A q \in Same : t <= q
  BY <1>1, HasLeast
<1>3. /\ t \in Split!Units /\ corpus[d][t] = corpus[d][u]
      /\ \A q \in Split!Units : corpus[d][q] = corpus[d][u] => t <= q
  BY <1>2
<1>4. /\ Split!Previous(d, u) \in Split!Units
      /\ corpus[d][Split!Previous(d, u)] = corpus[d][u]
  BY <1>3 DEF Split!Previous
<1>5. ASSUME NEW v \in Split!Units, corpus[d][v] = corpus[d][u]
      PROVE  Split!Previous(d, v) = Split!Previous(d, u)
  BY <1>5 DEF Split!Previous
<1> QED
  BY <1>4, <1>5

(* A pair that Unite can take.                                               *)
LEMMA FirstPair ==
  ASSUME todo # {}, todo \subseteq holdout \X Split!Units
  PROVE  (CHOOSE p \in todo : \A q \in todo : p = q \/ p[2] <= q[2]) \in todo
<1> DEFINE T == {p[2] : p \in todo}
<1>1. T \in SUBSET Nat /\ T # {}
  BY CensusAssumption DEF Split!Units
<1>2. PICK t \in T : \A u \in T : t <= u
  BY <1>1, HasLeast
<1>3. PICK p \in todo : p[2] = t
  BY <1>2
<1>4. \A q \in todo : p = q \/ p[2] <= q[2]
  BY <1>2, <1>3
<1> QED
  BY <1>4

(* Being linked is an equivalence, and sharing a value links.                *)
LEMMA SharingLinks ==
  ASSUME NEW d \in holdout, NEW u \in Split!Units, NEW v \in Split!Units,
         corpus[d][u] = corpus[d][v]
  PROVE  Split!Linked(u, v)
BY DEF Split!Linked, Split!Closed

LEMMA LinksCompose ==
  ASSUME NEW u, NEW v, NEW w, Split!Linked(u, v), Split!Linked(v, w)
  PROVE  Split!Linked(u, w)
BY DEF Split!Linked

LEMMA LinksReturn ==
  ASSUME NEW u \in Split!Units, NEW v \in Split!Units, Split!Linked(u, v)
  PROVE  Split!Linked(v, u)
<1> SUFFICES ASSUME NEW S \in SUBSET Split!Units, v \in S, Split!Closed(S), u \notin S
             PROVE  FALSE
  BY DEF Split!Linked
<1> DEFINE R == Split!Units \ S
<1>1. Split!Closed(R)
  BY DEF Split!Closed
<1> QED
  BY <1>1 DEF Split!Linked

(* A lock that keeps every dimension together keeps what is linked together. *)
LEMMA DisjointKeepsLinked ==
  ASSUME \A d \in holdout : Split!Disjoint(d), NEW u \in Split!Units, NEW v \in Split!Units,
         Split!Linked(u, v)
  PROVE  lock.split[u] = lock.split[v]
<1> DEFINE S == {w \in Split!Units : lock.split[w] = lock.split[u]}
<1>1. Split!Closed(S)
  BY DEF Split!Closed, Split!Disjoint
<1> QED
  BY <1>1 DEF Split!Linked

LEMMA SplitValues == Split!Splits = {"train", "validation", "test"}
<1>1. DOMAIN Split!SplitNames = {1, 2, 3}
  BY DEF Split!SplitNames
<1>2. /\ Split!SplitNames[1] = "train" /\ Split!SplitNames[2] = "validation"
      /\ Split!SplitNames[3] = "test"
  BY DEF Split!SplitNames
<1> QED
  BY <1>1, <1>2 DEF Split!Splits

LEMMA ThreeSplits == IsFiniteSet(Split!Splits) /\ Cardinality(Split!Splits) = 3
<1>1. IsFiniteSet({"train"}) /\ Cardinality({"train"}) = 1
  BY FS_Singleton
<1>2. IsFiniteSet({"train", "validation"}) /\ Cardinality({"train", "validation"}) = 2
  <2>1. {"train", "validation"} = {"train"} \cup {"validation"} /\ "validation" \notin {"train"}
    OBVIOUS
  <2> QED
    BY <1>1, <2>1, FS_AddElement
<1>3. Split!Splits = {"train", "validation"} \cup {"test"} /\ "test" \notin {"train", "validation"}
  BY SplitValues
<1> QED
  BY <1>2, <1>3, FS_AddElement

LEMMA UnitsFinite ==
  /\ IsFiniteSet(Split!Units)
  /\ IsFiniteSet(Split!Components)
  /\ \A S \in SUBSET Split!Units : IsFiniteSet(S)
<1>1. IsFiniteSet(Split!Units)
  BY CensusAssumption, FS_Interval DEF Split!Units
<1>2. \A S \in SUBSET Split!Units : IsFiniteSet(S)
  BY <1>1, FS_Subset
<1> DEFINE C(v) == {u \in Split!Units : root[u] = root[v]}
<1>3. Split!Components = {C(v) : v \in Split!Units}
  BY DEF Split!Components
<1>4. Split!Components \subseteq SUBSET Split!Units
  BY <1>3
<1>5. IsFiniteSet(SUBSET Split!Units)
  BY <1>1, FS_SUBSET
<1> QED
  BY <1>1, <1>2, <1>4, <1>5, FS_Subset

(* A split is filled when it has an incident.                                *)
LEMMA CountPositive ==
  ASSUME NEW s, DOMAIN lock.split \subseteq Split!Units
  PROVE  /\ Split!Count(s) \in Nat
         /\ Split!Count(s) > 0 <=> \E u \in DOMAIN lock.split : lock.split[u] = s
<1> DEFINE S == {u \in DOMAIN lock.split : lock.split[u] = s}
<1>1. IsFiniteSet(S) /\ Split!Count(s) = Cardinality(S)
  BY UnitsFinite, SameSplitCardinality DEF Split!Count
<1>2. Cardinality(S) \in Nat /\ (Cardinality(S) = 0 <=> S = {})
  BY <1>1, FS_CardinalityType, FS_EmptySet
<1> QED
  BY <1>1, <1>2

Filled == {s \in Split!Splits : \E u \in DOMAIN lock.split : lock.split[u] = s}

(* The incidents that are together are linked, and those that were found to  *)
(* share a value are together.                                               *)
Together ==
  /\ root \in [Split!Units -> Split!Units]
  /\ todo \subseteq holdout \X Split!Units
  /\ \A d \in holdout, u \in Split!Units :
       <<d, u>> \notin todo => root[u] = root[Split!Previous(d, u)]
  /\ \A u, v \in Split!Units : root[u] = root[v] => Split!Linked(u, v)

(* A lock being frozen gives whole components away, and there are enough     *)
(* left for the splits that have none.                                       *)
Freezing ==
  /\ Cardinality(Split!Components) >= 3
  /\ waiting \subseteq Split!Components
  /\ lock.named = TRUE
  /\ DOMAIN lock.split = UNION (Split!Components \ waiting)
  /\ \A u \in DOMAIN lock.split : lock.split[u] \in Split!Splits
  /\ \A c \in Split!Components \ waiting : \A u, v \in c : lock.split[u] = lock.split[v]
  /\ Cardinality(Split!Splits \ Filled) <= Cardinality(waiting)

Lockable ==
  /\ lock = [frozen |-> lock.frozen, split |-> lock.split, named |-> lock.named]
  /\ lock.frozen \in BOOLEAN
  /\ DOMAIN lock.split \subseteq Split!Units
  /\ \A u \in DOMAIN lock.split : lock.split[u] \in Split!Splits
  /\ step \in {"unite", "assign", "validate", "done"}
  /\ step # "unite" => todo = {}
  /\ step = "unite" =>
       lock.frozen /\ lock.split = [u \in {} |-> "train"] /\ lock.named = TRUE /\ outcome = "none"
  /\ step = "assign" => lock.frozen
  /\ step \in {"assign", "validate"} => outcome = "none" /\ (lock.frozen => Freezing)
  /\ step = "validate" /\ lock.frozen => waiting = {}
  /\ step = "done" => Split!SplitsDoNotLeak

SplitOwned == Together /\ Lockable

SplitInv == part = "split" => SplitOwned

LEMMA InitSplit == PartsInit => SplitInv
<1> SUFFICES ASSUME PartsInit, part = "split" PROVE SplitOwned
  BY DEF SplitInv
<1>1. /\ step = "unite" /\ root = [u \in Split!Units |-> u] /\ todo = holdout \X Split!Units
      /\ lock = [frozen |-> TRUE, split |-> [u \in {} |-> "train"], named |-> TRUE]
      /\ outcome = "none"
  BY DEF PartsInit, Split!Init
<1>2. Together
  <2>1. \A u \in Split!Units : Split!Linked(u, u)
    BY DEF Split!Linked
  <2> QED
    BY <1>1, <2>1 DEF Together
<1>3. /\ lock.frozen = TRUE /\ lock.named = TRUE /\ lock.split = [u \in {} |-> "train"]
      /\ lock = [frozen |-> lock.frozen, split |-> lock.split, named |-> lock.named]
  BY <1>1
<1>4. DOMAIN lock.split = {}
  BY <1>3
<1>5. Lockable
  BY <1>1, <1>3, <1>4 DEF Lockable
<1> QED
  BY <1>2, <1>5 DEF SplitOwned

(* Two components are made one.                                              *)
LEMMA UniteSplit ==
  ASSUME SplitOwned, Split!Unite
  PROVE  SplitOwned'
<1> DEFINE pair == CHOOSE p \in todo : \A q \in todo : p = q \/ p[2] <= q[2]
<1>1. /\ step = "unite" /\ todo # {}
      /\ Split!Union(Split!Previous(pair[1], pair[2]), pair[2]) /\ todo' = todo \ {pair}
      /\ UNCHANGED <<corpus, holdout, step, waiting, lock, outcome>>
  BY DEF Split!Unite
<1>2. Together /\ Lockable
  BY DEF SplitOwned
<1>3. pair \in todo
  BY <1>1, <1>2, FirstPair DEF Together
<1> HIDE DEF pair
<1>4. PICK d \in holdout, right \in Split!Units : pair = <<d, right>>
  BY <1>2, <1>3 DEF Together
<1>5. PICK left : left = Split!Previous(d, right)
  OBVIOUS
<1>6. left \in Split!Units /\ corpus[d][left] = corpus[d][right]
  BY <1>5, PreviousShares
<1>7. root' = [u \in Split!Units |-> IF root[u] = root[right] THEN root[left] ELSE root[u]]
  BY <1>1, <1>4, <1>5 DEF Split!Union
<1>8. \A e, u : Split!Previous(e, u)' = Split!Previous(e, u)
  BY <1>1 DEF Split!Previous
<1>9. \A u, v : Split!Linked(u, v)' <=> Split!Linked(u, v)
  BY <1>1 DEF Split!Linked, Split!Closed
<1>10. /\ root \in [Split!Units -> Split!Units] /\ todo \subseteq holdout \X Split!Units
       /\ \A e \in holdout, u \in Split!Units :
            <<e, u>> \notin todo => root[u] = root[Split!Previous(e, u)]
       /\ \A u, v \in Split!Units : root[u] = root[v] => Split!Linked(u, v)
  BY <1>2 DEF Together
<1>11. root' \in [Split!Units -> Split!Units]
  BY <1>6, <1>7, <1>10
<1>12. \A e \in holdout, u \in Split!Units :
         <<e, u>> \notin todo' => root'[u] = root'[Split!Previous(e, u)]
  <2> SUFFICES ASSUME NEW e \in holdout, NEW u \in Split!Units, <<e, u>> \notin todo'
               PROVE  root'[u] = root'[Split!Previous(e, u)]
    OBVIOUS
  <2>1. Split!Previous(e, u) \in Split!Units
    BY PreviousShares
  <2>2. CASE <<e, u>> = pair
    <3>1. e = d /\ u = right
      BY <1>4, <2>2
    <3>2. root'[right] = root[left] /\ root'[left] = root[left]
      BY <1>6, <1>7
    <3> QED
      BY <1>5, <3>1, <3>2
  <2>3. CASE <<e, u>> # pair
    <3>1. root[u] = root[Split!Previous(e, u)]
      BY <1>1, <1>10, <2>3
    <3> QED
      BY <1>7, <2>1, <3>1
  <2> QED
    BY <2>2, <2>3
<1>13. \A u, v \in Split!Units : root'[u] = root'[v] => Split!Linked(u, v)
  <2> SUFFICES ASSUME NEW u \in Split!Units, NEW v \in Split!Units, root'[u] = root'[v]
               PROVE  Split!Linked(u, v)
    OBVIOUS
  <2>1. Split!Linked(left, right) /\ Split!Linked(right, left)
    BY <1>6, SharingLinks
  <2>2. CASE root[u] = root[v]
    BY <1>10, <2>2
  <2>3. CASE root[u] = root[right] /\ root[v] = root[left]
    <3>1. Split!Linked(u, right) /\ Split!Linked(left, v)
      BY <1>6, <1>10, <2>3
    <3>2. Split!Linked(u, left)
      BY <2>1, <3>1, LinksCompose
    <3> QED
      BY <3>1, <3>2, LinksCompose
  <2>4. CASE root[v] = root[right] /\ root[u] = root[left]
    <3>1. Split!Linked(u, left) /\ Split!Linked(right, v)
      BY <1>6, <1>10, <2>4
    <3>2. Split!Linked(u, right)
      BY <2>1, <3>1, LinksCompose
    <3> QED
      BY <3>1, <3>2, LinksCompose
  <2> QED
    BY <1>7, <2>2, <2>3, <2>4
<1>14. Together'
  <2>1. todo' \subseteq holdout \X Split!Units /\ holdout' = holdout
    BY <1>1, <1>10
  <2> QED
    BY <1>8, <1>9, <1>11, <1>12, <1>13, <2>1 DEF Together
<1>15. Lockable'
  <2>1. /\ lock' = lock /\ step' = "unite" /\ outcome' = outcome
    BY <1>1
  <2> QED
    BY <1>1, <1>2, <2>1 DEF Lockable
<1> QED
  BY <1>14, <1>15 DEF SplitOwned

(* Whatever leaves the components as they are.                               *)
LEMMA KeepsTogether ==
  ASSUME Together, UNCHANGED <<corpus, holdout, root, todo>>
  PROVE  /\ Together' /\ Split!Components' = Split!Components
         /\ \A u, v : Split!Linked(u, v)' <=> Split!Linked(u, v)
<1>1. \A e, u : Split!Previous(e, u)' = Split!Previous(e, u)
  BY DEF Split!Previous
<1>2. \A u, v : Split!Linked(u, v)' <=> Split!Linked(u, v)
  BY DEF Split!Linked, Split!Closed
<1>3. Split!Components' = Split!Components
  BY DEF Split!Components
<1> QED
  BY <1>1, <1>2, <1>3 DEF Together

(* A split in three that separates needs three components.                   *)
LEMMA ThreeComponents ==
  ASSUME Together, NEW split, Split!Separates(split)
  PROVE  Cardinality(Split!Components) >= 3
<1> DEFINE C(v) == {u \in Split!Units : root[u] = root[v]}
<1>1. PICK a \in Split!Units, b \in Split!Units, c \in Split!Units :
        split[a] = "train" /\ split[b] = "validation" /\ split[c] = "test"
  BY SplitValues DEF Split!Separates
<1>2. \A u, v \in Split!Units : root[u] = root[v] => split[u] = split[v]
  BY DEF Together, Split!Separates
<1>3. a \in C(a) /\ a \notin C(b) /\ a \notin C(c) /\ b \in C(b) /\ b \notin C(c)
  BY <1>1, <1>2
<1>4. C(a) # C(b) /\ C(a) # C(c) /\ C(b) # C(c)
  BY <1>3
<1>5. {C(a), C(b), C(c)} \subseteq Split!Components
  BY <1>1 DEF Split!Components
<1> HIDE DEF C
<1>6. Cardinality({C(a), C(b), C(c)}) = 3
  <2>1. IsFiniteSet({C(a)}) /\ Cardinality({C(a)}) = 1
    BY FS_Singleton
  <2>2. IsFiniteSet({C(a), C(b)}) /\ Cardinality({C(a), C(b)}) = 2
    <3>1. {C(a), C(b)} = {C(a)} \cup {C(b)} /\ C(b) \notin {C(a)}
      BY <1>4
    <3> QED
      BY <2>1, <3>1, FS_AddElement
  <2>3. {C(a), C(b), C(c)} = {C(a), C(b)} \cup {C(c)} /\ C(c) \notin {C(a), C(b)}
    BY <1>4
  <2> QED
    BY <2>2, <2>3, FS_AddElement
<1>7. Cardinality({C(a), C(b), C(c)}) <= Cardinality(Split!Components)
  BY <1>5, UnitsFinite, FS_Subset
<1>8. Cardinality(Split!Components) \in Nat
  BY UnitsFinite, FS_CardinalityType
<1> QED
  BY <1>6, <1>7, <1>8

LEMMA FreezeSplit ==
  ASSUME SplitOwned, Split!Freeze
  PROVE  SplitOwned'
<1>1. /\ step = "unite" /\ todo = {} /\ UNCHANGED <<corpus, holdout, root, todo, lock>>
      /\ \/ /\ Cardinality(Split!Components) < 3 /\ step' = "done" /\ outcome' = "infeasible"
         \/ /\ ~(Cardinality(Split!Components) < 3) /\ step' = "assign"
            /\ waiting' = Split!Components /\ outcome' = outcome
  BY SameSplitCardinality DEF Split!Freeze
<1>2. Together /\ Lockable /\ Together' /\ Split!Components' = Split!Components
  BY <1>1, KeepsTogether DEF SplitOwned
<1>3. /\ lock' = lock /\ lock.frozen /\ lock.named = TRUE /\ lock.split = [u \in {} |-> "train"]
      /\ outcome = "none" /\ lock.frozen \in BOOLEAN
      /\ lock = [frozen |-> lock.frozen, split |-> lock.split, named |-> lock.named]
  BY <1>1, <1>2 DEF Lockable
<1>4. DOMAIN lock.split = {}
  BY <1>3
<1>5. CASE Cardinality(Split!Components) < 3 /\ step' = "done" /\ outcome' = "infeasible"
  <2>1. ~ \E split \in [Split!Units -> Split!Splits] : Split!Separates(split)
    <3> SUFFICES ASSUME NEW split \in [Split!Units -> Split!Splits], Split!Separates(split)
                 PROVE  FALSE
      OBVIOUS
    <3>1. Cardinality(Split!Components) >= 3 /\ Cardinality(Split!Components) \in Nat
      BY <1>2, ThreeComponents, UnitsFinite, FS_CardinalityType
    <3> QED
      BY <1>5, <3>1
  <2>2. ~ \E split \in [Split!Units -> Split!Splits] : Split!Separates(split)'
    BY <1>1, <1>2, <2>1, KeepsTogether DEF Split!Separates
  <2>3. Split!SplitsDoNotLeak'
    BY <1>5, <2>2 DEF Split!SplitsDoNotLeak
  <2>4. Lockable'
    BY <1>1, <1>3, <1>4, <1>5, <2>3 DEF Lockable
  <2> QED
    BY <1>2, <2>4 DEF SplitOwned
<1>6. CASE /\ ~(Cardinality(Split!Components) < 3) /\ step' = "assign"
           /\ waiting' = Split!Components /\ outcome' = outcome
  <2>1. Cardinality(Split!Components) \in Nat
    BY UnitsFinite, FS_CardinalityType
  <2>2. Cardinality(Split!Splits \ Filled') <= 3 /\ Cardinality(Split!Splits \ Filled') \in Nat
    <3>1. /\ IsFiniteSet(Split!Splits \ Filled')
          /\ Cardinality(Split!Splits \ Filled') <= Cardinality(Split!Splits)
      BY ThreeSplits, FS_Subset
    <3>2. Cardinality(Split!Splits \ Filled') \in Nat
      BY <3>1, FS_CardinalityType
    <3> QED
      BY <3>1, <3>2, ThreeSplits
  <2>4. UNION (Split!Components \ Split!Components) = {}
    OBVIOUS
  <2>5. Freezing'
    BY <1>2, <1>3, <1>4, <1>6, <2>1, <2>2, <2>4 DEF Freezing
  <2>6. Lockable'
    BY <1>1, <1>3, <1>4, <1>6, <2>5 DEF Lockable
  <2> QED
    BY <1>2, <2>6 DEF SplitOwned
<1> QED
  BY <1>1, <1>5, <1>6

(* Components are apart, none is empty.                                      *)
LEMMA ComponentsApart ==
  /\ \A c \in Split!Components : c # {} /\ c \subseteq Split!Units
  /\ \A b, c \in Split!Components : b = c \/ b \cap c = {}
  /\ UNION Split!Components = Split!Units
BY DEF Split!Components

(* What is filled least is empty if any is.                                  *)
LEMMA LeastIsEmpty ==
  ASSUME Lockable, NEW s \in Split!LeastFilled
  PROVE  s \in Split!Splits /\ (Filled # Split!Splits => s \notin Filled)
<1> DEFINE empty == {i \in DOMAIN Split!SplitNames : Split!Count(Split!SplitNames[i]) = 0}
           first == CHOOSE i \in empty : \A j \in empty : i <= j
<1>1. DOMAIN Split!SplitNames = 1..3
  BY DEF Split!SplitNames
<1>2. \A t \in Split!Splits : Split!Count(t) \in Nat /\ (Split!Count(t) > 0 <=> t \in Filled)
  BY CountPositive DEF Lockable, Filled
<1>3. CASE empty = {}
  <2>1. \A t \in Split!Splits : Split!Count(t) # 0
    BY <1>3 DEF Split!Splits
  <2>2. Filled = Split!Splits
    BY <1>2, <2>1 DEF Filled
  <2>3. s \in Split!Splits
    BY <1>3 DEF Split!LeastFilled
  <2> QED
    BY <2>2, <2>3
<1>4. CASE empty # {}
  <2>1. empty \in SUBSET Nat
    BY <1>1
  <2>2. \E i \in empty : \A j \in empty : i <= j
    BY <1>4, <2>1, HasLeast
  <2>3. first \in empty
    BY <2>2
  <2>4. s = Split!SplitNames[first]
    BY <1>4 DEF Split!LeastFilled
  <2>5. Split!Count(s) = 0 /\ s \in Split!Splits
    BY <2>3, <2>4 DEF Split!Splits
  <2> QED
    BY <1>2, <2>5
<1> QED
  BY <1>3, <1>4

LEMMA AssignSplit ==
  ASSUME SplitOwned, Split!Assign
  PROVE  SplitOwned'
<1>1. PICK c \in waiting, s \in Split!LeastFilled :
        /\ step = "assign" /\ waiting' = waiting \ {c}
        /\ lock' = [lock EXCEPT !.split =
                      [u \in DOMAIN @ \cup c |-> IF u \in c THEN s ELSE @[u]]]
        /\ UNCHANGED <<corpus, holdout, step, root, todo, outcome>>
  BY DEF Split!Assign
<1>2. Together /\ Lockable /\ Together' /\ Split!Components' = Split!Components
  BY <1>1, KeepsTogether DEF SplitOwned
<1>3. /\ lock = [frozen |-> lock.frozen, split |-> lock.split, named |-> lock.named]
      /\ lock.frozen /\ lock.frozen \in BOOLEAN /\ Freezing /\ outcome = "none" /\ todo = {}
      /\ DOMAIN lock.split \subseteq Split!Units
  BY <1>1, <1>2 DEF Lockable
<1>4. PICK w : w = [u \in DOMAIN lock.split \cup c |-> IF u \in c THEN s ELSE lock.split[u]]
  OBVIOUS
<1>5. lock' = [lock EXCEPT !.split = w]
  BY <1>1, <1>4
<1>6. lock' = [frozen |-> lock.frozen, split |-> w, named |-> lock.named]
  BY <1>3, <1>5
<1>7. /\ lock'.frozen = lock.frozen /\ lock'.split = w /\ lock'.named = lock.named
      /\ lock' = [frozen |-> lock'.frozen, split |-> lock'.split, named |-> lock'.named]
  BY <1>6
<1>8. s \in Split!Splits /\ (Filled # Split!Splits => s \notin Filled)
  BY <1>2, LeastIsEmpty
<1>9. /\ waiting \subseteq Split!Components /\ DOMAIN lock.split = UNION (Split!Components \ waiting)
      /\ lock.named = TRUE /\ Cardinality(Split!Components) >= 3
      /\ \A u \in DOMAIN lock.split : lock.split[u] \in Split!Splits
      /\ \A b \in Split!Components \ waiting : \A u, v \in b : lock.split[u] = lock.split[v]
      /\ Cardinality(Split!Splits \ Filled) <= Cardinality(waiting)
  BY <1>3 DEF Freezing
<1>10. /\ c \in Split!Components /\ c # {} /\ c \subseteq Split!Units
       /\ \A b \in Split!Components \ waiting : b \cap c = {}
  BY <1>9, ComponentsApart
<1>11. c \cap DOMAIN lock.split = {}
  BY <1>9, <1>10
<1>12. /\ DOMAIN w = DOMAIN lock.split \cup c /\ \A u \in c : w[u] = s
       /\ \A u \in DOMAIN lock.split : w[u] = lock.split[u]
  BY <1>4, <1>11
<1>13. DOMAIN w = UNION (Split!Components \ waiting')
  <2>1. Split!Components \ waiting' = (Split!Components \ waiting) \cup {c}
    BY <1>1, <1>10
  <2> QED
    BY <1>9, <1>12, <2>1
<1>14. \A u \in DOMAIN w : w[u] \in Split!Splits
  BY <1>8, <1>9, <1>12
<1>15. \A b \in Split!Components \ waiting' : \A u, v \in b : w[u] = w[v]
  <2> SUFFICES ASSUME NEW b \in Split!Components \ waiting', NEW u \in b, NEW v \in b
               PROVE  w[u] = w[v]
    OBVIOUS
  <2>1. CASE b = c
    BY <1>12, <2>1
  <2>2. CASE b # c
    <3>1. b \in Split!Components \ waiting
      BY <1>1, <2>2
    <3>2. u \in DOMAIN lock.split /\ v \in DOMAIN lock.split
      BY <1>9, <3>1
    <3> QED
      BY <1>9, <1>12, <3>1, <3>2
  <2> QED
    BY <2>1, <2>2
<1>16. Filled' = Filled \cup {s}
  <2>1. Filled' = {t \in Split!Splits : \E u \in DOMAIN w : w[u] = t}
    BY <1>7 DEF Filled
  <2>2. \A t \in Split!Splits : (\E u \in DOMAIN w : w[u] = t) <=> (t \in Filled \/ t = s)
    BY <1>10, <1>12 DEF Filled
  <2>3. Filled \subseteq Split!Splits
    BY DEF Filled
  <2> QED
    BY <1>8, <2>1, <2>2, <2>3
<1>17. Cardinality(Split!Splits \ Filled') <= Cardinality(waiting')
  <2>1. IsFiniteSet(waiting) /\ IsFiniteSet(Split!Splits \ Filled)
    BY <1>9, UnitsFinite, ThreeSplits, FS_Subset
  <2>2. /\ IsFiniteSet(waiting') /\ Cardinality(waiting') = Cardinality(waiting) - 1
    BY <1>1, <2>1, FS_RemoveElement
  <2>3. /\ Cardinality(waiting) \in Nat /\ Cardinality(waiting') \in Nat
        /\ Cardinality(Split!Splits \ Filled) \in Nat
    BY <2>1, <2>2, FS_CardinalityType
  <2>4. CASE s \in Filled
    <3>1. Split!Splits \ Filled' = {}
      BY <1>8, <1>16, <2>4
    <3> QED
      BY <2>3, <3>1, FS_EmptySet
  <2>5. CASE s \notin Filled
    <3>1. Split!Splits \ Filled' = (Split!Splits \ Filled) \ {s} /\ s \in Split!Splits \ Filled
      BY <1>8, <1>16, <2>5
    <3>2. Cardinality(Split!Splits \ Filled') = Cardinality(Split!Splits \ Filled) - 1
      BY <2>1, <3>1, FS_RemoveElement
    <3> QED
      BY <1>9, <2>2, <2>3, <3>2
  <2> QED
    BY <2>4, <2>5
<1>18. Freezing'
  BY <1>1, <1>2, <1>7, <1>9, <1>12, <1>13, <1>14, <1>15, <1>17 DEF Freezing
<1>19. DOMAIN w \subseteq Split!Units
  BY <1>3, <1>10, <1>12
<1>20. Lockable'
  BY <1>1, <1>3, <1>7, <1>14, <1>18, <1>19 DEF Lockable
<1> QED
  BY <1>2, <1>20 DEF SplitOwned

LEMMA LockSplit ==
  ASSUME SplitOwned, Split!Lock
  PROVE  SplitOwned'
<1>1. /\ step = "assign" /\ waiting = {} /\ step' = "validate"
      /\ UNCHANGED <<corpus, holdout, root, todo, waiting, lock, outcome>>
  BY DEF Split!Lock
<1>2. Together /\ Lockable /\ Together' /\ Split!Components' = Split!Components
  BY <1>1, KeepsTogether DEF SplitOwned
<1>3. Freezing' <=> Freezing
  BY <1>1, <1>2 DEF Freezing, Filled
<1>4. Lockable'
  BY <1>1, <1>2, <1>3 DEF Lockable
<1> QED
  BY <1>2, <1>4 DEF SplitOwned

LEMMA ReceiveSplit ==
  ASSUME SplitOwned, Split!Receive
  PROVE  SplitOwned'
<1>0. PICK S \in {Split!Units, Split!Units \ {1}}, named \in BOOLEAN :
        /\ \E split \in [S -> Split!Splits] :
              lock' = [frozen |-> FALSE, split |-> split, named |-> named]
        /\ step = "unite" /\ todo = {} /\ step' = "validate"
        /\ UNCHANGED <<corpus, holdout, root, todo, waiting, outcome>>
  BY DEF Split!Receive
<1>1. PICK split \in [S -> Split!Splits] :
        /\ lock' = [frozen |-> FALSE, split |-> split, named |-> named]
        /\ step = "unite" /\ todo = {} /\ step' = "validate"
        /\ UNCHANGED <<corpus, holdout, root, todo, waiting, outcome>>
  BY <1>0
<1>2. Together /\ Lockable /\ Together'
  BY <1>1, KeepsTogether DEF SplitOwned
<1>3. /\ lock'.frozen = FALSE /\ lock'.split = split /\ lock'.named = named
      /\ lock' = [frozen |-> lock'.frozen, split |-> lock'.split, named |-> lock'.named]
  BY <1>1
<1>4. ~lock'.frozen /\ lock'.frozen \in BOOLEAN
  BY <1>3
<1>5. DOMAIN split \subseteq Split!Units /\ \A u \in DOMAIN split : split[u] \in Split!Splits
  BY <1>1
<1>6. outcome = "none"
  BY <1>1, <1>2 DEF Lockable
<1>7. Lockable'
  BY <1>1, <1>3, <1>4, <1>5, <1>6 DEF Lockable
<1> QED
  BY <1>2, <1>7 DEF SplitOwned

(* What freeze_group_split makes is valid.                                   *)
LEMMA FrozenIsValid ==
  ASSUME SplitOwned, step = "validate", lock.frozen
  PROVE  Split!Valid
<1>1. Freezing /\ waiting = {} /\ todo = {} /\ DOMAIN lock.split \subseteq Split!Units
  BY DEF SplitOwned, Lockable
<1>2. Split!Components \ waiting = Split!Components
  BY <1>1
<1>3. DOMAIN lock.split = Split!Units
  BY <1>1, <1>2, ComponentsApart DEF Freezing
<1>4. \A c \in Split!Components : \A u, v \in c : lock.split[u] = lock.split[v]
  BY <1>1, <1>2 DEF Freezing
<1>5. Filled = Split!Splits
  <2>1. IsFiniteSet(Split!Splits \ Filled) /\ Cardinality(waiting) = 0
    BY <1>1, ThreeSplits, FS_Subset, FS_EmptySet
  <2>2. Cardinality(Split!Splits \ Filled) \in Nat
    BY <2>1, FS_CardinalityType
  <2>3. Cardinality(Split!Splits \ Filled) = 0
    BY <1>1, <2>1, <2>2 DEF Freezing
  <2>4. Split!Splits \ Filled = {}
    BY <2>1, <2>3, FS_EmptySet
  <2> QED
    BY <2>4 DEF Filled
<1>6. \A s \in Split!Splits : Split!Count(s) > 0
  BY <1>1, <1>5, CountPositive DEF Filled
<1>7. ASSUME NEW d \in holdout PROVE Split!Disjoint(d)
  <2> SUFFICES ASSUME NEW u \in Split!Units, NEW v \in Split!Units, corpus[d][u] = corpus[d][v]
               PROVE  lock.split[u] = lock.split[v]
    BY DEF Split!Disjoint
  <2>1. root[u] = root[Split!Previous(d, u)] /\ root[v] = root[Split!Previous(d, v)]
    BY <1>1 DEF SplitOwned, Together
  <2>2. Split!Previous(d, u) = Split!Previous(d, v)
    BY PreviousShares
  <2>3. \E c \in Split!Components : u \in c /\ v \in c
    <3> DEFINE c == {w \in Split!Units : root[w] = root[v]}
    <3>1. c \in Split!Components
      BY DEF Split!Components
    <3>2. u \in c /\ v \in c
      BY <2>1, <2>2
    <3> QED
      BY <3>1, <3>2
  <2> QED
    BY <1>4, <2>3
<1>8. lock.named /\ Split!Cardinality(Split!Components) >= 3
  BY <1>1, SameSplitCardinality DEF Freezing
<1> QED
  BY <1>3, <1>4, <1>6, <1>7, <1>8 DEF Split!Valid

LEMMA ValidSeparates ==
  ASSUME Lockable, Split!Valid
  PROVE  Split!Separates(lock.split)
<1>1. \A u, v \in Split!Units : Split!Linked(u, v) => lock.split[u] = lock.split[v]
  BY DisjointKeepsLinked DEF Split!Valid
<1>2. DOMAIN lock.split = Split!Units /\ \A s \in Split!Splits : \E u \in Split!Units : lock.split[u] = s
  BY CountPositive DEF Lockable, Split!Valid
<1>3. \A u \in Split!Units : lock.split[u] \in Split!Splits
  BY <1>2 DEF Lockable
<1> QED
  BY <1>1, <1>2, <1>3 DEF Split!Separates

LEMMA ValidateSplit ==
  ASSUME SplitOwned, Split!Validate
  PROVE  SplitOwned'
<1>1. /\ step = "validate" /\ step' = "done"
      /\ outcome' = IF Split!Valid THEN "accepted" ELSE "refused"
      /\ UNCHANGED <<corpus, holdout, root, todo, waiting, lock>>
  BY DEF Split!Validate
<1>2. Together /\ Lockable /\ Together' /\ lock' = lock
  BY <1>1, KeepsTogether DEF SplitOwned
<1>3. Split!Separates(lock.split)' <=> Split!Separates(lock.split)
  BY <1>1, <1>2, KeepsTogether DEF Split!Separates
<1>4. Split!SplitsDoNotLeak'
  <2>1. outcome' = "accepted" => Split!Separates(lock.split)'
    BY <1>1, <1>2, <1>3, ValidSeparates
  <2>2. lock'.frozen => outcome' # "refused"
    BY <1>1, <1>2, FrozenIsValid
  <2>3. outcome' # "infeasible"
    BY <1>1
  <2> QED
    BY <2>1, <2>2, <2>3 DEF Split!SplitsDoNotLeak
<1>5. Lockable'
  BY <1>1, <1>2, <1>4 DEF Lockable
<1> QED
  BY <1>2, <1>5 DEF SplitOwned

LEMMA NextSplit == SplitInv /\ [PartsNext]_partsVars => SplitInv'
<1> SUFFICES ASSUME SplitInv, [PartsNext]_partsVars, part' = "split" PROVE SplitOwned'
  BY DEF SplitInv
<1>1. CASE SplitStep
  <2>1. SplitOwned /\ Split!Next
    BY <1>1 DEF SplitInv, SplitStep
  <2> QED
    BY <2>1, UniteSplit, FreezeSplit, AssignSplit, LockSplit, ReceiveSplit, ValidateSplit
    DEF Split!Next
<1>2. CASE UNCHANGED <<part, splitVars>>
  <2>1. SplitOwned /\ UNCHANGED <<corpus, holdout, step, root, todo, waiting, lock, outcome>>
    BY <1>2 DEF SplitInv, splitVars
  <2>2. /\ Together' /\ Split!Components' = Split!Components
        /\ \A u, v : Split!Linked(u, v)' <=> Split!Linked(u, v)
    BY <2>1, KeepsTogether DEF SplitOwned
  <2>3. Freezing' <=> Freezing
    BY <2>1, <2>2 DEF Freezing, Filled
  <2>4. Split!SplitsDoNotLeak' <=> Split!SplitsDoNotLeak
    BY <2>1, <2>2 DEF Split!SplitsDoNotLeak, Split!Separates
  <2>5. Lockable'
    BY <2>1, <2>3, <2>4 DEF SplitOwned, Lockable
  <2> QED
    BY <2>2, <2>5 DEF SplitOwned
<1>3. part' = part
  BY DEF PartsNext, SessionStep, ScreeningStep, SplitStep, FoldsStep, partsVars
<1> QED
  BY <1>1, <1>2, <1>3 DEF PartsNext, SessionStep, ScreeningStep, SplitStep, FoldsStep, partsVars

(* SplitsDoNotLeak, for any number of incidents, any dimensions and values:  *)
(* between incidents of different splits of an accepted lock there is no     *)
(* chain of shared values; what freeze_group_split makes is always accepted, *)
(* and it refuses only what nobody could split in three (splits.py).         *)
THEOREM LocksDoNotLeak == PartsSpec => []SplitsDoNotLeak
<1>1. SplitInv => SplitsDoNotLeak
  <2> SUFFICES ASSUME SplitOwned PROVE Split!SplitsDoNotLeak
    BY DEF SplitInv, SplitsDoNotLeak
  <2>1. CASE step = "done"
    BY <2>1 DEF SplitOwned, Lockable
  <2>2. CASE step # "done"
    BY <2>2 DEF SplitOwned, Lockable, Split!SplitsDoNotLeak
  <2> QED
    BY <2>1, <2>2
<1> QED
  BY <1>1, InitSplit, NextSplit, PTL DEF PartsSpec

-----------------------------------------------------------------------------
(***************************************************************************)
(* CrossFit.                                                               *)
(***************************************************************************)

LEMMA SameFoldsCardinality == \A S : Folds!Cardinality(S) = Cardinality(S)
<1>1. \A S : Folds!IsFiniteSet(S) = IsFiniteSet(S)
  BY DEF Folds!IsFiniteSet, IsFiniteSet
<1> QED
  BY <1>1 DEF Folds!Cardinality, Cardinality

LEMMA CountsAreNumbers ==
  ASSUME NEW train \in SUBSET Incidents, NEW s, NEW key
  PROVE  Folds!Count(train, s, key) \in Nat
<1> DEFINE S == {i \in train : selector[i] = s /\ truth[i] = key}
<1>1. IsFiniteSet(S)
  BY CensusAssumption, FS_Subset
<1>2. Folds!Count(train, s, key) = Cardinality(S)
  BY SameFoldsCardinality DEF Folds!Count
<1> QED
  BY <1>1, <1>2, FS_CardinalityType

(* The mode is the key that strictly more incidents have than any other.     *)
LEMMA ModeIsStrict ==
  ASSUME NEW train \in SUBSET Incidents, NEW s
  PROVE  /\ Folds!Mode(train, s) \in Folds!Keys \cup {"class_tie"}
         /\ \A key \in Folds!Keys :
              Folds!Mode(train, s) = key <=>
                \A other \in Folds!Keys \ {key} :
                  Folds!Count(train, s, key) > Folds!Count(train, s, other)
<1> DEFINE W == Folds!Winners(train, s)
<1>1. PICK a \in Nat, b \in Nat :
        a = Folds!Count(train, s, "k1") /\ b = Folds!Count(train, s, "k2")
  BY CountsAreNumbers
<1>2. /\ "k1" \in W <=> a > 0 /\ b <= a
      /\ "k2" \in W <=> b > 0 /\ a <= b
      /\ W \subseteq {"k1", "k2"}
  BY <1>1 DEF Folds!Winners, Folds!Keys
<1>3. Folds!Mode(train, s) = IF Cardinality(W) = 1 THEN CHOOSE key \in W : TRUE ELSE "class_tie"
  BY SameFoldsCardinality DEF Folds!Mode
<1>4. \A key : (\A other \in Folds!Keys \ {key} :
                  Folds!Count(train, s, key) > Folds!Count(train, s, other))
               <=> /\ "k1" # key => Folds!Count(train, s, key) > a
                   /\ "k2" # key => Folds!Count(train, s, key) > b
  BY <1>1 DEF Folds!Keys
<1> HIDE DEF W
<1>5. CASE a > b
  <2>0. "k1" \in W /\ "k2" \notin W
    BY <1>2, <1>5
  <2>1. W = {"k1"}
    BY <1>2, <2>0
  <2>2. Folds!Mode(train, s) = "k1"
    BY <1>3, <2>1, FS_Singleton
  <2> QED
    BY <1>1, <1>4, <1>5, <2>2 DEF Folds!Keys
<1>6. CASE b > a
  <2>0. "k2" \in W /\ "k1" \notin W
    BY <1>2, <1>6
  <2>1. W = {"k2"}
    BY <1>2, <2>0
  <2>2. Folds!Mode(train, s) = "k2"
    BY <1>3, <2>1, FS_Singleton
  <2> QED
    BY <1>1, <1>4, <1>6, <2>2 DEF Folds!Keys
<1>7. CASE a = b
  <2>1. W = {} \/ W = {"k1", "k2"}
    BY <1>2, <1>7
  <2>2. Cardinality({}) = 0 /\ IsFiniteSet({"k1"}) /\ Cardinality({"k1"}) = 1
    BY FS_EmptySet, FS_Singleton
  <2>3. Cardinality({"k1", "k2"}) = 2
    <3>1. {"k1", "k2"} = {"k1"} \cup {"k2"} /\ "k2" \notin {"k1"}
      OBVIOUS
    <3> QED
      BY <2>2, <3>1, FS_AddElement
  <2>4. Folds!Mode(train, s) = "class_tie"
    BY <1>3, <2>1, <2>2, <2>3
  <2> QED
    BY <1>1, <1>4, <1>7, <2>4 DEF Folds!Keys
<1> QED
  BY <1>5, <1>6, <1>7

(* What was fitted was fitted to incidents of the census, and what was       *)
(* predicted is for others.                                                  *)
Fitted ==
  /\ state.train \subseteq Incidents
  /\ state.modes = Folds!Modes(state.train)

Predicted ==
  /\ predicted.axis \in DOMAIN census
  /\ predicted.group \in Folds!Groups(predicted.axis)
  /\ predicted.predictions =
       [i \in DOMAIN predicted.predictions |-> Folds!Prediction(i, predicted.local)]
  /\ DOMAIN predicted.predictions \cap state.train = {}

FoldsOwned ==
  /\ at \in {"derive", "fit", "predict", "validate", "accepted", "refused"}
  /\ at \in {"fit", "predict", "validate", "accepted"} => registry = Folds!Folds
  /\ at \in {"predict", "validate", "accepted"} => Fitted
  /\ at \in {"validate", "accepted"} => Predicted
  /\ at = "accepted" =>
       DOMAIN predicted.predictions = Folds!Holdout(predicted.axis, predicted.group)

FoldsInv == part = "folds" => FoldsOwned

(* The folds have their axis, their group and those it is about.             *)
LEMMA FoldParts ==
  ASSUME NEW fold \in Folds!Folds
  PROVE  /\ fold.axis \in DOMAIN census /\ fold.group \in Folds!Groups(fold.axis)
         /\ fold = Folds!Fold(fold.axis, fold.group, fold.train, fold.holdout)
         /\ fold.train \subseteq Incidents
         /\ fold.holdout = Folds!Holdout(fold.axis, fold.group)
<1>1. PICK axis \in DOMAIN census :
        \E group \in Folds!Groups(axis) :
          fold = Folds!Fold(axis, group, Incidents \ Folds!Holdout(axis, group),
                            Folds!Holdout(axis, group))
  BY DEF Folds!Folds
<1>2. PICK group \in Folds!Groups(axis) :
        fold = Folds!Fold(axis, group, Incidents \ Folds!Holdout(axis, group),
                          Folds!Holdout(axis, group))
  BY <1>1
<1> QED
  BY <1>2 DEF Folds!Fold

LEMMA FoldOfName ==
  ASSUME NEW axis \in DOMAIN census, NEW group \in Folds!Groups(axis)
  PROVE  \E fold \in Folds!Folds :
           /\ fold.axis = axis /\ fold.group = group
           /\ fold.holdout = Folds!Holdout(axis, group)
<1> DEFINE fold == Folds!Fold(axis, group, Incidents \ Folds!Holdout(axis, group),
                              Folds!Holdout(axis, group))
<1>1. fold \in Folds!Folds
  BY DEF Folds!Folds
<1>2. fold.axis = axis /\ fold.group = group /\ fold.holdout = Folds!Holdout(axis, group)
  BY DEF Folds!Fold
<1> QED
  BY <1>1, <1>2

LEMMA BroughtParts ==
  ASSUME NEW fold \in Folds!Folds, registry = Folds!Folds, NEW brought \in Folds!Brought(fold)
  PROVE  brought.train \subseteq Incidents /\ brought.train \cap brought.holdout = {}
<1>1. fold = Folds!Fold(fold.axis, fold.group, fold.train, fold.holdout)
      /\ fold.train \subseteq Incidents
  BY FoldParts
<1>2. brought.train \cap brought.holdout = {}
  BY DEF Folds!Brought, Folds!WellFormed
<1>3. CASE brought = fold
  BY <1>1, <1>2, <1>3
<1>4. ASSUME NEW g \in registry, brought = [fold EXCEPT !.train = g.train, !.holdout = g.holdout]
      PROVE  brought.train \subseteq Incidents
  <2>1. g.train \subseteq Incidents
    BY FoldParts
  <2>2. PICK t : t = g.train
    OBVIOUS
  <2>3. brought = [fold EXCEPT !.train = t, !.holdout = g.holdout]
    BY <1>4, <2>2
  <2>4. brought = Folds!Fold(fold.axis, fold.group, t, g.holdout)
    BY <1>1, <2>3 DEF Folds!Fold
  <2> QED
    BY <2>1, <2>2, <2>4 DEF Folds!Fold
<1>5. ASSUME NEW i \in Incidents, brought = [fold EXCEPT !.train = @ \ {i}]
      PROVE  brought.train \subseteq Incidents
  <2>1. brought = Folds!Fold(fold.axis, fold.group, fold.train \ {i}, fold.holdout)
    BY <1>1, <1>5 DEF Folds!Fold
  <2> QED
    BY <1>1, <2>1 DEF Folds!Fold
<1>6. ASSUME NEW i \in Incidents,
             brought = [fold EXCEPT !.train = @ \cup {i}, !.holdout = @ \ {i}]
      PROVE  brought.train \subseteq Incidents
  <2>1. PICK t, h : t = fold.train \cup {i} /\ h = fold.holdout \ {i}
    OBVIOUS
  <2>2. brought = [fold EXCEPT !.train = t, !.holdout = h]
    BY <1>6, <2>1
  <2>3. brought = Folds!Fold(fold.axis, fold.group, t, h)
    BY <1>1, <2>2 DEF Folds!Fold
  <2> QED
    BY <1>1, <2>1, <2>3 DEF Folds!Fold
<1> QED
  BY <1>2, <1>3, <1>4, <1>5, <1>6 DEF Folds!Brought

LEMMA InitFolds == PartsInit => FoldsInv
BY DEF PartsInit, Folds!Init, FoldsInv, FoldsOwned

(* What the folds and the modes are depends on the census, the truth and the *)
(* selectors only.                                                           *)
LEMMA SameFolds ==
  ASSUME UNCHANGED <<census, truth, selector>>
  PROVE  /\ Folds!Folds' = Folds!Folds
         /\ \A a : Folds!Groups(a)' = Folds!Groups(a)
         /\ \A a, g : Folds!Holdout(a, g)' = Folds!Holdout(a, g)
         /\ \A t : Folds!Modes(t)' = Folds!Modes(t)
<1>1. \A a : Folds!Groups(a)' = Folds!Groups(a)
  BY DEF Folds!Groups
<1>2. \A a, g : Folds!Holdout(a, g)' = Folds!Holdout(a, g)
  BY DEF Folds!Holdout
<1>3. Folds!Folds' = Folds!Folds
  BY <1>1, <1>2 DEF Folds!Folds
<1>4. \A t, s, k : Folds!Count(t, s, k)' = Folds!Count(t, s, k)
  BY DEF Folds!Count
<1>5. ASSUME NEW t, NEW s
      PROVE  Folds!Winners(t, s)' = Folds!Winners(t, s)
  <2>1. /\ Folds!Count(t, s, "k1")' = Folds!Count(t, s, "k1")
        /\ Folds!Count(t, s, "k2")' = Folds!Count(t, s, "k2")
    BY <1>4
  <2>2. PICK before, after : before = Folds!Winners(t, s) /\ after = Folds!Winners(t, s)'
    OBVIOUS
  <2>3. \A key : key \in before <=> key \in after
    BY <2>1, <2>2 DEF Folds!Winners, Folds!Keys
  <2> QED
    BY <2>2, <2>3
<1>6. ASSUME NEW t, NEW s
      PROVE  Folds!Mode(t, s)' = Folds!Mode(t, s)
  <2>1. PICK w : w = Folds!Winners(t, s) /\ w = Folds!Winners(t, s)'
    BY <1>5
  <2>2. Folds!Mode(t, s) =
          IF Folds!Cardinality(w) = 1 THEN CHOOSE key \in w : TRUE ELSE "class_tie"
    BY <2>1 DEF Folds!Mode
  <2>3. Folds!Mode(t, s)' =
          IF Folds!Cardinality(w) = 1 THEN CHOOSE key \in w : TRUE ELSE "class_tie"
    BY <2>1 DEF Folds!Mode
  <2> QED
    BY <2>2, <2>3
<1>7. \A t : Folds!Modes(t)' = Folds!Modes(t)
  BY <1>6 DEF Folds!Modes
<1> QED
  BY <1>1, <1>2, <1>3, <1>7

LEMMA FitFolds ==
  ASSUME FoldsOwned, Folds!Fit
  PROVE  FoldsOwned'
<1>1. at = "fit" /\ UNCHANGED <<census, truth, selector, registry, predicted>> /\ registry = Folds!Folds
  BY DEF Folds!Fit, FoldsOwned
<1>2. CASE at' = "refused"
  BY <1>2 DEF FoldsOwned
<1>3. ASSUME NEW fold \in registry, NEW brought \in Folds!Brought(fold), at' = "predict",
             state' = [axis |-> fold.axis, group |-> fold.group,
                       train |-> brought.train, modes |-> Folds!Modes(brought.train)]
      PROVE  FoldsOwned'
  <2>1. PICK t : t = brought.train
    OBVIOUS
  <2>2. state'.train = t /\ state'.modes = Folds!Modes(t)
    BY <1>3, <2>1
  <2>3. t \subseteq Incidents
    BY <1>1, <2>1, BroughtParts
  <2>4. Folds!Modes(t)' = Folds!Modes(t)
    BY <1>1, SameFolds
  <2>5. Folds!Modes(state.train)' = Folds!Modes(t)'
    BY <2>2
  <2>6. Fitted'
    BY <2>2, <2>3, <2>4, <2>5 DEF Fitted
  <2> QED
    BY <1>1, <1>3, <2>6, SameFolds DEF FoldsOwned
<1> QED
  BY <1>2, <1>3 DEF Folds!Fit

LEMMA PredictFolds ==
  ASSUME FoldsOwned, Folds!Predict
  PROVE  FoldsOwned'
<1>1. /\ at = "predict" /\ UNCHANGED <<census, truth, selector, registry, state>>
      /\ registry = Folds!Folds /\ Fitted
  BY DEF Folds!Predict, FoldsOwned
<1>2. CASE at' = "refused"
  BY <1>2 DEF FoldsOwned
<1>3. ASSUME NEW fold \in registry, NEW brought \in Folds!Brought(fold), NEW local, NEW inputs,
             at' = "validate", Folds!Bound(brought), inputs = brought.holdout,
             predicted' = [axis |-> fold.axis, group |-> fold.group, local |-> local,
                           predictions |-> [i \in inputs |-> Folds!Prediction(i, local)]]
      PROVE  FoldsOwned'
  <2>1. /\ predicted'.axis = fold.axis /\ predicted'.group = fold.group
        /\ predicted'.local = local
        /\ predicted'.predictions = [i \in inputs |-> Folds!Prediction(i, local)]
    BY <1>3
  <2>2. state.train \cap inputs = {}
    BY <1>1, <1>3, BroughtParts DEF Folds!Bound
  <2>3. fold.axis \in DOMAIN census /\ fold.group \in Folds!Groups(fold.axis)
    BY <1>1, FoldParts
  <2>4. Folds!Groups(predicted.axis)' = Folds!Groups(fold.axis)
    <3>1. PICK a : a = fold.axis
      OBVIOUS
    <3>2. Folds!Groups(predicted.axis)' = Folds!Groups(a)'
      BY <2>1, <3>1
    <3> QED
      BY <1>1, <3>1, <3>2, SameFolds
  <2>5. \A i, l : Folds!Prediction(i, l)' = Folds!Prediction(i, l)
    BY <1>1 DEF Folds!Prediction
  <2>6. DOMAIN predicted'.predictions = inputs
    BY <2>1
  <2>7. predicted'.predictions =
          [i \in DOMAIN predicted'.predictions |-> Folds!Prediction(i, predicted.local)']
    <3>1. \A i : Folds!Prediction(i, predicted.local)' = Folds!Prediction(i, local)'
      BY <2>1
    <3> QED
      BY <2>1, <2>5, <2>6, <3>1
  <2>8. Predicted'
    BY <1>1, <2>1, <2>2, <2>3, <2>4, <2>6, <2>7 DEF Predicted
  <2>9. Fitted'
    <3>1. PICK t : t = state.train
      OBVIOUS
    <3>2. Folds!Modes(state.train)' = Folds!Modes(t)'
      BY <1>1, <3>1
    <3> QED
      BY <1>1, <3>1, <3>2, SameFolds DEF Fitted
  <2> QED
    BY <1>1, <1>3, <2>8, <2>9, SameFolds DEF FoldsOwned
<1> QED
  BY <1>2, <1>3 DEF Folds!Predict, Folds!Exact

(* What stays when nothing but the place does not.                           *)
LEMMA StayFolds ==
  ASSUME FoldsOwned, UNCHANGED <<census, truth, selector, registry, state, predicted>>
  PROVE  /\ Folds!Folds' = Folds!Folds /\ (Fitted' <=> Fitted) /\ (Predicted' <=> Predicted)
         /\ (DOMAIN predicted.predictions = Folds!Holdout(predicted.axis, predicted.group))'
            <=> DOMAIN predicted.predictions = Folds!Holdout(predicted.axis, predicted.group)
<1>1. PICK t, a, g, l : t = state.train /\ a = predicted.axis /\ g = predicted.group /\ l = predicted.local
  OBVIOUS
<1>2. Folds!Modes(state.train)' = Folds!Modes(t)' /\ Folds!Groups(predicted.axis)' = Folds!Groups(a)'
      /\ Folds!Holdout(predicted.axis, predicted.group)' = Folds!Holdout(a, g)'
  BY <1>1
<1>3. Folds!Modes(state.train)' = Folds!Modes(state.train)
      /\ Folds!Groups(predicted.axis)' = Folds!Groups(predicted.axis)
      /\ Folds!Holdout(predicted.axis, predicted.group)' = Folds!Holdout(predicted.axis, predicted.group)
  BY <1>1, <1>2, SameFolds
<1>4. \A i : Folds!Prediction(i, predicted.local)' = Folds!Prediction(i, predicted.local)
  BY DEF Folds!Prediction
<1>5. Fitted' <=> Fitted
  BY <1>3 DEF Fitted
<1>6. Predicted' <=> Predicted
  BY <1>3, <1>4 DEF Predicted
<1> QED
  BY <1>3, <1>5, <1>6, SameFolds

LEMMA DeriveFolds ==
  ASSUME FoldsOwned, Folds!Derive
  PROVE  FoldsOwned'
<1>1. UNCHANGED <<census, truth, selector, state, predicted>>
      /\ (at' = "refused" \/ (at' = "fit" /\ registry' = Folds!Folds))
  BY DEF Folds!Derive
<1> QED
  BY <1>1, SameFolds DEF FoldsOwned

LEMMA ValidateFolds ==
  ASSUME FoldsOwned, Folds!Validate
  PROVE  FoldsOwned'
<1>1. /\ at = "validate" /\ UNCHANGED <<census, truth, selector, registry, state, predicted>>
      /\ registry = Folds!Folds /\ Fitted /\ Predicted
  BY DEF Folds!Validate, FoldsOwned
<1>2. \/ at' = "refused"
      \/ at' = "accepted" /\ \A fold \in registry : Folds!Complete(fold)
  BY DEF Folds!Validate
<1>3. ASSUME at' = "accepted", \A fold \in registry : Folds!Complete(fold)
      PROVE  DOMAIN predicted.predictions = Folds!Holdout(predicted.axis, predicted.group)
  <2>1. predicted.axis \in DOMAIN census /\ predicted.group \in Folds!Groups(predicted.axis)
    BY <1>1 DEF Predicted
  <2>2. PICK fold \in Folds!Folds :
          /\ fold.axis = predicted.axis /\ fold.group = predicted.group
          /\ fold.holdout = Folds!Holdout(predicted.axis, predicted.group)
    BY <2>1, FoldOfName
  <2> QED
    BY <1>1, <1>3, <2>2 DEF Folds!Complete
<1> QED
  BY <1>1, <1>2, <1>3, StayFolds DEF FoldsOwned

LEMMA NextFolds == FoldsInv /\ [PartsNext]_partsVars => FoldsInv'
<1> SUFFICES ASSUME FoldsInv, [PartsNext]_partsVars, part' = "folds"
             PROVE  FoldsOwned'
  BY DEF FoldsInv
<1>1. part = "folds" /\ FoldsOwned
  BY DEF FoldsInv, PartsNext, SessionStep, ScreeningStep, SplitStep, FoldsStep, partsVars
<1>2. CASE Folds!Next
  BY <1>1, <1>2, DeriveFolds, FitFolds, PredictFolds, ValidateFolds DEF Folds!Next
<1>3. CASE UNCHANGED partsVars
  BY <1>1, <1>3, StayFolds DEF FoldsOwned, partsVars, foldsVars
<1> QED
  BY <1>1, <1>2, <1>3 DEF PartsNext, SessionStep, ScreeningStep, SplitStep, FoldsStep

LEMMA OwnedPredictionsAreBlind ==
  ASSUME FoldsOwned
  PROVE  Folds!NoOwnTruth
<1> SUFFICES ASSUME at = "accepted"
             PROVE  Folds!NoOwnTruth
  BY DEF Folds!NoOwnTruth
<1> DEFINE held == {i \in Incidents : census[predicted.axis][i] = predicted.group}
           seen == {i \in Incidents \ held : i \in state.train}
           With(s, key) == {i \in seen : selector[i] = s /\ truth[i] = key}
<1>1. Fitted /\ Predicted /\ DOMAIN predicted.predictions = held
  BY DEF FoldsOwned, Folds!Holdout
<1>2. seen = state.train
  BY <1>1 DEF Fitted, Predicted
<1>3. \A s, key : Folds!Cardinality(With(s, key)) = Folds!Count(state.train, s, key)
  BY <1>2 DEF Folds!Count
<1>4. state.train \in SUBSET Incidents
  BY <1>1 DEF Fitted
<1> HIDE DEF held, seen, With
<1>5. ASSUME NEW i \in held, NEW key \in Folds!Keys
      PROVE  LET p == predicted.predictions[i]
             IN  /\ p.proposed = key <=>
                      \A other \in Folds!Keys \ {key} :
                        Folds!Cardinality(With(selector[i], key))
                          > Folds!Cardinality(With(selector[i], other))
                 /\ p.selected = key => p.proposed = key /\ key \in predicted.local
  <2> DEFINE p == predicted.predictions[i]
             m == Folds!Mode(state.train, selector[i])
  <2>1. p = Folds!Prediction(i, predicted.local)
    BY <1>1 DEF Predicted
  <2>2. /\ m \in Folds!Keys \cup {"class_tie"}
        /\ m = key <=> \A other \in Folds!Keys \ {key} :
                          Folds!Count(state.train, selector[i], key)
                            > Folds!Count(state.train, selector[i], other)
    BY <1>4, ModeIsStrict
  <2>3. key \notin {"none", "class_tie"}
    BY DEF Folds!Keys
  <2>4. state.modes = [s \in {selector[j] : j \in state.train} |-> Folds!Mode(state.train, s)]
    BY <1>1 DEF Fitted, Folds!Modes
  <2>5. CASE selector[i] \notin DOMAIN state.modes
    <3>1. selector[i] \notin {selector[j] : j \in state.train}
      BY <2>4, <2>5
    <3>2. \A k : {j \in state.train : selector[j] = selector[i] /\ truth[j] = k} = {}
      BY <3>1
    <3>3. \A k : Folds!Count(state.train, selector[i], k) = 0
      BY <3>2, SameFoldsCardinality, FS_EmptySet DEF Folds!Count
    <3>4. \E other : other \in Folds!Keys \ {key}
      BY DEF Folds!Keys
    <3>5. p.proposed = "none" /\ p.selected = "none"
      BY <2>1, <2>5 DEF Folds!Prediction
    <3>6. \A k : Folds!Cardinality(With(selector[i], k)) = 0
      BY <1>3, <3>3
    <3>7. ~\A other \in Folds!Keys \ {key} :
             Folds!Cardinality(With(selector[i], key))
               > Folds!Cardinality(With(selector[i], other))
      BY <3>4, <3>6
    <3> QED
      BY <2>3, <3>5, <3>7
  <2>6. CASE selector[i] \in DOMAIN state.modes /\ m = "class_tie"
    <3>1. state.modes[selector[i]] = m
      BY <2>4, <2>6
    <3>2. p.proposed = "none" /\ p.selected = "none"
      BY <2>1, <2>6, <3>1 DEF Folds!Prediction
    <3> QED
      BY <1>3, <2>2, <2>3, <2>6, <3>2
  <2>7. CASE selector[i] \in DOMAIN state.modes /\ m # "class_tie"
    <3>1. state.modes[selector[i]] = m
      BY <2>4, <2>7
    <3>2. p.proposed = m
          /\ (p.selected = "none" \/ (p.selected = m /\ m \in predicted.local))
      BY <2>1, <2>7, <3>1 DEF Folds!Prediction
    <3> QED
      BY <1>3, <2>2, <2>3, <3>2
  <2> QED
    BY <2>5, <2>6, <2>7
<1> QED
  BY <1>1, <1>5 DEF Folds!NoOwnTruth, held, seen, With

(* Whatever fold the caller brings, an accepted prediction owes nothing to   *)
(* the truth about the incidents it is for, and says what the others show.   *)
THEOREM PredictionsAreBlind == PartsSpec => []NoOwnTruth
<1>1. FoldsInv => NoOwnTruth
  BY OwnedPredictionsAreBlind DEF FoldsInv, NoOwnTruth
<1> QED
  BY <1>1, InitFolds, NextFolds, PTL DEF PartsSpec
================================================================================
