-------------------------- MODULE Iter000RunProofs --------------------------
(***************************************************************************)
(* Proofs about Iter000Run for every number of runners and deletions.      *)
(***************************************************************************)
EXTENDS Iter000Run, TLAPS

LEMMA EventTypeNames ==
  EventTypes = {"run-started", "sources-verified", "source-invalid", "dataset-ingested",
                "ingestion-invalid", "readiness-adjudicated", "run-completed", "run-failed"}
  BY DEF EventTypes, Transitions

-----------------------------------------------------------------------------
LEMMA InitTypeOK == Init => TypeOK
<1> SUFFICES ASSUME Init PROVE TypeOK
  OBVIOUS
<1>1. NoProof \in ProofRoot
  BY DEF NoProof, ProofRoot
<1>2. {"run-started"} \subseteq EventTypes /\ "attempt_000" \in Attempts
  BY EventTypeNames DEF Attempts
<1>3. QED
  BY <1>1, <1>2 DEF Init, Labels, TypeOK

\* What every step of a runner does to the variables it does not work out itself:
\* it moves one program counter, and a write replaces one proof root by a typed one.
LEMMA LeaveTyped ==
  ASSUME TypeOK, NEW p \in Runners, Leave(p), proof' \in [Attempts -> ProofRoot]
  PROVE  TypeOK'
<1>1. "run-started" \in EventTypes /\ "attempt_000" \in Attempts
  BY EventTypeNames DEF Attempts
<1>2. QED
  BY <1>1 DEF Leave, Labels, TypeOK

LEMMA NextTypeOK == TypeOK /\ [Next]_vars => TypeOK'
<1> SUFFICES ASSUME TypeOK, [Next]_vars PROVE TypeOK'
  OBVIOUS
<1> USE DEF Goto, Mine, Write, Queue
<1>1. ASSUME NEW p \in Runners PROVE Mine(p) \in ProofRoot
  BY <1>1 DEF TypeOK
<1>2. ASSUME NEW p \in Runners, NEW a \in Attempts, Begin(p, a) PROVE TypeOK'
  BY <1>2 DEF Begin, Labels, TypeOK
<1>3. ASSUME NEW p \in Runners, PassPreflight(p) \/ Consume(p) \/ Seal(p) PROVE TypeOK'
  BY <1>3 DEF PassPreflight, Consume, Seal, Labels, TypeOK
<1>4. ASSUME NEW p \in Runners, Start(p) PROVE TypeOK'
  <2>1. [Mine(p) EXCEPT !.root = TRUE] \in ProofRoot
    BY <1>1 DEF ProofRoot
  <2>2. "run-started" \in EventTypes
    BY EventTypeNames
  <2>3. QED
    BY <1>4, <2>1, <2>2 DEF Start, Labels, TypeOK
<1>5. ASSUME NEW p \in Runners, AppendLine(p) PROVE TypeOK'
  <2>1. Append(Mine(p).events, queued[p]) \in Seq(EventTypes)
    BY <1>1 DEF ProofRoot, TypeOK
  <2>2. [Mine(p) EXCEPT !.events = Append(@, queued[p])] \in ProofRoot
    BY <1>1, <2>1 DEF ProofRoot
  <2>3. QED
    BY <1>5, <2>2 DEF AppendLine, Labels, TypeOK
<1>6. ASSUME NEW p \in Runners, AppendHead(p) PROVE TypeOK'
  <2>1. Len(Mine(p).events) \in Nat
    BY <1>1 DEF ProofRoot
  <2>2. [Mine(p) EXCEPT !.head = Len(Mine(p).events)] \in ProofRoot
    BY <1>1, <2>1 DEF ProofRoot
  <2>3. After(queued[p]) \in Labels
    BY EventTypeNames DEF After, Labels, TypeOK
  <2>4. QED
    BY <1>6, <2>2, <2>3 DEF AppendHead, TypeOK
<1>7. ASSUME NEW p \in Runners, Fetch(p) \/ Ingest(p) \/ Audit(p) PROVE TypeOK'
  BY <1>7, EventTypeNames DEF Fetch, Ingest, Audit, Stage, Labels, TypeOK, Verdicts
<1>8. ASSUME NEW p \in Runners, Report(p) PROVE TypeOK'
  <2>1. [Mine(p) EXCEPT !.report = verdict[p]] \in ProofRoot
    BY <1>1 DEF ProofRoot, TypeOK
  <2>2. QED
    BY <1>8, <2>1, EventTypeNames DEF Report, Labels, TypeOK
<1>9. ASSUME NEW p \in Runners, Bundle(p) PROVE TypeOK'
  <2>1. [Mine(p) EXCEPT !.bundle = TRUE] \in ProofRoot
    BY <1>1 DEF ProofRoot
  <2>2. QED
    BY <1>9, <2>1 DEF Bundle, Labels, TypeOK
<1>10. ASSUME NEW p \in Runners, Checkpoint(p) PROVE TypeOK'
  <2>1. [Mine(p) EXCEPT !.manifest = verdict[p], !.checkpoint = Mine(p).head] \in ProofRoot
    BY <1>1 DEF ProofRoot, TypeOK
  <2>2. QED
    BY <1>10, <2>1, EventTypeNames DEF Checkpoint, Labels, TypeOK
<1>11. ASSUME NEW p \in Runners, Leave(p), UNCHANGED proof PROVE TypeOK'
  BY <1>11, LeaveTyped DEF TypeOK
<1>12. ASSUME NEW p \in Runners, Raise(p) \/ RecordFailure(p) PROVE TypeOK'
  BY <1>12, EventTypeNames DEF Raise, RecordFailure, Labels, TypeOK
<1>13. ASSUME NEW p \in Runners, RaiseWriting(p) \/ StopWriting(p) PROVE TypeOK'
  <2>1. [Mine(p) EXCEPT !.torn = TRUE] \in ProofRoot
    BY <1>1 DEF ProofRoot
  <2>2. proof' \in [Attempts -> ProofRoot]
    BY <1>13, <2>1 DEF RaiseWriting, StopWriting, TypeOK
  <2>3. CASE RaiseWriting(p)
    BY <2>2, <2>3 DEF RaiseWriting, Labels, TypeOK
  <2>4. CASE StopWriting(p)
    BY <2>2, <2>4, LeaveTyped DEF StopWriting
  <2>5. QED
    BY <1>13, <2>3, <2>4
<1>14. ASSUME NEW a \in Attempts, Delete(a) PROVE TypeOK'
  <2>1. NoProof \in ProofRoot
    BY DEF NoProof, ProofRoot
  <2>2. QED
    BY <1>14, <2>1 DEF Delete, locals, TypeOK
<1>15. CASE UNCHANGED vars
  BY <1>15 DEF vars, TypeOK
<1>16. QED
  BY <1>2, <1>3, <1>4, <1>5, <1>6, <1>7, <1>8, <1>9, <1>10, <1>11, <1>12, <1>13, <1>14, <1>15
  DEF Next, Work, RefuseAttempt, Return, Reraise, MaskFailure, Stop

\* Type correctness of the runs, their receipt and their proof roots.
THEOREM TypeCorrect == Spec => []TypeOK
  BY InitTypeOK, NextTypeOK, PTL DEF Spec
-----------------------------------------------------------------------------
\* Only the holder of the lock is anywhere in a run.
Alone == \A p \in Runners : pc[p] # "idle" => lock = p

\* What a runner may rely on between its preflight and its first append.
Entitled ==
  \A p \in Runners :
    /\ pc[p] \in {"consume", "seal", "start"} => ~Mine(p).root
    /\ pc[p] \in {"consume", "seal"} => attempt[p] = Authorized
    /\ pc[p] = "consume" => receipt = "absent"
    /\ pc[p] = "seal" => receipt = "empty" /\ starts[Authorized] = 0
    /\ pc[p] = "start" /\ attempt[p] = Authorized =>
         receipt # "absent" /\ starts[Authorized] = 0

\* Every execution of attempt_001 is paid for by the receipt, and every execution
\* of attempt_000 left a proof root, there still or deleted.
Accounted ==
  /\ receipt = "absent" => starts[Authorized] = 0
  /\ starts[Authorized] <= 1
  /\ starts["attempt_000"] <= deletions + IF proof["attempt_000"].root THEN 1 ELSE 0

\* The inductive invariant.  NoSecondExecution alone does not survive a step:
\* that the next Start is the first needs what the runner checked under the lock
\* to be still true, which needs the lock to have kept every other runner out.
SingleUse == TypeOK /\ Alone /\ Entitled /\ Accounted

LEMMA InitSingleUse == Init => SingleUse
<1> SUFFICES ASSUME Init PROVE Alone /\ Entitled /\ Accounted
  BY InitTypeOK DEF SingleUse
<1>1. QED
  BY DEF Init, NoProof, Alone, Entitled, Accounted, Attempts, Authorized

\* No write after the first append creates or removes a root.
LEMMA RootsKept ==
  ASSUME TypeOK, NEW p \in Runners,
         \/ AppendLine(p) \/ AppendHead(p) \/ Report(p) \/ Bundle(p)
         \/ Checkpoint(p) \/ RaiseWriting(p) \/ StopWriting(p)
  PROVE  \A a \in Attempts : proof'[a].root = proof[a].root
<1> USE DEF Write
<1>1. Mine(p) \in ProofRoot
  BY DEF TypeOK, Mine
<1>2. ASSUME NEW new, new.root = Mine(p).root, Write(p, new)
      PROVE  \A a \in Attempts : proof'[a].root = proof[a].root
  BY <1>2 DEF TypeOK, Mine
<1>3. CASE AppendLine(p)
  <2>1. [Mine(p) EXCEPT !.events = Append(@, queued[p])].root = Mine(p).root
    BY <1>1 DEF ProofRoot
  <2>2. QED
    BY <1>2, <1>3, <2>1 DEF AppendLine
<1>4. CASE AppendHead(p)
  <2>1. [Mine(p) EXCEPT !.head = Len(Mine(p).events)].root = Mine(p).root
    BY <1>1 DEF ProofRoot
  <2>2. QED
    BY <1>2, <1>4, <2>1 DEF AppendHead
<1>5. CASE Report(p)
  <2>1. [Mine(p) EXCEPT !.report = verdict[p]].root = Mine(p).root
    BY <1>1 DEF ProofRoot
  <2>2. QED
    BY <1>2, <1>5, <2>1 DEF Report
<1>6. CASE Bundle(p)
  <2>1. [Mine(p) EXCEPT !.bundle = TRUE].root = Mine(p).root
    BY <1>1 DEF ProofRoot
  <2>2. QED
    BY <1>2, <1>6, <2>1 DEF Bundle
<1>7. CASE Checkpoint(p)
  <2>1. [Mine(p) EXCEPT !.manifest = verdict[p], !.checkpoint = Mine(p).head].root = Mine(p).root
    BY <1>1 DEF ProofRoot
  <2>2. QED
    BY <1>2, <1>7, <2>1 DEF Checkpoint
<1>8. CASE RaiseWriting(p) \/ StopWriting(p)
  <2>1. [Mine(p) EXCEPT !.torn = TRUE].root = Mine(p).root
    BY <1>1 DEF ProofRoot
  <2>2. QED
    BY <1>2, <1>8, <2>1 DEF RaiseWriting, StopWriting
<1>9. QED
  BY <1>3, <1>4, <1>5, <1>6, <1>7, <1>8

\* A step that only moves a runner past its first append keeps the invariant ...
LEMMA LaterStep ==
  ASSUME SingleUse, TypeOK', NEW p \in Runners, NEW label, pc[p] # "idle",
         label \notin {"consume", "seal", "start"}, Goto(p, label),
         UNCHANGED <<lock, receipt, attempt, starts, deletions>>,
         \A a \in Attempts : proof'[a].root = proof[a].root
  PROVE  SingleUse'
<1>1. Alone'
  BY DEF SingleUse, TypeOK, Alone, Goto
<1>2. Entitled'
  BY DEF SingleUse, TypeOK, Alone, Entitled, Goto, Mine
<1>3. Accounted'
  BY DEF SingleUse, Accounted, Attempts, Authorized
<1>4. QED
  BY <1>1, <1>2, <1>3 DEF SingleUse

\* ... and so does one that ends a run and keeps the roots.
LEMMA LastStep ==
  ASSUME SingleUse, TypeOK', NEW p \in Runners, pc[p] # "idle", Leave(p),
         \A a \in Attempts : proof'[a].root = proof[a].root
  PROVE  SingleUse'
<1>1. \A q \in Runners : q # p => pc[q] = "idle"
  BY DEF SingleUse, Alone
<1>2. \A q \in Runners : pc'[q] = "idle"
  BY <1>1 DEF SingleUse, TypeOK, Leave
<1>3. Alone' /\ Entitled'
  BY <1>2 DEF Alone, Entitled
<1>4. Accounted'
  BY DEF SingleUse, Accounted, Leave, Attempts, Authorized
<1>5. QED
  BY <1>3, <1>4 DEF SingleUse

LEMMA NextSingleUse == SingleUse /\ [Next]_vars => SingleUse'
<1> SUFFICES ASSUME SingleUse, [Next]_vars PROVE SingleUse'
  OBVIOUS
<1>0. TypeOK /\ TypeOK'
  BY NextTypeOK DEF SingleUse
<1>1. ASSUME NEW p \in Runners, NEW a \in Attempts, Begin(p, a) PROVE SingleUse'
  <2>1. \A q \in Runners : pc[q] = "idle"
    BY <1>1, RunAssumption DEF Begin, SingleUse, Alone
  <2>2. \A q \in Runners : pc'[q] = IF q = p THEN "preflight" ELSE "idle"
    BY <1>0, <1>1, <2>1 DEF Begin, Goto, TypeOK
  <2>3. Alone' /\ Entitled'
    BY <1>1, <2>2 DEF Begin, Alone, Entitled
  <2>4. Accounted'
    BY <1>1 DEF Begin, SingleUse, Accounted
  <2>5. QED
    BY <1>0, <2>3, <2>4 DEF SingleUse
<1>2. ASSUME NEW p \in Runners, PassPreflight(p) PROVE SingleUse'
  <2>1. \A q \in Runners : q # p => pc[q] = "idle"
    BY <1>2 DEF PassPreflight, SingleUse, Alone
  <2>2. \A q \in Runners : q # p => pc'[q] = "idle"
    BY <1>0, <1>2, <2>1 DEF PassPreflight, Goto, TypeOK
  <2>3. pc'[p] = IF attempt[p] = Authorized THEN "consume" ELSE "start"
    BY <1>0, <1>2 DEF PassPreflight, Goto, TypeOK
  <2>4. Alone'
    BY <1>2, <2>2 DEF PassPreflight, SingleUse, Alone
  <2>5. Entitled'
    BY <1>2, <2>2, <2>3 DEF PassPreflight, Fresh, Entitled, Mine
  <2>6. Accounted'
    BY <1>2 DEF PassPreflight, SingleUse, Accounted
  <2>7. QED
    BY <1>0, <2>4, <2>5, <2>6 DEF SingleUse
<1>3. ASSUME NEW p \in Runners, Consume(p) \/ Seal(p) PROVE SingleUse'
  <2>1. \A q \in Runners : q # p => pc[q] = "idle"
    BY <1>3 DEF Consume, Seal, SingleUse, Alone
  <2>2. \A q \in Runners : q # p => pc'[q] = "idle"
    BY <1>0, <1>3, <2>1 DEF Consume, Seal, Goto, TypeOK
  <2>3. pc'[p] = IF pc[p] = "consume" THEN "seal" ELSE "start"
    BY <1>0, <1>3 DEF Consume, Seal, Goto, TypeOK
  <2>4. Alone'
    BY <1>3, <2>2 DEF Consume, Seal, SingleUse, Alone
  <2>5. Entitled'
    BY <1>3, <2>2, <2>3 DEF Consume, Seal, SingleUse, Entitled, Accounted, Mine
  <2>6. Accounted'
    BY <1>3 DEF Consume, Seal, SingleUse, Accounted
  <2>7. QED
    BY <1>0, <2>4, <2>5, <2>6 DEF SingleUse
<1>4. ASSUME NEW p \in Runners, Start(p) PROVE SingleUse'
  <2>1. \A q \in Runners : q # p => pc[q] = "idle"
    BY <1>4 DEF Start, SingleUse, Alone
  <2>2. \A q \in Runners : pc'[q] = IF q = p THEN "line" ELSE "idle"
    BY <1>0, <1>4, <2>1 DEF Start, Queue, Goto, TypeOK
  <2>3. Alone' /\ Entitled'
    BY <1>4, <2>2 DEF Start, SingleUse, Alone, Entitled
  <2>4. Mine(p) \in ProofRoot /\ attempt[p] \in Attempts
    BY <1>0 DEF TypeOK, Mine
  <2>5. proof'[attempt[p]].root
    BY <1>0, <1>4, <2>4 DEF Start, Write, TypeOK, ProofRoot
  <2>6. \A a \in Attempts : a # attempt[p] => proof'[a] = proof[a]
    BY <1>0, <1>4 DEF Start, Write, TypeOK
  <2>7. \A a \in Attempts : starts'[a] = IF a = attempt[p] THEN starts[a] + 1 ELSE starts[a]
    BY <1>0, <1>4 DEF Start, TypeOK
  <2>8. CASE attempt[p] = Authorized
    <3>1. receipt # "absent" /\ starts[Authorized] = 0
      BY <1>4, <2>8 DEF Start, SingleUse, Entitled
    <3>2. starts'[Authorized] = 1 /\ starts'["attempt_000"] = starts["attempt_000"]
      BY <2>7, <2>8, <3>1 DEF Attempts, Authorized
    <3>3. proof'["attempt_000"] = proof["attempt_000"]
      BY <2>6, <2>8 DEF Attempts, Authorized
    <3>4. Accounted'
      BY <1>4, <3>1, <3>2, <3>3 DEF Start, SingleUse, Accounted
    <3>5. QED
      BY <1>0, <2>3, <3>4 DEF SingleUse
  <2>9. CASE attempt[p] = "attempt_000"
    <3>1. ~proof["attempt_000"].root
      BY <1>4, <2>9 DEF Start, SingleUse, Entitled, Mine
    <3>2. starts \in [Attempts -> Nat] /\ deletions \in Nat
      BY <1>0 DEF TypeOK
    <3>3. starts'["attempt_000"] = starts["attempt_000"] + 1
      BY <2>7, <2>9 DEF Attempts
    <3>4. starts'[Authorized] = starts[Authorized]
      BY <2>7, <2>9 DEF Attempts, Authorized
    <3>5. starts'["attempt_000"] <= deletions' + IF proof'["attempt_000"].root THEN 1 ELSE 0
      BY <1>4, <2>5, <2>9, <3>1, <3>2, <3>3 DEF Start, SingleUse, Accounted, Attempts
    <3>6. QED
      BY <1>0, <1>4, <2>3, <3>4, <3>5 DEF Start, SingleUse, Accounted
  <2>10. QED
    BY <2>4, <2>8, <2>9 DEF Attempts, Authorized
<1>5. ASSUME NEW p \in Runners,
             AppendLine(p) \/ AppendHead(p) \/ Report(p) \/ Bundle(p)
               \/ Checkpoint(p) \/ RaiseWriting(p)
      PROVE  SingleUse'
  <2>1. \A a \in Attempts : proof'[a].root = proof[a].root
    BY <1>0, <1>5, RootsKept
  <2>2. After(queued[p]) \notin {"consume", "seal", "start"}
    BY <1>0, EventTypeNames DEF After, TypeOK
  <2>3. QED
    BY <1>0, <1>5, <2>1, <2>2, LaterStep
    DEF AppendLine, AppendHead, Report, Bundle, Checkpoint, RaiseWriting, Queue
<1>6. ASSUME NEW p \in Runners, Fetch(p) \/ Ingest(p) PROVE SingleUse'
  BY <1>0, <1>6, LaterStep DEF Fetch, Ingest, Stage, Queue
<1>7. ASSUME NEW p \in Runners, Audit(p) PROVE SingleUse'
  BY <1>0, <1>7, LaterStep DEF Audit
<1>8. ASSUME NEW p \in Runners, Raise(p) \/ RecordFailure(p) PROVE SingleUse'
  BY <1>0, <1>8, LaterStep DEF Raise, InTry, RecordFailure, Queue
<1>9. ASSUME NEW p \in Runners,
             RefuseAttempt(p) \/ Return(p) \/ Reraise(p) \/ MaskFailure(p) \/ Stop(p)
      PROVE  SingleUse'
  BY <1>0, <1>9, LastStep DEF RefuseAttempt, Return, Reraise, MaskFailure, Stop
<1>10. ASSUME NEW p \in Runners, StopWriting(p) PROVE SingleUse'
  BY <1>0, <1>10, RootsKept, LastStep DEF StopWriting
<1>11. ASSUME NEW a \in Attempts, Delete(a) PROVE SingleUse'
  <2>1. \A q \in Runners : pc[q] = "idle"
    BY <1>11, RunAssumption DEF Delete, SingleUse, Alone
  <2>2. Alone' /\ Entitled'
    BY <1>11, <2>1 DEF Delete, locals, Alone, Entitled
  <2>3. proof' = [proof EXCEPT ![a] = NoProof] /\ proof[a].root /\ ~NoProof.root
    BY <1>11 DEF Delete, NoProof
  <2>4. proof \in [Attempts -> ProofRoot] /\ deletions \in Nat /\ starts \in [Attempts -> Nat]
    BY <1>0 DEF TypeOK
  <2>5. starts'["attempt_000"] <= deletions' + IF proof'["attempt_000"].root THEN 1 ELSE 0
    <3>1. deletions' = deletions + 1 /\ starts' = starts
      BY <1>11 DEF Delete
    <3>2. CASE a = "attempt_000"
      BY <2>3, <2>4, <3>1, <3>2 DEF SingleUse, Accounted, Attempts
    <3>3. CASE a # "attempt_000"
      BY <2>3, <2>4, <3>1, <3>3 DEF SingleUse, Accounted, Attempts
    <3>4. QED
      BY <3>2, <3>3
  <2>6. Accounted'
    BY <1>11, <2>5 DEF Delete, SingleUse, Accounted
  <2>7. QED
    BY <1>0, <2>2, <2>6 DEF SingleUse
<1>12. CASE UNCHANGED vars
  BY <1>0, <1>12 DEF vars, SingleUse, Alone, Entitled, Accounted, Mine
<1>13. QED
  BY <1>1, <1>2, <1>3, <1>4, <1>5, <1>6, <1>7, <1>8, <1>9, <1>10, <1>11, <1>12 DEF Next, Work

\* However runs interleave, crash and retry, attempt_001 is executed at most once
\* and attempt_000 at most once more than its proof root was deleted.
THEOREM ExecutionsAreSingle == Spec => []NoSecondExecution
<1>1. SingleUse => NoSecondExecution
  BY DEF SingleUse, TypeOK, Accounted, NoSecondExecution, Attempts, Authorized
<1>2. QED
  BY <1>1, InitSingleUse, NextSingleUse, PTL DEF Spec

-----------------------------------------------------------------------------
LEMMA InitAuthority == Init => Authority!Init
  BY DEF Init, NoProof, Authority!Init, Attempts, Authorized

LEMMA NextAuthority == SingleUse /\ [Next]_vars => [Authority!Next]_(Authority!vars)
<1> SUFFICES ASSUME SingleUse, [Next]_vars PROVE [Authority!Next]_(Authority!vars)
  OBVIOUS
<1> USE DEF Authority!vars
<1>0. TypeOK /\ Authorized \in Attempts
  BY DEF SingleUse, Attempts, Authorized
<1>1. ASSUME UNCHANGED <<receipt, starts>>, proof'[Authorized].root = proof[Authorized].root
      PROVE  UNCHANGED Authority!vars
  BY <1>1
<1>2. ASSUME NEW p \in Runners, Consume(p) PROVE Authority!Consume
  BY <1>2 DEF Consume, Authority!Consume
<1>3. ASSUME NEW p \in Runners, Seal(p) PROVE UNCHANGED Authority!vars
  BY <1>3 DEF Seal, SingleUse, Entitled
<1>4. ASSUME NEW p \in Runners, Start(p) PROVE [Authority!Next]_(Authority!vars)
  <2>1. CASE attempt[p] = Authorized
    <3>1. receipt # "absent" /\ starts[Authorized] = 0
      BY <1>4, <2>1 DEF Start, SingleUse, Entitled
    <3>2. starts'[Authorized] = 1
      BY <1>0, <1>4, <2>1, <3>1 DEF Start, TypeOK
    <3>3. Mine(p) \in ProofRoot
      BY <1>0 DEF TypeOK, Mine
    <3>4. proof'[Authorized].root = TRUE
      BY <1>0, <1>4, <2>1, <3>3 DEF Start, Write, TypeOK, ProofRoot
    <3>5. Authority!Execute
      BY <1>4, <3>1, <3>2, <3>4 DEF Start, Authority!Execute
    <3>6. QED
      BY <3>5 DEF Authority!Next
  <2>2. CASE attempt[p] # Authorized
    <3>1. proof'[Authorized] = proof[Authorized] /\ starts'[Authorized] = starts[Authorized]
      BY <1>0, <1>4, <2>2 DEF Start, Write, TypeOK
    <3>2. QED
      BY <1>4, <3>1 DEF Start
  <2>3. QED
    BY <2>1, <2>2
<1>5. ASSUME NEW p \in Runners,
             \/ AppendLine(p) \/ AppendHead(p) \/ Report(p) \/ Bundle(p)
             \/ Checkpoint(p) \/ RaiseWriting(p) \/ StopWriting(p)
      PROVE  UNCHANGED Authority!vars
  <2>1. proof'[Authorized].root = proof[Authorized].root
    BY <1>0, <1>5, RootsKept
  <2>2. QED
    BY <1>1, <1>5, <2>1
    DEF AppendLine, AppendHead, Report, Bundle, Checkpoint, RaiseWriting, StopWriting, Leave
<1>6. ASSUME NEW a \in Attempts, Delete(a) PROVE [Authority!Next]_(Authority!vars)
  <2>1. CASE a = Authorized
    <3>1. proof'[Authorized].root = FALSE
      BY <1>0, <1>6, <2>1 DEF Delete, NoProof, TypeOK
    <3>2. Authority!Discard
      BY <1>6, <3>1 DEF Delete, Authority!Discard
    <3>3. QED
      BY <3>2 DEF Authority!Next
  <2>2. CASE a # Authorized
    <3>1. proof'[Authorized] = proof[Authorized]
      BY <1>0, <1>6, <2>2 DEF Delete, TypeOK
    <3>2. QED
      BY <1>6, <3>1 DEF Delete
  <2>3. QED
    BY <2>1, <2>2
<1>7. CASE UNCHANGED <<receipt, starts, proof>>
  BY <1>1, <1>7
<1>8. ASSUME NEW p \in Runners,
             \/ \E a \in Attempts : Begin(p, a)
             \/ PassPreflight(p) \/ RefuseAttempt(p) \/ Fetch(p) \/ Ingest(p) \/ Audit(p)
             \/ Return(p) \/ Reraise(p) \/ RecordFailure(p) \/ MaskFailure(p)
             \/ Raise(p) \/ Stop(p)
      PROVE  UNCHANGED <<receipt, starts, proof>>
  BY <1>8 DEF Begin, PassPreflight, RefuseAttempt, Fetch, Ingest, Audit, Stage, Return,
              Reraise, RecordFailure, MaskFailure, Raise, Stop, Leave
<1>9. CASE UNCHANGED vars
  BY <1>7, <1>9 DEF vars
<1>10. QED
  BY <1>2, <1>3, <1>4, <1>5, <1>6, <1>7, <1>8, <1>9 DEF Next, Work, Authority!Next

\* The runs implement the one-shot authority: the receipt is created before the
\* proof root, pays for one execution, and nothing brings it back.
THEOREM RunsImplementAuthority == Spec => AuthorityIsOneShot
<1>1. Spec => Authority!Init
  BY InitAuthority DEF Spec
<1>2. Spec => [][Authority!Next]_(Authority!vars)
  BY InitSingleUse, NextSingleUse, NextAuthority, PTL DEF Spec
<1>3. QED
  BY <1>1, <1>2 DEF AuthorityIsOneShot, Authority!Spec

-----------------------------------------------------------------------------
\* What a proof root says at any time, and what a runner knows of its own root.
Said(P, t) == \E i \in 1..Len(P.events) : P.events[i] = t
Invalid == {"source-invalid", "ingestion-invalid"}
SaidInvalid(P) == \E t \in Invalid : Said(P, t)
Terminal == {"run-completed", "run-failed"}

\* A root that is gone left nothing; an event that ends a ledger is its last; a
\* completion and an invalid outcome are backed by the files beside the ledger.
Sound(P) ==
  /\ ~P.root => P = NoProof
  /\ \A i \in 1..Len(P.events) : P.events[i] \in Terminal => i = Len(P.events)
  /\ Said(P, "run-completed") =>
       /\ P.bundle
       /\ P.manifest = P.report /\ P.report \in Verdicts
       /\ P.checkpoint = Len(P.events) - 1
  /\ SaidInvalid(P) => {P.report, P.manifest} \subseteq {"none", "INVALID"}

\* Where a run has not written its proof root, where it has not reached a verdict,
\* where it has one, where it has reported it, and where it has not completed: a
\* place in the program is a label and the event being appended.
Outside == {"idle", "preflight", "consume", "seal", "start"}
Undecided(l, t) ==
  \/ l \in {"fetch", "ingest", "audit"}
  \/ l = "line" /\ t \in {"run-started", "sources-verified", "dataset-ingested"} \cup Invalid
  \/ l = "head" /\ t \in {"run-started", "sources-verified", "dataset-ingested"}
Decided(l, t) ==
  \/ l \in {"finalize", "bundle", "checkpoint"}
  \/ l \in {"line", "head"} /\ t = "readiness-adjudicated"
  \/ l = "line" /\ t = "run-completed"
Reported(l, t) == Decided(l, t) /\ l # "finalize"
Unfinished(l, t) ==
  \/ l \in {"fetch", "ingest", "audit", "finalize", "bundle", "checkpoint"}
  \/ l = "head" /\ t # "run-completed"

\* What a run at this place, with this verdict, may rely on in its proof root.
Grounded(P, l, t, v) ==
  /\ l \notin Outside => P.root
  /\ Undecided(l, t) => ~SaidInvalid(P) /\ P.report = "none" /\ P.manifest = "none"
  /\ l \in {"line", "head"} /\ t \in Invalid => v = "INVALID"
  /\ Decided(l, t) => v \in Verdicts /\ (SaidInvalid(P) => v = "INVALID")
  /\ Reported(l, t) => P.report = v
  /\ l = "checkpoint" => P.bundle
  /\ l = "line" /\ t = "run-completed" =>
       P.bundle /\ P.manifest = v /\ P.checkpoint = Len(P.events)
  /\ Unfinished(l, t) => ~Said(P, "run-completed")

\* The inductive invariant: CompletionIsBacked and InvalidIsFinal say what a ledger
\* and the files beside it agree on, and a run writes them one at a time.
Backed ==
  /\ SingleUse
  /\ \A a \in Attempts : Sound(proof[a])
  /\ \A p \in Runners : Grounded(Mine(p), pc[p], queued[p], verdict[p])

\* A runner that is not in a run relies on nothing.
LEMMA RestingGrounded ==
  ASSUME NEW P, NEW t, NEW v, NEW l \in Outside \cup {"preflight", "failing", "leave", "verify"},
         l \notin Outside => P.root
  PROVE  Grounded(P, l, t, v)
  BY DEF Outside, Grounded, Undecided, Decided, Reported, Unfinished

LEMMA InitBacked == Init => Backed
<1> SUFFICES ASSUME Init PROVE Backed
  OBVIOUS
<1>1. SingleUse
  BY InitSingleUse
<1>2. \A a \in Attempts : proof[a] = NoProof
  BY DEF Init
<1>3. Sound(NoProof)
  BY DEF Sound, Said, SaidInvalid, NoProof
<1>4. \A p \in Runners : pc[p] = "idle"
  BY DEF Init
<1>5. \A p \in Runners : Grounded(Mine(p), pc[p], queued[p], verdict[p])
  BY <1>4, RestingGrounded DEF Outside
<1>6. QED
  BY <1>1, <1>2, <1>3, <1>5 DEF Backed

\* The lock keeps every other runner at rest, so a step of one runner has to answer
\* for its own root and its own place only.
LEMMA OwnStep ==
  ASSUME Backed, SingleUse', NEW p \in Runners, pc[p] # "idle",
         \A q \in Runners : q # p => pc'[q] = pc[q],
         UNCHANGED attempt,
         \A a \in Attempts : a # attempt[p] => proof'[a] = proof[a],
         Sound(proof'[attempt[p]]),
         Grounded(proof'[attempt[p]], pc'[p], queued'[p], verdict'[p])
  PROVE  Backed'
<1>1. \A a \in Attempts : Sound(proof'[a])
  BY DEF Backed
<1>2. \A q \in Runners : q # p => pc'[q] = "idle"
  BY DEF Backed, SingleUse, Alone
<1>3. \A q \in Runners : Grounded(proof'[attempt'[q]], pc'[q], queued'[q], verdict'[q])
  <2> TAKE q \in Runners
  <2>1. CASE q = p
    BY <2>1
  <2>2. CASE q # p
    BY <1>2, <2>2, RestingGrounded DEF Outside
  <2>3. QED
    BY <2>1, <2>2
<1>4. QED
  BY <1>1, <1>3 DEF Backed, Mine

\* A step that writes nothing has to answer for its place only ...
LEMMA MoveStep ==
  ASSUME Backed, SingleUse', NEW p \in Runners, pc[p] # "idle",
         NEW label, Goto(p, label), UNCHANGED <<proof, attempt>>,
         Grounded(Mine(p), label, queued'[p], verdict'[p])
  PROVE  Backed'
<1>1. TypeOK
  BY DEF Backed, SingleUse
<1>2. pc'[p] = label /\ \A q \in Runners : q # p => pc'[q] = pc[q]
  BY <1>1 DEF Goto, TypeOK
<1>3. attempt[p] \in Attempts /\ Sound(Mine(p))
  BY <1>1 DEF TypeOK, Backed, Mine
<1>4. QED
  BY <1>2, <1>3, OwnStep DEF Mine

\* ... and one that writes, for what it wrote.
LEMMA WriteStep ==
  ASSUME Backed, SingleUse', NEW p \in Runners, pc[p] # "idle",
         NEW label, Goto(p, label), NEW new, Write(p, new), UNCHANGED attempt,
         Sound(new), Grounded(new, label, queued'[p], verdict'[p])
  PROVE  Backed'
<1>1. TypeOK
  BY DEF Backed, SingleUse
<1>2. pc'[p] = label /\ \A q \in Runners : q # p => pc'[q] = pc[q]
  BY <1>1 DEF Goto, TypeOK
<1>3. proof'[attempt[p]] = new /\ \A a \in Attempts : a # attempt[p] => proof'[a] = proof[a]
  BY <1>1 DEF Write, TypeOK
<1>4. QED
  BY <1>2, <1>3, OwnStep

\* A step that ends a run leaves every runner at rest.
LEMMA EndStep ==
  ASSUME Backed, SingleUse', NEW p \in Runners, pc[p] # "idle", Leave(p),
         \A a \in Attempts : Sound(proof'[a])
  PROVE  Backed'
<1>1. \A q \in Runners : pc'[q] = "idle"
  BY DEF Backed, SingleUse, TypeOK, Alone, Leave
<1>2. \A q \in Runners : Grounded(proof'[attempt'[q]], pc'[q], queued'[q], verdict'[q])
  BY <1>1, RestingGrounded DEF Outside
<1>3. QED
  BY <1>2 DEF Backed, Mine

\* An event is said once it is appended, and nothing else is.
LEMMA SaidAppend ==
  ASSUME NEW P \in ProofRoot, NEW Q, NEW t \in EventTypes, Q.events = Append(P.events, t)
  PROVE  /\ Len(Q.events) = Len(P.events) + 1
         /\ Q.events[Len(Q.events)] = t
         /\ \A i \in 1..Len(P.events) : Q.events[i] = P.events[i]
         /\ \A u : Said(Q, u) <=> Said(P, u) \/ u = t
<1>1. P.events \in Seq(EventTypes)
  BY DEF ProofRoot
<1>2. /\ Len(Q.events) = Len(P.events) + 1 /\ Len(P.events) \in Nat
      /\ Q.events[Len(P.events) + 1] = t
      /\ \A i \in 1..Len(P.events) : Q.events[i] = P.events[i]
  BY <1>1
<1>3. 1..Len(Q.events) = 1..Len(P.events) \cup {Len(P.events) + 1}
  BY <1>2
<1>4. ASSUME NEW u PROVE Said(Q, u) <=> Said(P, u) \/ u = t
  BY <1>2, <1>3 DEF Said
<1>5. QED
  BY <1>2, <1>4

\* Files that do not change what the ledger says keep a root sound.
LEMMA SaidKept ==
  ASSUME NEW P, NEW Q, Q.events = P.events
  PROVE  /\ \A t : Said(Q, t) <=> Said(P, t)
         /\ SaidInvalid(Q) <=> SaidInvalid(P)
  BY DEF Said, SaidInvalid

\* An event a sound ledger admits ends no ledger that was already ended.
LEMMA AdmittedIsOpen ==
  ASSUME NEW P \in ProofRoot, Sound(P), NEW t, Admissible(P.events, t)
  PROVE  \A u \in Terminal : ~Said(P, u)
<1>1. P.events \in Seq(EventTypes)
  BY DEF ProofRoot
<1>2. SUFFICES ASSUME NEW i \in 1..Len(P.events), P.events[i] \in Terminal PROVE FALSE
  BY DEF Said
<1>3. i = Len(P.events) /\ P.events # <<>>
  BY <1>1, <1>2 DEF Sound
<1>4. t \in Transitions[P.events[i]]
  BY <1>3 DEF Admissible
<1>5. QED
  BY <1>2, <1>4 DEF Terminal, Transitions

LEMMA LineBacked ==
  ASSUME Backed, SingleUse', NEW p \in Runners, AppendLine(p)
  PROVE  Backed'
<1> DEFINE P == Mine(p)
           t == queued[p]
           new == [P EXCEPT !.events = Append(P.events, t)]
<1>1. P \in ProofRoot /\ t \in EventTypes /\ attempt[p] \in Attempts
  BY DEF Backed, SingleUse, TypeOK, Mine
<1>2. /\ new.events = Append(P.events, t) /\ new.root = P.root /\ new.bundle = P.bundle
      /\ new.report = P.report /\ new.manifest = P.manifest /\ new.checkpoint = P.checkpoint
  BY <1>1 DEF ProofRoot
<1>3. Sound(P) /\ Grounded(P, "line", t, verdict[p])
  BY <1>1 DEF Backed, Mine, AppendLine
<1> HIDE DEF P, t, new
<1>4. /\ Len(new.events) = Len(P.events) + 1
      /\ new.events[Len(new.events)] = t
      /\ \A i \in 1..Len(P.events) : new.events[i] = P.events[i]
      /\ \A u : Said(new, u) <=> Said(P, u) \/ u = t
  BY <1>1, <1>2, SaidAppend
<1>5. SaidInvalid(new) <=> SaidInvalid(P) \/ t \in Invalid
  BY <1>4 DEF SaidInvalid
<1>6. \A u \in Terminal : ~Said(P, u)
  BY <1>1, <1>3, AdmittedIsOpen DEF AppendLine, CanAppend, P, t
<1>7. Len(P.events) \in Nat
  BY <1>1 DEF ProofRoot
<1>8. P.root
  BY <1>3 DEF Grounded, Outside
<1>9. Sound(new)
  <2>1. \A i \in 1..Len(new.events) : new.events[i] \in Terminal => i = Len(new.events)
    BY <1>4, <1>6, <1>7 DEF Said
  <2>2. Said(new, "run-completed") => t = "run-completed"
    BY <1>4, <1>6 DEF Terminal
  <2>3. t = "run-completed" =>
          /\ new.bundle /\ new.manifest = new.report /\ new.report \in Verdicts
          /\ new.checkpoint = Len(new.events) - 1
    BY <1>2, <1>3, <1>4, <1>7 DEF Grounded, Decided, Reported
  <2>4. SaidInvalid(new) => {new.report, new.manifest} \subseteq {"none", "INVALID"}
    <3>1. CASE SaidInvalid(P)
      BY <1>2, <1>3, <3>1 DEF Sound
    <3>2. CASE t \in Invalid
      BY <1>2, <1>3, <3>2 DEF Grounded, Undecided
    <3>3. QED
      BY <1>5, <3>1, <3>2
  <2>5. QED
    BY <1>2, <1>8, <2>1, <2>2, <2>3, <2>4 DEF Sound
<1>10. Grounded(new, "head", t, verdict[p])
  <2>1. Undecided("head", t) => ~SaidInvalid(new) /\ new.report = "none" /\ new.manifest = "none"
    BY <1>2, <1>3, <1>5 DEF Grounded, Undecided, Invalid
  <2>2. Decided("head", t) => verdict[p] \in Verdicts /\ (SaidInvalid(new) => verdict[p] = "INVALID")
    BY <1>3, <1>5 DEF Grounded, Decided, Invalid
  <2>3. Reported("head", t) => new.report = verdict[p]
    BY <1>2, <1>3 DEF Grounded, Decided, Reported
  <2>4. Unfinished("head", t) => ~Said(new, "run-completed")
    BY <1>4, <1>6 DEF Unfinished, Terminal
  <2>5. t \in Invalid => verdict[p] = "INVALID"
    BY <1>3 DEF Grounded
  <2>6. QED
    BY <1>2, <1>8, <2>1, <2>2, <2>3, <2>4, <2>5 DEF Grounded
<1>11. QED
  BY <1>9, <1>10, WriteStep DEF AppendLine, P, t, new

LEMMA HeadBacked ==
  ASSUME Backed, SingleUse', NEW p \in Runners, AppendHead(p)
  PROVE  Backed'
<1> DEFINE P == Mine(p)
           t == queued[p]
           new == [P EXCEPT !.head = Len(P.events)]
<1>1. P \in ProofRoot /\ t \in EventTypes /\ attempt[p] \in Attempts
  BY DEF Backed, SingleUse, TypeOK, Mine
<1>2. /\ new.events = P.events /\ new.root = P.root /\ new.bundle = P.bundle
      /\ new.report = P.report /\ new.manifest = P.manifest /\ new.checkpoint = P.checkpoint
  BY <1>1 DEF ProofRoot
<1>3. Sound(P) /\ Grounded(P, "head", t, verdict[p])
  BY <1>1 DEF Backed, Mine, AppendHead
<1> HIDE DEF P, t, new
<1>4. P.root /\ new.root
  BY <1>2, <1>3 DEF Grounded, Outside
<1>5. (\A u : Said(new, u) <=> Said(P, u)) /\ (SaidInvalid(new) <=> SaidInvalid(P))
  BY <1>2, SaidKept
<1>6. Sound(new)
  BY <1>2, <1>3, <1>4, <1>5 DEF Sound
<1>7. Grounded(new, After(t), t, verdict[p])
  <2>1. CASE t \in {"run-started", "sources-verified", "dataset-ingested"}
    <3>1. After(t) \in {"fetch", "ingest", "audit"}
      BY <2>1 DEF After
    <3>2. ~SaidInvalid(new) /\ new.report = "none" /\ new.manifest = "none"
      BY <1>2, <1>3, <1>5, <2>1 DEF Grounded, Undecided
    <3>3. ~Said(new, "run-completed")
      BY <1>3, <1>5, <2>1 DEF Grounded, Unfinished
    <3>4. QED
      BY <1>4, <3>1, <3>2, <3>3 DEF Grounded, Decided, Reported
  <2>2. CASE t \in Invalid
    <3>1. After(t) = "finalize"
      BY <2>2 DEF After, Invalid
    <3>2. verdict[p] = "INVALID"
      BY <1>3, <2>2 DEF Grounded
    <3>3. ~Said(new, "run-completed")
      BY <1>3, <1>5, <2>2 DEF Grounded, Unfinished, Invalid
    <3>4. QED
      BY <1>4, <3>1, <3>2, <3>3 DEF Grounded, Undecided, Reported, Verdicts
  <2>3. CASE t = "readiness-adjudicated"
    <3>1. After(t) = "bundle"
      BY <2>3 DEF After
    <3>2. new.report = verdict[p] /\ verdict[p] \in Verdicts
      BY <1>2, <1>3, <2>3 DEF Grounded, Reported, Decided
    <3>3. SaidInvalid(new) => verdict[p] = "INVALID"
      BY <1>3, <1>5, <2>3 DEF Grounded, Decided
    <3>4. ~Said(new, "run-completed")
      BY <1>3, <1>5, <2>3 DEF Grounded, Unfinished
    <3>5. QED
      BY <1>4, <3>1, <3>2, <3>3, <3>4 DEF Grounded, Undecided
  <2>4. CASE t \in Terminal
    <3>1. After(t) \in {"verify", "leave"}
      BY <2>4 DEF After, Terminal
    <3>2. QED
      BY <1>4, <3>1, RestingGrounded
  <2>5. QED
    BY <1>1, <2>1, <2>2, <2>3, <2>4, EventTypeNames DEF Invalid, Terminal
<1>8. QED
  BY <1>6, <1>7, WriteStep DEF AppendHead, P, t, new

LEMMA FilesBacked ==
  ASSUME Backed, SingleUse', NEW p \in Runners, Start(p) \/ Report(p) \/ Bundle(p) \/ Checkpoint(p)
  PROVE  Backed'
<1>0. /\ Mine(p) \in ProofRoot /\ attempt[p] \in Attempts
      /\ queued \in [Runners -> EventTypes]
      /\ Sound(Mine(p)) /\ Grounded(Mine(p), pc[p], queued[p], verdict[p])
  BY DEF Backed, SingleUse, TypeOK, Mine
<1>1. CASE Start(p)
  <2> DEFINE new == [Mine(p) EXCEPT !.root = TRUE]
  <2>1. Mine(p) = NoProof
    BY <1>0, <1>1 DEF Start, Backed, SingleUse, Entitled, Sound
  <2>2. new = [NoProof EXCEPT !.root = TRUE]
    BY <2>1
  <2>3. /\ new.root /\ new.events = <<>> /\ new.report = "none" /\ new.manifest = "none"
    BY <2>2 DEF NoProof
  <2> HIDE DEF new
  <2>4. Sound(new) /\ ~SaidInvalid(new) /\ ~Said(new, "run-completed")
    BY <2>3 DEF Sound, Said, SaidInvalid
  <2>5. Grounded(new, "line", "run-started", verdict[p])
    BY <2>3, <2>4 DEF Grounded, Decided, Reported, Unfinished, Invalid
  <2>6. queued'[p] = "run-started" /\ verdict' = verdict
    BY <1>0, <1>1 DEF Start, Queue
  <2>7. QED
    BY <1>1, <2>4, <2>5, <2>6, WriteStep DEF Start, Queue, new
<1>2. CASE Report(p)
  <2> DEFINE P == Mine(p)
             new == [P EXCEPT !.report = verdict[p]]
  <2>1. /\ new.events = P.events /\ new.root = P.root /\ new.bundle = P.bundle
        /\ new.report = verdict[p] /\ new.manifest = P.manifest
        /\ new.checkpoint = P.checkpoint
    BY <1>0 DEF ProofRoot
  <2>2. Sound(P) /\ Grounded(P, "finalize", queued[p], verdict[p])
    BY <1>0, <1>2 DEF Report
  <2> HIDE DEF P, new
  <2>3. (\A u : Said(new, u) <=> Said(P, u)) /\ (SaidInvalid(new) <=> SaidInvalid(P))
    BY <2>1, SaidKept
  <2>4. /\ P.root /\ ~Said(P, "run-completed")
        /\ verdict[p] \in Verdicts /\ (SaidInvalid(P) => verdict[p] = "INVALID")
    BY <2>2 DEF Grounded, Outside, Unfinished, Decided
  <2>5. Sound(new)
    BY <2>1, <2>2, <2>3, <2>4 DEF Sound
  <2>6. Grounded(new, "line", "readiness-adjudicated", verdict[p])
    BY <2>1, <2>3, <2>4 DEF Grounded, Undecided, Unfinished, Invalid
  <2>7. queued'[p] = "readiness-adjudicated" /\ verdict' = verdict
    BY <1>0, <1>2 DEF Report, Queue
  <2>8. QED
    BY <1>2, <2>5, <2>6, <2>7, WriteStep DEF Report, Queue, P, new
<1>3. CASE Bundle(p)
  <2> DEFINE P == Mine(p)
             new == [P EXCEPT !.bundle = TRUE]
  <2>1. /\ new.events = P.events /\ new.root = P.root /\ new.bundle
        /\ new.report = P.report /\ new.manifest = P.manifest
        /\ new.checkpoint = P.checkpoint
    BY <1>0 DEF ProofRoot
  <2>2. Sound(P) /\ Grounded(P, "bundle", queued[p], verdict[p])
    BY <1>0, <1>3 DEF Bundle
  <2> HIDE DEF P, new
  <2>3. (\A u : Said(new, u) <=> Said(P, u)) /\ (SaidInvalid(new) <=> SaidInvalid(P))
    BY <2>1, SaidKept
  <2>4. P.root /\ ~Said(P, "run-completed")
    BY <2>2 DEF Grounded, Outside, Unfinished
  <2>5. Sound(new)
    BY <2>1, <2>2, <2>3, <2>4 DEF Sound
  <2>6. Grounded(new, "checkpoint", queued[p], verdict[p])
    BY <2>1, <2>2, <2>3, <2>4 DEF Grounded, Decided, Reported, Undecided
  <2>7. QED
    BY <1>3, <2>5, <2>6, WriteStep DEF Bundle, P, new
<1>4. CASE Checkpoint(p)
  <2> DEFINE P == Mine(p)
             new == [P EXCEPT !.manifest = verdict[p], !.checkpoint = P.head]
  <2>1. /\ new.events = P.events /\ new.root = P.root /\ new.bundle = P.bundle
        /\ new.report = P.report /\ new.manifest = verdict[p]
        /\ new.checkpoint = Len(P.events)
    BY <1>0, <1>4 DEF ProofRoot, Checkpoint
  <2>2. Sound(P) /\ Grounded(P, "checkpoint", queued[p], verdict[p])
    BY <1>0, <1>4 DEF Checkpoint
  <2> HIDE DEF P, new
  <2>3. (\A u : Said(new, u) <=> Said(P, u)) /\ (SaidInvalid(new) <=> SaidInvalid(P))
    BY <2>1, SaidKept
  <2>4. /\ P.root /\ P.bundle /\ ~Said(P, "run-completed") /\ P.report = verdict[p]
        /\ verdict[p] \in Verdicts /\ (SaidInvalid(P) => verdict[p] = "INVALID")
    BY <2>2 DEF Grounded, Outside, Unfinished, Decided, Reported
  <2>5. Sound(new)
    BY <2>1, <2>2, <2>3, <2>4 DEF Sound
  <2>6. Grounded(new, "line", "run-completed", verdict[p])
    BY <2>1, <2>3, <2>4 DEF Grounded, Undecided, Unfinished, Invalid
  <2>7. queued'[p] = "run-completed" /\ verdict' = verdict
    BY <1>0, <1>4 DEF Checkpoint, Queue
  <2>8. QED
    BY <1>4, <2>5, <2>6, <2>7, WriteStep DEF Checkpoint, Queue, P, new
<1>5. QED
  BY <1>1, <1>2, <1>3, <1>4

LEMMA StageBacked ==
  ASSUME Backed, SingleUse', NEW p \in Runners, Fetch(p) \/ Ingest(p)
  PROVE  Backed'
<1>0. /\ Grounded(Mine(p), pc[p], queued[p], verdict[p])
      /\ queued \in [Runners -> EventTypes] /\ DOMAIN verdict = Runners
  BY DEF Backed, SingleUse, TypeOK
<1>1. pc[p] \in {"fetch", "ingest"} /\ UNCHANGED <<proof, attempt>> /\ Goto(p, "line")
  BY DEF Fetch, Ingest, Stage, Queue
<1>2. /\ Mine(p).root /\ ~SaidInvalid(Mine(p))
      /\ Mine(p).report = "none" /\ Mine(p).manifest = "none"
  BY <1>0, <1>1 DEF Grounded, Outside, Undecided
<1>3. \/ queued'[p] \in {"sources-verified", "dataset-ingested"}
      \/ queued'[p] \in Invalid /\ verdict'[p] = "INVALID"
  BY <1>0 DEF Fetch, Ingest, Stage, Queue, Invalid
<1>4. Grounded(Mine(p), "line", queued'[p], verdict'[p])
  BY <1>2, <1>3 DEF Grounded, Decided, Reported, Unfinished, Invalid
<1>5. QED
  BY <1>1, <1>4, MoveStep

LEMMA NextBacked == Backed /\ [Next]_vars => Backed'
<1> SUFFICES ASSUME Backed, [Next]_vars PROVE Backed'
  OBVIOUS
<1>0. SingleUse /\ SingleUse' /\ TypeOK
  BY NextSingleUse DEF Backed, SingleUse
<1>1. ASSUME NEW p \in Runners, NEW a \in Attempts, Begin(p, a) PROVE Backed'
  <2>1. \A q \in Runners : pc'[q] \in {"idle", "preflight"}
    BY <1>0, <1>1, RunAssumption DEF Begin, Goto, SingleUse, Alone, TypeOK
  <2>2. \A q \in Runners : Grounded(proof'[attempt'[q]], pc'[q], queued'[q], verdict'[q])
    BY <2>1, RestingGrounded DEF Outside
  <2>3. QED
    BY <1>0, <1>1, <2>2 DEF Begin, Backed, Mine
<1>2. ASSUME NEW p \in Runners, PassPreflight(p) \/ Consume(p) \/ Seal(p) PROVE Backed'
  <2>1. PICK label \in {"consume", "seal", "start"} : Goto(p, label)
    BY <1>2 DEF PassPreflight, Consume, Seal
  <2>2. Grounded(Mine(p), label, queued'[p], verdict'[p])
    BY <2>1, RestingGrounded DEF Outside
  <2>3. pc[p] # "idle" /\ UNCHANGED <<proof, attempt>>
    BY <1>2 DEF PassPreflight, Consume, Seal
  <2>4. QED
    BY <1>0, <2>1, <2>2, <2>3, MoveStep
<1>3. ASSUME NEW p \in Runners, Start(p) \/ Report(p) \/ Bundle(p) \/ Checkpoint(p) PROVE Backed'
  BY <1>0, <1>3, FilesBacked
<1>4. ASSUME NEW p \in Runners, AppendLine(p) PROVE Backed'
  BY <1>0, <1>4, LineBacked
<1>5. ASSUME NEW p \in Runners, AppendHead(p) PROVE Backed'
  BY <1>0, <1>5, HeadBacked
<1>6. ASSUME NEW p \in Runners, Fetch(p) \/ Ingest(p) PROVE Backed'
  BY <1>0, <1>6, StageBacked
<1>7. ASSUME NEW p \in Runners, Audit(p) PROVE Backed'
  <2>1. /\ Mine(p).root /\ ~SaidInvalid(Mine(p)) /\ ~Said(Mine(p), "run-completed")
    BY <1>7 DEF Audit, Backed, Grounded, Outside, Undecided, Unfinished
  <2>2. verdict'[p] \in Verdicts
    BY <1>0, <1>7 DEF Audit, TypeOK
  <2>3. Grounded(Mine(p), "finalize", queued'[p], verdict'[p])
    BY <2>1, <2>2 DEF Grounded, Undecided, Reported
  <2>4. QED
    BY <1>0, <1>7, <2>3, MoveStep DEF Audit
<1>8. ASSUME NEW p \in Runners, Raise(p) \/ RecordFailure(p) PROVE Backed'
  <2>1. Mine(p).root /\ pc[p] # "idle"
    BY <1>8 DEF Raise, RecordFailure, InTry, Backed, Grounded, Outside
  <2>2. CASE Raise(p)
    <3>1. Grounded(Mine(p), "failing", queued'[p], verdict'[p])
      BY <2>1, RestingGrounded
    <3>2. QED
      BY <1>0, <2>1, <2>2, <3>1, MoveStep DEF Raise
  <2>3. CASE RecordFailure(p)
    <3>1. queued'[p] = "run-failed"
      BY <1>0, <2>3 DEF RecordFailure, Queue, TypeOK
    <3>2. Grounded(Mine(p), "line", queued'[p], verdict'[p])
      BY <2>1, <3>1 DEF Grounded, Undecided, Decided, Reported, Unfinished, Invalid
    <3>3. QED
      BY <1>0, <2>1, <2>3, <3>2, MoveStep DEF RecordFailure, Queue
  <2>4. QED
    BY <1>8, <2>2, <2>3
<1>9. ASSUME NEW p \in Runners, RaiseWriting(p) \/ StopWriting(p) PROVE Backed'
  <2> DEFINE P == Mine(p)
             new == [P EXCEPT !.torn = TRUE]
  <2>1. P \in ProofRoot /\ attempt[p] \in Attempts /\ Sound(P)
    BY <1>0 DEF TypeOK, Mine, Backed
  <2>2. /\ new.events = P.events /\ new.root = P.root /\ new.bundle = P.bundle
        /\ new.report = P.report /\ new.manifest = P.manifest
        /\ new.checkpoint = P.checkpoint
    BY <2>1 DEF ProofRoot
  <2>3. pc[p] = "line" /\ P.root
    BY <1>9 DEF RaiseWriting, StopWriting, Backed, Grounded, Outside
  <2>4. Write(p, new)
    BY <1>9 DEF RaiseWriting, StopWriting
  <2> HIDE DEF P, new
  <2>5. (\A u : Said(new, u) <=> Said(P, u)) /\ (SaidInvalid(new) <=> SaidInvalid(P))
    BY <2>2, SaidKept
  <2>6. Sound(new)
    BY <2>1, <2>2, <2>3, <2>5 DEF Sound
  <2>7. CASE RaiseWriting(p)
    <3>1. Grounded(new, "failing", queued'[p], verdict'[p])
      BY <2>2, <2>3, RestingGrounded
    <3>2. QED
      BY <1>0, <2>3, <2>4, <2>6, <2>7, <3>1, WriteStep DEF RaiseWriting
  <2>8. CASE StopWriting(p)
    <3>1. \A a \in Attempts : Sound(proof'[a])
      BY <1>0, <2>4, <2>6 DEF Write, TypeOK, Backed
    <3>2. QED
      BY <1>0, <2>3, <2>8, <3>1, EndStep DEF StopWriting
  <2>9. QED
    BY <1>9, <2>7, <2>8
<1>10. ASSUME NEW p \in Runners,
              RefuseAttempt(p) \/ Return(p) \/ Reraise(p) \/ MaskFailure(p) \/ Stop(p)
       PROVE  Backed'
  <2>1. pc[p] # "idle" /\ Leave(p) /\ UNCHANGED proof
    BY <1>10 DEF RefuseAttempt, Return, Reraise, MaskFailure, Stop
  <2>2. \A a \in Attempts : Sound(proof'[a])
    BY <2>1 DEF Backed
  <2>3. QED
    BY <1>0, <2>1, <2>2, EndStep
<1>11. ASSUME NEW a \in Attempts, Delete(a) PROVE Backed'
  <2>1. \A q \in Runners : pc'[q] = "idle"
    BY <1>0, <1>11, RunAssumption DEF Delete, locals, SingleUse, Alone
  <2>2. \A q \in Runners : Grounded(proof'[attempt'[q]], pc'[q], queued'[q], verdict'[q])
    BY <2>1, RestingGrounded DEF Outside
  <2>3. Sound(NoProof)
    BY DEF Sound, Said, SaidInvalid, NoProof
  <2>4. \A b \in Attempts : Sound(proof'[b])
    BY <1>0, <1>11, <2>3 DEF Delete, TypeOK, Backed
  <2>5. QED
    BY <1>0, <2>2, <2>4 DEF Backed, Mine
<1>12. CASE UNCHANGED vars
  BY <1>0, <1>12 DEF vars, Backed, Mine
<1>13. QED
  BY <1>1, <1>2, <1>3, <1>4, <1>5, <1>6, <1>7, <1>8, <1>9, <1>10, <1>11, <1>12 DEF Next, Work

\* Wherever a run is interrupted and whoever runs next, a ledger that says
\* run-completed stands beside the bundle, the report and the manifest it vouches for.
THEOREM CompletionsAreBacked == Spec => []CompletionIsBacked
<1>1. Backed => CompletionIsBacked
  BY DEF Backed, Sound, Said, CompletionIsBacked, Happened
<1>2. QED
  BY <1>1, InitBacked, NextBacked, PTL DEF Spec

\* An outcome that was found invalid is never reported as anything else, and a
\* recorded failure is never followed by a completion.
THEOREM InvalidOutcomesStand == Spec => []InvalidIsFinal
<1>1. ASSUME Backed, NEW a \in Attempts
      PROVE  /\ Happened(a, "source-invalid") \/ Happened(a, "ingestion-invalid") =>
                  {proof[a].report, proof[a].manifest} \subseteq {"none", "INVALID"}
             /\ ~(Happened(a, "run-failed") /\ Happened(a, "run-completed"))
  <2>1. Sound(proof[a])
    BY <1>1 DEF Backed
  <2>2. Happened(a, "source-invalid") \/ Happened(a, "ingestion-invalid") => SaidInvalid(proof[a])
    BY DEF Happened, SaidInvalid, Said, Invalid
  <2>3. ~(Happened(a, "run-failed") /\ Happened(a, "run-completed"))
    BY <2>1 DEF Sound, Happened, Terminal
  <2>4. QED
    BY <2>1, <2>2, <2>3 DEF Sound
<1>2. Backed => InvalidIsFinal
  BY <1>1 DEF InvalidIsFinal
<1>3. QED
  BY <1>2, InitBacked, NextBacked, PTL DEF Spec

-----------------------------------------------------------------------------
\* While a root exists its ledger and head take only the abstract ledger's steps.
LEMMA NextKeepsPromise ==
  TypeOK /\ [Next]_vars =>
    \A a \in Attempts : proof'[a].root => [Ledger(a)!Next]_(Ledger(a)!vars)
<1> SUFFICES ASSUME TypeOK, [Next]_vars, NEW a \in Attempts, proof'[a].root
             PROVE  [Ledger(a)!Next]_(Ledger(a)!vars)
  OBVIOUS
<1> USE DEF Ledger!vars
<1>1. CASE UNCHANGED <<proof[a].events, proof[a].head>>
  BY <1>1
<1>2. ASSUME NEW p \in Runners, NEW new, Write(p, new),
             new.events = Mine(p).events, new.head = Mine(p).head
      PROVE  UNCHANGED <<proof[a].events, proof[a].head>>
  BY <1>2 DEF Write, Mine, TypeOK
<1>3. ASSUME NEW p \in Runners, AppendLine(p) PROVE [Ledger(a)!Next]_(Ledger(a)!vars)
  <2> DEFINE new == [Mine(p) EXCEPT !.events = Append(@, queued[p])]
  <2>1. Mine(p) \in ProofRoot
    BY DEF TypeOK, Mine
  <2>2. new.events = Append(Mine(p).events, queued[p]) /\ new.head = Mine(p).head
    BY <2>1 DEF ProofRoot
  <2>3. proof' = [proof EXCEPT ![attempt[p]] = new]
    BY <1>3 DEF AppendLine, Write
  <2> HIDE DEF new
  <2>4. CASE a = attempt[p]
    <3>1. proof'[a] = new /\ Mine(p) = proof[a]
      BY <2>3, <2>4 DEF TypeOK, Mine
    <3>2. Ledger(a)!Record(queued[p])
      BY <1>3, <2>2, <3>1 DEF AppendLine, CanAppend, Ledger!Record, Ledger!Admissible,
         Admissible, Ledger!Transitions, Transitions, Ledger!EventTypes, EventTypes
    <3>3. queued[p] \in Ledger(a)!EventTypes
      BY DEF TypeOK, Ledger!EventTypes, EventTypes, Ledger!Transitions, Transitions
    <3>4. QED
      BY <3>2, <3>3 DEF Ledger!Next
  <2>5. CASE a # attempt[p]
    BY <1>1, <2>3, <2>5 DEF TypeOK
  <2>6. QED
    BY <2>4, <2>5
<1>4. ASSUME NEW p \in Runners, AppendHead(p) PROVE [Ledger(a)!Next]_(Ledger(a)!vars)
  <2> DEFINE new == [Mine(p) EXCEPT !.head = Len(Mine(p).events)]
  <2>1. Mine(p) \in ProofRoot
    BY DEF TypeOK, Mine
  <2>2. new.events = Mine(p).events /\ new.head = Len(Mine(p).events)
    BY <2>1 DEF ProofRoot
  <2>3. proof' = [proof EXCEPT ![attempt[p]] = new]
    BY <1>4 DEF AppendHead, Write
  <2> HIDE DEF new
  <2>4. CASE a = attempt[p]
    <3>1. proof'[a] = new /\ Mine(p) = proof[a]
      BY <2>3, <2>4 DEF TypeOK, Mine
    <3>2. Ledger(a)!Certify
      BY <2>2, <3>1 DEF Ledger!Certify
    <3>3. QED
      BY <3>2 DEF Ledger!Next
  <2>5. CASE a # attempt[p]
    BY <1>1, <2>3, <2>5 DEF TypeOK
  <2>6. QED
    BY <2>4, <2>5
<1>5. ASSUME NEW p \in Runners,
             \/ Start(p) \/ Report(p) \/ Bundle(p) \/ Checkpoint(p)
             \/ RaiseWriting(p) \/ StopWriting(p)
      PROVE  UNCHANGED <<proof[a].events, proof[a].head>>
  <2>1. Mine(p) \in ProofRoot
    BY DEF TypeOK, Mine
  <2>2. CASE Start(p)
    BY <1>2, <2>1, <2>2 DEF Start, ProofRoot
  <2>3. CASE Report(p)
    BY <1>2, <2>1, <2>3 DEF Report, ProofRoot
  <2>4. CASE Bundle(p)
    BY <1>2, <2>1, <2>4 DEF Bundle, ProofRoot
  <2>5. CASE Checkpoint(p)
    BY <1>2, <2>1, <2>5 DEF Checkpoint, ProofRoot
  <2>6. CASE RaiseWriting(p) \/ StopWriting(p)
    BY <1>2, <2>1, <2>6 DEF RaiseWriting, StopWriting, ProofRoot
  <2>7. QED
    BY <1>5, <2>2, <2>3, <2>4, <2>5, <2>6
<1>6. ASSUME NEW p \in Runners,
             \/ \E b \in Attempts : Begin(p, b)
             \/ PassPreflight(p) \/ Consume(p) \/ Seal(p) \/ RefuseAttempt(p)
             \/ Fetch(p) \/ Ingest(p) \/ Audit(p) \/ Return(p) \/ Reraise(p)
             \/ RecordFailure(p) \/ MaskFailure(p) \/ Raise(p) \/ Stop(p)
      PROVE  UNCHANGED proof
  BY <1>6 DEF Begin, PassPreflight, Consume, Seal, RefuseAttempt, Fetch, Ingest, Audit, Stage,
              Return, Reraise, RecordFailure, MaskFailure, Raise, Stop
<1>7. ASSUME NEW b \in Attempts, Delete(b) PROVE UNCHANGED <<proof[a].events, proof[a].head>>
  BY <1>7 DEF Delete, NoProof, TypeOK
<1>8. CASE UNCHANGED vars
  BY <1>1, <1>8 DEF vars
<1>9. QED
  BY <1>1, <1>3, <1>4, <1>5, <1>6, <1>7, <1>8 DEF Next, Work

\* However a run that writes it ends, an attempt's ledger is the abstract ledger.
THEOREM AttemptLedgersKeepPromise == Spec => LedgersKeepPromise
  BY TypeCorrect, NextKeepsPromise, PTL DEF Spec, LedgersKeepPromise
=============================================================================
