------------------------ MODULE IncidentDossierProofs ------------------------
(***************************************************************************)
(* Proofs about IncidentDossier for every number of slips and every life   *)
(* of an approval: whatever order the acts of an incident are performed    *)
(* in, and however often, what the audit counts was blind and ran as       *)
(* approved.                                                               *)
(***************************************************************************)
EXTENDS IncidentDossier, WellFoundedInduction, SequenceTheorems, TLAPS

-----------------------------------------------------------------------------
\* Every act has been performed or is still to be.
Covered == \A a \in Acts : Done(a) \/ a \in ToSet(agenda)

\* A statement is about, and under, what was before it; its time is its own.
Dating ==
  /\ \A a \in Acts : \A e \in log[a] : e.at \in 1..now /\ e.on \in 0..(e.at - 1) /\ e.under \in 0..(e.at - 1)
  /\ \A a, b \in Acts : \A e \in log[a], f \in log[b] : e.at = f.at => a = b /\ e = f

\* Nobody but the truth's own people knows the mechanism before it is unsealed, and
\* the custodian's first unsealing is the only one that found it unopened.
Blindness ==
  /\ \A a \in DOMAIN Author : \A e \in log[a] :
       /\ e.blind \in BOOLEAN
       /\ ~e.blind =>
            \/ \E u \in log["unseal"] : u.at < e.at
            \/ group[Author[a]] \in {group["truth_producer"], group["mechanism_reviewer"]}
  /\ \A u, w \in log["unseal"] : u.at < w.at => w.opened

\* An eligible incident was compiled from the log and passed.
Admitted ==
  dossier.verdict = "eligible" =>
    /\ \A a \in Acts : dossier.has[a] \in log[a]
    /\ Passes(dossier.has)

\* The clock, what is left to do and the slips.
Bounded ==
  /\ group \in [Roles -> Roles]
  /\ agenda \in Seq(Acts)
  /\ slips \in 0..MaxSlips /\ now \in Nat /\ now + Len(agenda) <= Len(Course) + slips
  /\ DOMAIN log = Acts
  /\ \A a \in Acts : \A e \in log[a] : {e.blind, e.opened} \subseteq BOOLEAN
  /\ dossier.verdict \in {"open", "eligible", "refused"}

\* The inductive invariant.
DossierInv == Bounded /\ Covered /\ Dating /\ Blindness /\ Admitted

-----------------------------------------------------------------------------
(* The acts by name, and the latest of some times.                           *)

ActNames ==
  {"rights", "acquire", "truth", "reviewTruth", "seal", "project", "hypothesize",
   "reviewHypotheses", "design", "approveTest", "reviewTest", "execute", "plan",
   "approvePlan", "reviewPlan", "recover", "settle", "unseal", "verify", "reviewOutcome"}

LEMMA ActsByName == Acts = ActNames /\ Len(Course) = 20 /\ Course \in Seq(Acts)
<1>1. Len(Course) = 20 /\ DOMAIN Course = 1..20
  BY DEF Course
<1>2. /\ Course[1] = "rights" /\ Course[2] = "acquire" /\ Course[3] = "truth"
      /\ Course[4] = "reviewTruth" /\ Course[5] = "seal" /\ Course[6] = "project"
      /\ Course[7] = "hypothesize" /\ Course[8] = "reviewHypotheses" /\ Course[9] = "design"
      /\ Course[10] = "approveTest" /\ Course[11] = "reviewTest" /\ Course[12] = "execute"
      /\ Course[13] = "plan" /\ Course[14] = "approvePlan" /\ Course[15] = "reviewPlan"
      /\ Course[16] = "recover" /\ Course[17] = "settle" /\ Course[18] = "unseal"
      /\ Course[19] = "verify" /\ Course[20] = "reviewOutcome"
  BY DEF Course
<1>3. Acts = {Course[i] : i \in 1..20}
  BY <1>1 DEF Acts, ToSet
<1>4. Course \in Seq(ActNames)
  BY DEF Course, ActNames
<1> HIDE DEF Course
<1>5. ASSUME NEW i \in 1..20 PROVE Course[i] \in ActNames
  BY <1>1, <1>4, ElementOfSeq
<1>6. ActNames \subseteq Acts
  BY <1>2, <1>3 DEF ActNames
<1>7. Acts = ActNames
  BY <1>3, <1>5, <1>6
<1>8. QED
  BY <1>1, <1>4, <1>7

LEMMA Subjects ==
  /\ DOMAIN Subject \subseteq Acts /\ \A a \in DOMAIN Subject : Subject[a] \in Acts
  /\ DOMAIN Authority \subseteq Acts /\ \A a \in DOMAIN Authority : Authority[a] \in Acts
  /\ DOMAIN Author = {"project", "hypothesize", "design"} /\ DOMAIN Author \subseteq Acts
  /\ \A a \in DOMAIN Author : Author[a] \in Roles
<1>1. DOMAIN Subject \subseteq Acts /\ \A a \in DOMAIN Subject : Subject[a] \in Acts
  BY ActsByName DEF Subject, ActNames
<1>2. DOMAIN Authority \subseteq Acts /\ \A a \in DOMAIN Authority : Authority[a] \in Acts
  BY ActsByName DEF Authority, ActNames
<1>3. /\ DOMAIN Author = {"project", "hypothesize", "design"} /\ DOMAIN Author \subseteq Acts
      /\ \A a \in DOMAIN Author : Author[a] \in Roles
  BY ActsByName DEF Author, ActNames, Roles
<1>4. QED
  BY <1>1, <1>2, <1>3

\* A bounded set of numbers that is not empty has a greatest one.
LEMMA HasLatest ==
  ASSUME NEW n \in Nat, NEW T \in SUBSET (0..n), T # {}
  PROVE  \E t \in T : \A u \in T : u <= t
<1> DEFINE R == OpToRel(<, Nat)
           Bounds == {k \in Nat : \A u \in T : u <= k}
<1>1. IsWellFoundedOn(R, Nat)
  BY NatLessThanWellFounded
<1>2. \A x, y \in Nat : y < x => <<y, x>> \in R
  BY DEF OpToRel
<1>3. Bounds \subseteq Nat /\ n \in Bounds
  OBVIOUS
<1> HIDE DEF R, Bounds
<1>4. PICK t \in Bounds : \A y \in Bounds : ~ (<<y, t>> \in R)
  BY <1>1, <1>3, WFMin
<1>5. t \in Nat /\ \A u \in T : u <= t
  BY <1>4 DEF Bounds
<1>6. t \in T
  <2> SUFFICES ASSUME t \notin T PROVE FALSE
    OBVIOUS
  <2>1. \A u \in T : u \in Nat /\ u <= t - 1
    BY <1>5
  <2>2. t - 1 \in Nat
    <3>1. PICK u \in T : TRUE
      OBVIOUS
    <3>2. u \in Nat /\ u <= t - 1
      BY <2>1, <3>1
    <3>3. QED
      BY <1>5, <3>2
  <2>3. t - 1 \in Bounds
    BY <2>1, <2>2 DEF Bounds
  <2>4. t - 1 < t
    BY <1>5
  <2>5. QED
    BY <1>2, <1>4, <1>5, <2>2, <2>3, <2>4
<1>7. QED
  BY <1>5, <1>6

LEMMA LatestTyped ==
  ASSUME Dating, now \in Nat, NEW a \in Acts, Done(a)
  PROVE  Latest(a) \in 1..now
<1> DEFINE T == {e.at : e \in log[a]}
<1>1. T \in SUBSET (1..now) /\ T \in SUBSET (0..now) /\ T # {}
  BY DEF Dating, Done
<1> HIDE DEF T
<1>2. \E t \in T : \A u \in T : u <= t
  BY <1>1, HasLatest
<1>3. (CHOOSE t \in T : \A u \in T : u <= t) \in T
  BY <1>2
<1>4. QED
  BY <1>1, <1>3 DEF Latest, T

\* A statement made now.
LEMMA StatementTyped ==
  ASSUME Dating, now \in Nat, NEW a \in Acts, Possible(a)
  PROVE  LET e == Statement(a)
         IN  /\ e.at = now + 1 /\ e.on \in 0..now /\ e.under \in 0..now
             /\ {e.blind, e.opened} \subseteq BOOLEAN
             /\ e.blind = (a \in DOMAIN Author => ~Knows(Author[a]))
             /\ e.opened = (a = "unseal" /\ Done("unseal"))
<1>1. (IF a \in DOMAIN Subject THEN Latest(Subject[a]) ELSE 0) \in 0..now
  <2>1. CASE a \in DOMAIN Subject
    <3>1. Latest(Subject[a]) \in 1..now
      BY <2>1, LatestTyped, Subjects DEF Possible
    <3>2. QED
      BY <2>1, <3>1
  <2>2. CASE a \notin DOMAIN Subject
    BY <2>2
  <2>3. QED
    BY <2>1, <2>2
<1>2. (IF a \in DOMAIN Authority THEN Latest(Authority[a]) ELSE 0) \in 0..now
  <2>1. CASE a \in DOMAIN Authority
    <3>1. Latest(Authority[a]) \in 1..now
      BY <2>1, LatestTyped, Subjects DEF Possible
    <3>2. QED
      BY <2>1, <3>1
  <2>2. CASE a \notin DOMAIN Authority
    BY <2>2
  <2>3. QED
    BY <2>1, <2>2
<1>3. /\ (a \in DOMAIN Author => ~Knows(Author[a])) \in BOOLEAN
      /\ (a = "unseal" /\ Done("unseal")) \in BOOLEAN
  OBVIOUS
<1>4. QED
  BY <1>1, <1>2, <1>3 DEF Statement

-----------------------------------------------------------------------------
(* The campaign.                                                             *)

\* What is to be done, in another order.
LEMMA PostponeTyped ==
  ASSUME agenda \in Seq(Acts), NEW i \in 2..Len(agenda), Postpone(i)
  PROVE  agenda' \in Seq(Acts) /\ Len(agenda') = Len(agenda) /\ ToSet(agenda) \subseteq ToSet(agenda')
<1> DEFINE p == SubSeq(agenda, 2, i)
           q == SubSeq(agenda, i + 1, Len(agenda))
           m == <<agenda[1]>>
<1>1. Len(agenda) \in Nat /\ i \in Nat /\ 2 <= i /\ i <= Len(agenda)
  BY LenProperties
<1>2. \A k \in 1..Len(agenda) : agenda[k] \in Acts
  BY ElementOfSeq
<1>3. p \in Seq(Acts) /\ Len(p) = i - 1 /\ \A k \in 1..(i - 1) : p[k] = agenda[k + 1]
  <2>1. \A k \in 2..i : agenda[k] \in Acts
    BY <1>1, <1>2
  <2>2. /\ p \in Seq(Acts) /\ Len(p) = (IF 2 <= i THEN i - 2 + 1 ELSE 0)
        /\ \A k \in 1..(i - 2 + 1) : p[k] = agenda[2 + k - 1]
    BY <1>1, <2>1, SubSeqProperties
  <2>3. i - 2 + 1 = i - 1 /\ \A k \in 1..(i - 1) : 2 + k - 1 = k + 1
    BY <1>1
  <2> HIDE DEF p
  <2>4. QED
    BY <1>1, <2>2, <2>3
<1>4. q \in Seq(Acts) /\ Len(q) = Len(agenda) - i
      /\ \A k \in 1..(Len(agenda) - i) : q[k] = agenda[i + k]
  <2>1. \A k \in (i + 1)..Len(agenda) : agenda[k] \in Acts
    BY <1>1, <1>2
  <2>2. /\ q \in Seq(Acts)
        /\ Len(q) = (IF i + 1 <= Len(agenda) THEN Len(agenda) - (i + 1) + 1 ELSE 0)
        /\ \A k \in 1..(Len(agenda) - (i + 1) + 1) : q[k] = agenda[(i + 1) + k - 1]
    BY <1>1, <2>1, SubSeqProperties
  <2>3. /\ Len(agenda) - (i + 1) + 1 = Len(agenda) - i
        /\ \A k \in 1..(Len(agenda) - i) : (i + 1) + k - 1 = i + k
    BY <1>1
  <2> HIDE DEF q
  <2>4. Len(q) = Len(agenda) - i
    <3>1. CASE i + 1 <= Len(agenda)
      BY <1>1, <2>2, <3>1
    <3>2. CASE ~(i + 1 <= Len(agenda))
      BY <1>1, <2>2, <3>2
    <3>3. QED
      BY <3>1, <3>2
  <2>5. ASSUME NEW k \in 1..(Len(agenda) - i) PROVE q[k] = agenda[i + k]
    <3>1. k \in 1..(Len(agenda) - (i + 1) + 1) /\ (i + 1) + k - 1 = i + k
      BY <1>1
    <3>2. QED
      BY <2>2, <3>1
  <2>6. QED
    BY <2>2, <2>4, <2>5
<1>5. m \in Seq(Acts) /\ Len(m) = 1 /\ m[1] = agenda[1]
  BY <1>1, <1>2
<1>6. agenda' = (p \o m) \o q
  BY DEF Postpone
<1> HIDE DEF p, q, m
<1>7. /\ (p \o m) \in Seq(Acts) /\ Len(p \o m) = i
      /\ \A k \in 1..i : (p \o m)[k] = IF k = i THEN agenda[1] ELSE agenda[k + 1]
  <2>1. /\ (p \o m) \in Seq(Acts) /\ Len(p \o m) = Len(p) + Len(m)
        /\ \A k \in 1..(Len(p) + Len(m)) :
             (p \o m)[k] = IF k <= Len(p) THEN p[k] ELSE m[k - Len(p)]
    BY <1>3, <1>5, ConcatProperties
  <2>2. QED
    BY <1>1, <1>3, <1>5, <2>1
<1>8. /\ agenda' \in Seq(Acts) /\ Len(agenda') = Len(agenda)
      /\ \A k \in 1..Len(agenda) :
           agenda'[k] = IF k < i THEN agenda[k + 1] ELSE IF k = i THEN agenda[1] ELSE agenda[k]
  <2> DEFINE r == p \o m
  <2>1. r \in Seq(Acts) /\ Len(r) = i /\ agenda' = r \o q
    BY <1>6, <1>7
  <2> HIDE DEF r
  <2>2. /\ agenda' \in Seq(Acts) /\ Len(agenda') = Len(r) + Len(q)
        /\ \A k \in 1..(Len(r) + Len(q)) :
             agenda'[k] = IF k <= Len(r) THEN r[k] ELSE q[k - Len(r)]
    BY <1>4, <2>1, ConcatProperties
  <2>3. Len(r) + Len(q) = Len(agenda)
    BY <1>1, <1>4, <2>1
  <2>4. ASSUME NEW k \in 1..Len(agenda)
        PROVE  agenda'[k] = IF k < i THEN agenda[k + 1] ELSE IF k = i THEN agenda[1] ELSE agenda[k]
    <3>1. agenda'[k] = IF k <= i THEN r[k] ELSE q[k - i]
      BY <2>1, <2>2, <2>3
    <3>2. CASE k <= i
      <4>1. k \in 1..i /\ (k # i => k < i)
        BY <1>1, <3>2
      <4>2. r[k] = IF k = i THEN agenda[1] ELSE agenda[k + 1]
        BY <1>7, <4>1 DEF r
      <4>3. QED
        BY <1>1, <3>1, <3>2, <4>1, <4>2
    <3>3. CASE ~(k <= i)
      <4>1. k - i \in 1..(Len(agenda) - i) /\ i + (k - i) = k /\ ~(k < i) /\ k # i
        BY <1>1, <3>3
      <4>2. q[k - i] = agenda[k]
        BY <1>4, <4>1
      <4>3. QED
        BY <3>1, <3>3, <4>1, <4>2
    <3>4. QED
      BY <3>2, <3>3
  <2>5. QED
    BY <2>2, <2>3, <2>4
<1>9. ASSUME NEW k \in 1..Len(agenda) PROVE agenda[k] \in ToSet(agenda')
  <2>1. PICK j \in 1..Len(agenda) : agenda'[j] = agenda[k]
    <3>1. CASE k = 1
      BY <1>1, <1>8, <3>1
    <3>2. CASE k # 1 /\ k <= i
      <4>1. k - 1 \in 1..Len(agenda) /\ k - 1 < i /\ (k - 1) + 1 = k
        BY <1>1, <3>2
      <4>2. QED
        BY <1>8, <4>1
    <3>3. CASE k > i
      BY <1>1, <1>8, <3>3
    <3>4. QED
      BY <1>1, <3>1, <3>2, <3>3
  <2>2. DOMAIN agenda' = 1..Len(agenda)
    BY <1>8, LenProperties
  <2>3. QED
    BY <2>1, <2>2 DEF ToSet
<1>10. DOMAIN agenda = 1..Len(agenda)
  BY LenProperties
<1>11. QED
  BY <1>8, <1>9, <1>10 DEF ToSet

LEMMA PerformTyped ==
  ASSUME agenda \in Seq(Acts), Perform
  PROVE  /\ agenda[1] \in Acts /\ agenda' \in Seq(Acts) /\ Len(agenda') = Len(agenda) - 1
         /\ ToSet(agenda) \subseteq ToSet(agenda') \cup {agenda[1]}
<1>1. agenda # <<>> /\ agenda' = Tail(agenda)
  BY DEF Perform
<1>2. Len(agenda) \in Nat /\ Len(agenda) # 0 /\ DOMAIN agenda = 1..Len(agenda)
  BY <1>1, EmptySeq, LenProperties
<1>3. agenda[1] \in Acts
  BY <1>2, ElementOfSeq
<1>4. /\ agenda' \in Seq(Acts) /\ Len(agenda') = Len(agenda) - 1
      /\ \A k \in 1..Len(agenda') : agenda'[k] = agenda[k + 1]
  BY <1>1, HeadTailProperties
<1>5. DOMAIN agenda' = 1..Len(agenda')
  BY <1>4, LenProperties
<1>6. ASSUME NEW k \in 1..Len(agenda), k # 1 PROVE agenda[k] \in ToSet(agenda')
  <2>1. k - 1 \in 1..Len(agenda') /\ agenda'[k - 1] = agenda[k]
    BY <1>2, <1>4, <1>6
  <2>2. QED
    BY <1>5, <2>1 DEF ToSet
<1>7. QED
  BY <1>2, <1>3, <1>4, <1>6 DEF ToSet

LEMMA RepeatTyped ==
  ASSUME agenda \in Seq(Acts), NEW a \in Acts, Repeat(a)
  PROVE  agenda' \in Seq(Acts) /\ Len(agenda') = Len(agenda) + 1 /\ ToSet(agenda) \subseteq ToSet(agenda')
<1>1. agenda' = <<a>> \o agenda
  BY DEF Repeat
<1>2. <<a>> \in Seq(Acts) /\ Len(<<a>>) = 1 /\ Len(agenda) \in Nat /\ DOMAIN agenda = 1..Len(agenda)
  BY LenProperties
<1>3. /\ agenda' \in Seq(Acts) /\ Len(agenda') = Len(agenda) + 1
      /\ \A k \in 1..Len(agenda) : agenda'[k + 1] = agenda[k]
  <2>1. /\ agenda' \in Seq(Acts) /\ Len(agenda') = 1 + Len(agenda)
        /\ \A k \in 1..(1 + Len(agenda)) :
             agenda'[k] = IF k <= 1 THEN <<a>>[k] ELSE agenda[k - 1]
    BY <1>1, <1>2, ConcatProperties
  <2>2. ASSUME NEW k \in 1..Len(agenda) PROVE agenda'[k + 1] = agenda[k]
    <3>1. k + 1 \in 1..(1 + Len(agenda)) /\ ~(k + 1 <= 1) /\ (k + 1) - 1 = k
      BY <1>2
    <3>2. QED
      BY <2>1, <3>1
  <2>3. QED
    BY <1>2, <2>1, <2>2
<1>4. ASSUME NEW k \in 1..Len(agenda) PROVE agenda[k] \in ToSet(agenda')
  <2>1. k + 1 \in DOMAIN agenda'
    BY <1>2, <1>3, LenProperties
  <2>2. QED
    BY <1>3, <2>1 DEF ToSet
<1>5. QED
  BY <1>2, <1>3, <1>4 DEF ToSet

LEMMA InitDossier == Init => DossierInv
<1> SUFFICES ASSUME Init PROVE DossierInv
  OBVIOUS
<1>1. agenda = Course /\ now = 0 /\ log = [a \in Acts |-> {}] /\ dossier.verdict = "open"
  BY DEF Init
<1>2. slips \in 0..MaxSlips /\ group \in [Roles -> Roles]
  <2>1. [r \in Roles |-> r] \in [Roles -> Roles]
    OBVIOUS
  <2>2. \A a, b \in Roles : [[r \in Roles |-> r] EXCEPT ![b] = a] \in [Roles -> Roles]
    OBVIOUS
  <2>3. MaxSlips \in Nat /\ (MaxSlips > 0 => 1 \in 0..MaxSlips) /\ 0 \in 0..MaxSlips
    BY DossierAssumption
  <2> HIDE DEF Roles
  <2>4. CASE group = [r \in Roles |-> r] /\ slips = 0
    BY <2>1, <2>3, <2>4
  <2>5. CASE /\ MaxSlips > 0 /\ slips = 1
             /\ \E a, b \in Roles :
                  a # b /\ group = [[r \in Roles |-> r] EXCEPT ![b] = a]
    BY <2>2, <2>3, <2>5
  <2>6. QED
    BY <2>4, <2>5 DEF Init
<1>3. \A a \in Acts : log[a] = {}
  BY <1>1
<1>4. Bounded
  BY <1>1, <1>2, <1>3, ActsByName DEF Bounded
<1>5. Covered
  BY <1>1 DEF Covered, Acts
<1>6. Dating /\ Admitted
  BY <1>1, <1>3 DEF Dating, Admitted
<1>7. Blindness
  BY <1>3, Subjects, ActsByName DEF Blindness, ActNames
<1>8. QED
  BY <1>4, <1>5, <1>6, <1>7 DEF DossierInv

\* An act is performed and signed.
LEMMA PerformKeeps == DossierInv /\ dossier.verdict = "open" /\ Perform => DossierInv'
<1> SUFFICES ASSUME DossierInv, dossier.verdict = "open", Perform PROVE DossierInv'
  OBVIOUS
<1> DEFINE a == agenda[1]
           e == Statement(a)
<1>0. Bounded /\ Covered /\ Dating /\ Blindness
  BY DEF DossierInv
<1>1. /\ a \in Acts /\ agenda' \in Seq(Acts) /\ Len(agenda') = Len(agenda) - 1
      /\ ToSet(agenda) \subseteq ToSet(agenda') \cup {a}
  BY <1>0, PerformTyped DEF Bounded
<1>2. /\ log' = [log EXCEPT ![a] = @ \cup {e}] /\ now' = now + 1
      /\ UNCHANGED <<group, slips, dossier>> /\ Possible(a)
  BY DEF Perform
<1>3. /\ e.at = now + 1 /\ e.on \in 0..now /\ e.under \in 0..now
      /\ {e.blind, e.opened} \subseteq BOOLEAN
      /\ e.blind = (a \in DOMAIN Author => ~Knows(Author[a]))
      /\ e.opened = (a = "unseal" /\ Done("unseal"))
  BY <1>0, <1>1, <1>2, StatementTyped DEF Bounded
<1> HIDE DEF a, e
<1>4. DOMAIN log' = Acts /\ \A x \in Acts : log'[x] = IF x = a THEN log[x] \cup {e} ELSE log[x]
  BY <1>0, <1>1, <1>2 DEF Bounded
<1>n. now \in Nat
  BY <1>0 DEF Bounded
<1>5. Bounded'
  <2>1. now' \in Nat /\ now' + Len(agenda') <= Len(Course) + slips'
    BY <1>0, <1>1, <1>2, ActsByName, DossierAssumption, LenProperties DEF Bounded
  <2>2. \A x \in Acts : \A f \in log'[x] : {f.blind, f.opened} \subseteq BOOLEAN
    BY <1>0, <1>3, <1>4 DEF Bounded
  <2>3. QED
    BY <1>0, <1>1, <1>2, <1>4, <2>1, <2>2 DEF Bounded
<1>6. Covered'
  <2>1. \A x \in Acts : Done(x) \/ x = a => Done(x)'
    BY <1>4 DEF Done
  <2>2. QED
    BY <1>0, <1>1, <2>1 DEF Covered
<1>7. Dating'
  <2>1. ASSUME NEW x \in Acts, NEW f \in log'[x]
        PROVE  /\ f.at \in 1..now' /\ f.on \in 0..(f.at - 1) /\ f.under \in 0..(f.at - 1)
               /\ (f \in log[x] /\ f.at <= now) \/ (x = a /\ f = e)
    <3>1. CASE f \in log[x]
      BY <1>0, <1>2, <1>n, <3>1 DEF Dating
    <3>2. CASE x = a /\ f = e
      BY <1>2, <1>3, <1>n, <3>2
    <3>3. QED
      BY <1>4, <2>1, <3>1, <3>2
  <2>2. ASSUME NEW x \in Acts, NEW y \in Acts, NEW f \in log'[x], NEW g \in log'[y], f.at = g.at
        PROVE  x = y /\ f = g
    <3>1. CASE f \in log[x] /\ g \in log[y]
      BY <1>0, <2>2, <3>1 DEF Dating
    <3>2. CASE f \in log[x] /\ f.at <= now /\ g = e
      BY <1>0, <1>3, <1>n, <2>2, <3>2 DEF Dating
    <3>3. CASE g \in log[y] /\ g.at <= now /\ f = e
      BY <1>0, <1>3, <1>n, <2>2, <3>3 DEF Dating
    <3>4. QED
      BY <2>1, <2>2, <3>1, <3>2, <3>3
  <2>3. QED
    BY <2>1, <2>2 DEF Dating
<1>8. Blindness'
  <2>1. "unseal" \in Acts /\ log["unseal"] \subseteq log'["unseal"]
    BY <1>4, ActsByName DEF ActNames
  <2>2. \A u \in log["unseal"] : u.at \in 1..now
    BY <1>0, <2>1 DEF Dating
  <2>3. ASSUME NEW x \in DOMAIN Author, NEW f \in log'[x]
        PROVE  /\ f.blind \in BOOLEAN
               /\ ~f.blind =>
                    \/ \E u \in log'["unseal"] : u.at < f.at
                    \/ group[Author[x]] \in {group["truth_producer"], group["mechanism_reviewer"]}
    <3>1. CASE f \in log[x]
      BY <1>0, <2>1, <3>1 DEF Blindness
    <3>2. CASE x = a /\ f = e
      <4>1. ~f.blind => Knows(Author[x])
        BY <1>3, <3>2
      <4>2. Done("unseal") => \E u \in log'["unseal"] : u.at < f.at
        BY <1>3, <1>n, <2>1, <2>2, <3>2 DEF Done
      <4>3. QED
        BY <1>3, <3>2, <4>1, <4>2 DEF Knows
    <3>3. QED
      BY <1>4, <2>3, <3>1, <3>2, Subjects
  <2>4. ASSUME NEW u \in log'["unseal"], NEW w \in log'["unseal"], u.at < w.at PROVE w.opened
    <3>1. CASE u \in log["unseal"] /\ w \in log["unseal"]
      BY <1>0, <2>4, <3>1 DEF Blindness
    <3>2. CASE u \in log["unseal"] /\ w = e /\ a = "unseal"
      BY <1>3, <3>2 DEF Done
    <3>3. CASE u = e
      <4>1. w \in log["unseal"] \/ w = e
        BY <1>4, <2>1, <2>4
      <4>2. QED
        BY <1>3, <1>n, <2>2, <2>4, <3>3, <4>1
    <3>4. QED
      BY <1>4, <2>1, <2>4, <3>1, <3>2, <3>3
  <2>5. QED
    BY <1>2, <2>3, <2>4 DEF Blindness
<1>9. Admitted'
  BY <1>2 DEF Admitted
<1>10. QED
  BY <1>5, <1>6, <1>7, <1>8, <1>9 DEF DossierInv

\* A dossier picks a statement of every act: every act has one when nothing is left to do.
LEMMA CompiledFromLog ==
  ASSUME Covered, agenda = <<>>, NEW d \in Compilations, NEW a \in Acts
  PROVE  d[a] \in log[a]
<1> DEFINE Repeated == {x \in Acts : Cardinality(log[x]) > 1}
           Picks == {f \in [Repeated -> UNION {log[x] : x \in Repeated}] :
                       \A x \in Repeated : f[x] \in log[x]}
<1>1. PICK f \in Picks :
        d = [x \in Acts |-> IF x \in Repeated THEN f[x] ELSE CHOOSE e \in log[x] : TRUE]
  BY DEF Compilations
<1>2. ToSet(agenda) = {}
  BY DEF ToSet
<1>3. \E e \in log[a] : TRUE
  BY <1>2 DEF Covered, Done
<1>4. CASE a \in Repeated
  BY <1>1, <1>4
<1>5. CASE a \notin Repeated
  <2>1. d[a] = CHOOSE e \in log[a] : TRUE
    BY <1>1, <1>5
  <2>2. QED
    BY <1>3, <2>1
<1>6. QED
  BY <1>4, <1>5

LEMMA NextDossier == DossierInv /\ [Next]_vars => DossierInv'
<1> SUFFICES ASSUME DossierInv, [Next]_vars PROVE DossierInv'
  OBVIOUS
<1>0. Bounded /\ Covered /\ Dating /\ Blindness /\ Admitted
  BY DEF DossierInv
<1>1. CASE dossier.verdict = "open" /\ Perform
  BY <1>1, PerformKeeps
\* The course is changed, and nothing else.
<1>2. ASSUME UNCHANGED <<group, now, log, dossier>>, slips' = slips + 1, slips < MaxSlips,
             agenda' \in Seq(Acts), Len(agenda') <= Len(agenda) + 1,
             ToSet(agenda) \subseteq ToSet(agenda')
      PROVE  DossierInv'
  <2>1. slips' \in 0..MaxSlips /\ now' + Len(agenda') <= Len(Course) + slips'
    BY <1>0, <1>2, ActsByName, DossierAssumption, LenProperties DEF Bounded
  <2>2. Bounded'
    BY <1>0, <1>2, <2>1 DEF Bounded
  <2>3. Covered'
    BY <1>0, <1>2 DEF Covered, Done
  <2>4. Dating' /\ Blindness'
    BY <1>0, <1>2 DEF Dating, Blindness
  <2>5. Admitted'
    BY <1>0, <1>2 DEF Admitted, Passes, Eligible, SourceBound, CustodyHolds, TestHolds,
       ReviewsHold, Reviewed, RolesIndependent, RecoveryHolds, Independent
  <2>6. QED
    BY <2>2, <2>3, <2>4, <2>5 DEF DossierInv
<1>3. ASSUME NEW i \in 2..Len(agenda), Postpone(i) PROVE DossierInv'
  <2>1. agenda' \in Seq(Acts) /\ Len(agenda') = Len(agenda) /\ ToSet(agenda) \subseteq ToSet(agenda')
    BY <1>0, <1>3, PostponeTyped DEF Bounded
  <2>2. Len(agenda') <= Len(agenda) + 1
    BY <1>0, <2>1, LenProperties DEF Bounded
  <2>3. QED
    BY <1>2, <1>3, <2>1, <2>2 DEF Postpone
<1>4. ASSUME NEW a \in Acts, Repeat(a) PROVE DossierInv'
  <2>1. agenda' \in Seq(Acts) /\ Len(agenda') = Len(agenda) + 1 /\ ToSet(agenda) \subseteq ToSet(agenda')
    BY <1>0, <1>4, RepeatTyped DEF Bounded
  <2>2. Len(agenda') <= Len(agenda) + 1
    BY <1>0, <2>1, LenProperties DEF Bounded
  <2>3. QED
    BY <1>2, <1>4, <2>1, <2>2 DEF Repeat
<1>5. ASSUME UNCHANGED <<group, agenda, now, log, slips>>,
             dossier'.verdict \in {"open", "eligible", "refused"}
      PROVE  (Bounded /\ Covered /\ Dating /\ Blindness)'
  BY <1>0, <1>5 DEF Bounded, Covered, Done, Dating, Blindness
<1>6. CASE Admit
  <2>1. PICK d \in Compilations : Passes(d) /\ dossier' = [verdict |-> "eligible", has |-> d]
    BY <1>6 DEF Admit
  <2>2. dossier'.verdict = "eligible" /\ dossier'.has = d
    BY <2>1
  <2>3. \A a \in Acts : d[a] \in log[a]
    BY <1>0, <1>6, CompiledFromLog DEF Admit, Compilable
  <2>4. UNCHANGED <<group, log>>
    BY <1>6 DEF Admit
  <2>5. Passes(d)'
    BY <2>1, <2>4 DEF Passes, Eligible, SourceBound, CustodyHolds, TestHolds,
       ReviewsHold, Reviewed, RolesIndependent, RecoveryHolds, Independent
  <2>6. Admitted'
    BY <2>2, <2>3, <2>4, <2>5 DEF Admitted
  <2>7. QED
    BY <1>5, <1>6, <2>2, <2>6 DEF Admit, DossierInv
<1>7. CASE Refuse
  <2>1. dossier'.verdict = "refused"
    BY <1>7 DEF Refuse
  <2>2. QED
    BY <1>5, <1>7, <2>1 DEF Refuse, DossierInv, Admitted
<1>8. CASE UNCHANGED vars
  <2>1. UNCHANGED <<group, agenda, now, log, slips, dossier>>
    BY <1>8 DEF vars
  <2>2. Admitted'
    BY <1>0, <2>1 DEF Admitted, Passes, Eligible, SourceBound, CustodyHolds, TestHolds,
       ReviewsHold, Reviewed, RolesIndependent, RecoveryHolds, Independent
  <2>3. QED
    BY <1>0, <1>5, <2>1, <2>2 DEF DossierInv, Bounded
<1>9. QED
  BY <1>1, <1>3, <1>4, <1>6, <1>7, <1>8 DEF Next

LEMMA DossierInvariant == Spec => []DossierInv
BY InitDossier, NextDossier, PTL DEF Spec

-----------------------------------------------------------------------------
\* The clock stays within the course and the slips, and a statement is never about, or
\* under, something that came after it.
THEOREM DossierTypeCorrect == Spec => []TypeOK
<1>1. DossierInv => TypeOK
  <2> SUFFICES ASSUME DossierInv PROVE TypeOK
    OBVIOUS
  <2>0. Bounded /\ Dating
    BY DEF DossierInv
  <2>1. ToSet(agenda) \subseteq Acts
    BY <2>0, ElementOfSeq, LenProperties DEF Bounded, ToSet
  <2>2. now \in 0..(Len(Course) + MaxSlips)
    BY <2>0, ActsByName, DossierAssumption, LenProperties DEF Bounded
  <2>3. \A a \in Acts : \A e \in log[a] :
          e.at \in 1..now /\ e.on < e.at /\ e.under < e.at /\ {e.blind, e.opened} \subseteq BOOLEAN
    BY <2>0 DEF Bounded, Dating
  <2>4. QED
    BY <2>0, <2>1, <2>2, <2>3 DEF Bounded, TypeOK
<1>2. QED
  BY DossierInvariant, <1>1, PTL

\* The statements of a compiled dossier, by name.
LEMMA CompiledDates ==
  ASSUME DossierInv, dossier.verdict = "eligible", NEW a \in Acts, NEW b \in Acts
  PROVE  LET d == dossier.has
         IN  /\ d[a] \in log[a]
             /\ d[a].at \in Nat /\ d[a].on \in Nat /\ d[a].under \in Nat
             /\ d[a].on < d[a].at /\ d[a].under < d[a].at
             /\ a # b => d[a].at # d[b].at
<1> DEFINE d == dossier.has
<1>1. d[a] \in log[a] /\ d[b] \in log[b]
  BY DEF DossierInv, Admitted
<1>2. d[a].at \in 1..now /\ d[a].on \in 0..(d[a].at - 1) /\ d[a].under \in 0..(d[a].at - 1)
  BY <1>1 DEF DossierInv, Dating
<1>3. d[a].at = d[b].at => a = b
  BY <1>1 DEF DossierInv, Dating
<1>4. now \in Nat
  BY DEF DossierInv, Bounded
<1> HIDE DEF d
<1>5. QED
  BY <1>1, <1>2, <1>3, <1>4 DEF d

\* _verify_dossier: whatever was done out of order or done again, the test and the
\* recovery of an incident that counts ran as they were approved and then reviewed.
\* The argument is about times: an approval is later than what it is on, a review later
\* than the approval it is under, and the audit compares the review with the run.
THEOREM CountedRanAsApproved == Spec => []RanAsApproved
<1>1. DossierInv => RanAsApproved
  <2> SUFFICES ASSUME DossierInv, dossier.verdict = "eligible" PROVE RanAsApproved
    BY DEF RanAsApproved
  <2> DEFINE d == dossier.has
  <2>1. PICK t \in Times(d) : Eligible(d) /\ Dated(d, t)
    BY DEF DossierInv, Admitted, Passes
  <2>2. {"execute", "reviewTest", "approveTest", "design", "recover", "reviewPlan",
         "approvePlan", "plan", "verify", "hypothesize", "reviewHypotheses"} \subseteq Acts
    BY ActsByName DEF ActNames
  <2>3. /\ d.execute.at \in Nat /\ d.reviewTest.at \in Nat /\ d.approveTest.at \in Nat
        /\ d.design.at \in Nat /\ d.recover.at \in Nat /\ d.reviewPlan.at \in Nat
        /\ d.approvePlan.at \in Nat /\ d.plan.at \in Nat
        /\ d.approveTest.on < d.approveTest.at /\ d.reviewTest.under < d.reviewTest.at
        /\ d.approvePlan.on < d.approvePlan.at /\ d.reviewPlan.under < d.reviewPlan.at
        /\ d.execute.at # d.reviewPlan.at
    BY <2>2, CompiledDates
  <2>4. /\ d.approveTest.on = d.design.at /\ d.execute.at < d.approveTest.at + ApprovalLife
        /\ d.execute.on = d.design.at
        /\ d.approvePlan.on = d.plan.at /\ d.recover.at < d.approvePlan.at + ApprovalLife
        /\ d.recover.on = d.plan.at
    BY <2>1 DEF Eligible, TestHolds, RecoveryHolds, ApprovalCovers
  <2>5. /\ d.reviewTest.on = d.design.at /\ d.reviewTest.under = d.approveTest.at
        /\ d.reviewPlan.on = d.plan.at /\ d.reviewPlan.under = d.approvePlan.at
        /\ Independent("test_proposer", "safety_reviewer")
        /\ Independent("recovery_proposer", "safety_reviewer")
        /\ Independent("recovery_executor", "outcome_verifier")
    BY <2>1 DEF Eligible, ReviewsHold, Reviewed
  <2>6. /\ d.reviewTest.at < d.execute.at /\ d.reviewPlan.at < d.recover.at
        /\ t.planned <= d.reviewPlan.at
    BY <2>1 DEF Dated, TimesMatch
  <2>7. d.execute.at <= t.planned
    <3> DEFINE order == <<d.acquire.at, d.seal.at, t.cutoff, t.hypothesized,
                   d.reviewTest.at, d.execute.at, t.planned, d.recover.at,
                   d.settle.at, d.verify.at>>
    <3>1. \A i \in 1..(Len(order) - 1) : order[i] <= order[i + 1]
      BY <2>1 DEF Dated, TimelineOrdered
    <3>2. 6 \in 1..(Len(order) - 1) /\ order[6] = d.execute.at /\ order[6 + 1] = t.planned
      OBVIOUS
    <3> HIDE DEF order
    <3>3. QED
      BY <3>1, <3>2
  <2>8. t.planned \in Nat
    BY <2>1, <2>3 DEF Times
  <2>9. d.execute.at < d.reviewPlan.at
    BY <2>3, <2>6, <2>7, <2>8
  <2> HIDE DEF d
  <2>10. QED
    BY <2>3, <2>4, <2>5, <2>6, <2>9 DEF RanAsApproved, Independent, d
<1>2. QED
  BY DossierInvariant, <1>1, PTL

\* chronology_is_outcome_blind: in a dossier that counts, hypotheses, test and visible
\* evidence were made without knowledge of the mechanism, and before any outcome.  The
\* custodian's report is needed: without it an earlier unsealing stays unseen.
THEOREM CountedIsOutcomeBlind == Spec => []CountedIsBlind
<1>1. DossierInv => CountedIsBlind
  <2> SUFFICES ASSUME DossierInv, dossier.verdict = "eligible" PROVE CountedIsBlind
    BY DEF CountedIsBlind
  <2> DEFINE d == dossier.has
  <2>1. PICK t \in Times(d) : Eligible(d) /\ Dated(d, t)
    BY DEF DossierInv, Admitted, Passes
  <2>2. {"acquire", "seal", "truth", "project", "hypothesize", "reviewHypotheses", "design",
         "reviewTest", "execute", "plan", "reviewPlan", "recover", "settle", "unseal",
         "verify"} \subseteq Acts
    BY ActsByName DEF ActNames
  <2>3. /\ d.acquire.at \in Nat /\ d.seal.at \in Nat /\ d.truth.at \in Nat
        /\ d.project.at \in Nat /\ d.hypothesize.at \in Nat /\ d.reviewHypotheses.at \in Nat
        /\ d.design.at \in Nat /\ d.reviewTest.at \in Nat /\ d.execute.at \in Nat
        /\ d.plan.at \in Nat /\ d.reviewPlan.at \in Nat /\ d.recover.at \in Nat
        /\ d.settle.at \in Nat /\ d.unseal.at \in Nat /\ d.verify.at \in Nat
    BY <2>2, CompiledDates
  <2>4. /\ d.seal.on < d.seal.at /\ d.reviewHypotheses.on < d.reviewHypotheses.at
        /\ d.reviewTest.on < d.reviewTest.at
        /\ d.settle.at # d.unseal.at /\ d.settle.at # d.verify.at
    BY <2>2, CompiledDates
  <2>5. t.cutoff \in Nat /\ t.hypothesized \in Nat /\ t.planned \in Nat
    BY <2>1, <2>3 DEF Times
  <2>6. /\ d.acquire.at <= d.seal.at /\ d.seal.at <= t.cutoff /\ t.cutoff <= t.hypothesized
        /\ t.hypothesized <= d.reviewTest.at /\ d.reviewTest.at <= d.execute.at
        /\ d.execute.at <= t.planned /\ t.planned <= d.recover.at /\ d.recover.at <= d.settle.at
        /\ d.settle.at <= d.verify.at /\ d.settle.at <= d.unseal.at
    <3> DEFINE order == <<d.acquire.at, d.seal.at, t.cutoff, t.hypothesized,
                   d.reviewTest.at, d.execute.at, t.planned, d.recover.at,
                   d.settle.at, d.verify.at>>
    <3>1. /\ \A i \in 1..(Len(order) - 1) : order[i] <= order[i + 1]
          /\ d.settle.at <= d.unseal.at
      BY <2>1 DEF Dated, TimelineOrdered
    <3>2. /\ Len(order) = 10
          /\ order[1] = d.acquire.at /\ order[2] = d.seal.at /\ order[3] = t.cutoff
          /\ order[4] = t.hypothesized /\ order[5] = d.reviewTest.at
          /\ order[6] = d.execute.at /\ order[7] = t.planned /\ order[8] = d.recover.at
          /\ order[9] = d.settle.at /\ order[10] = d.verify.at
      OBVIOUS
    <3> HIDE DEF order, d
    <3>3. /\ order[1] <= order[2] /\ order[2] <= order[3] /\ order[3] <= order[4]
          /\ order[4] <= order[5] /\ order[5] <= order[6] /\ order[6] <= order[7]
          /\ order[7] <= order[8] /\ order[8] <= order[9] /\ order[9] <= order[10]
      <4>1. \A i \in 1..9 : order[i] <= order[i + 1]
        BY <3>1, <3>2
      <4>2. QED
        BY <4>1
    <3>4. QED
      BY <3>1, <3>2, <3>3
  <2>7. /\ d.seal.on = d.truth.at /\ ~d.unseal.opened
        /\ d.reviewHypotheses.on = d.hypothesize.at /\ d.reviewTest.on = d.design.at
    BY <2>1 DEF Eligible, CustodyHolds, ReviewsHold, Reviewed
  <2>8. d.project.at <= t.cutoff /\ d.reviewHypotheses.at <= d.reviewTest.at
        /\ d.reviewTest.at < d.execute.at
    BY <2>1 DEF Dated, ProjectionHolds, TimesMatch
  <2> HIDE DEF d
  <2>9. /\ d.hypothesize.at < d.execute.at /\ d.truth.at < d.execute.at
        /\ d.settle.at < d.unseal.at /\ d.settle.at < d.verify.at
    <3>1. d.truth.at < d.seal.at /\ d.hypothesize.at < d.reviewHypotheses.at
      BY <2>4, <2>7
    <3>2. d.seal.at <= d.reviewTest.at
      BY <2>3, <2>5, <2>6
    <3>3. QED
      BY <2>3, <2>4, <2>6, <2>8, <3>1, <3>2
  <2>10. d.project.at < d.unseal.at /\ d.hypothesize.at < d.unseal.at /\ d.design.at < d.unseal.at
    <3>1. d.execute.at <= d.settle.at
      BY <2>3, <2>5, <2>6
    <3>2. d.design.at < d.reviewTest.at
      BY <2>4, <2>7
    <3>3. d.project.at <= d.reviewTest.at
      BY <2>3, <2>5, <2>6, <2>8
    <3>4. QED
      BY <2>3, <2>8, <2>9, <3>1, <3>2, <3>3
  \* The unsealing the dossier names was the first one.
  <2>11. \A u \in log["unseal"] : d.unseal.at <= u.at
    <3>1. d.unseal \in log["unseal"]
      BY <2>2, CompiledDates DEF d
    <3>2. ASSUME NEW u \in log["unseal"] PROVE d.unseal.at <= u.at
      <4>1. ~(u.at < d.unseal.at)
        BY <2>7, <3>1 DEF DossierInv, Blindness
      <4>2. u.at \in Nat
        BY <2>2 DEF DossierInv, Dating
      <4>3. QED
        BY <2>3, <4>1, <4>2
    <3>3. QED
      BY <3>2
  <2>12. /\ group["evidence_curator"] \notin {group["truth_producer"], group["mechanism_reviewer"]}
         /\ group["hypothesis_proposer"] \notin {group["truth_producer"], group["mechanism_reviewer"]}
         /\ group["test_proposer"] \notin {group["truth_producer"], group["mechanism_reviewer"]}
    <3>1. ASSUME NEW x, NEW y, <<x, y>> \in ForbiddenPairs PROVE group[x] # group[y]
      <4>1. \A p \in ForbiddenPairs : group[p[1]] # group[p[2]]
        BY <2>1 DEF Eligible, RolesIndependent, Independent
      <4> HIDE DEF ForbiddenPairs
      <4>2. QED
        BY <3>1, <4>1
    <3>2. /\ <<"evidence_curator", "truth_producer">> \in ForbiddenPairs
          /\ <<"evidence_curator", "mechanism_reviewer">> \in ForbiddenPairs
          /\ <<"hypothesis_proposer", "truth_producer">> \in ForbiddenPairs
          /\ <<"hypothesis_proposer", "mechanism_reviewer">> \in ForbiddenPairs
          /\ <<"test_proposer", "truth_producer">> \in ForbiddenPairs
          /\ <<"test_proposer", "mechanism_reviewer">> \in ForbiddenPairs
      BY DEF ForbiddenPairs
    <3>3. /\ group["evidence_curator"] # group["truth_producer"]
          /\ group["evidence_curator"] # group["mechanism_reviewer"]
          /\ group["hypothesis_proposer"] # group["truth_producer"]
          /\ group["hypothesis_proposer"] # group["mechanism_reviewer"]
          /\ group["test_proposer"] # group["truth_producer"]
          /\ group["test_proposer"] # group["mechanism_reviewer"]
      BY <3>1, <3>2
    <3>4. QED
      BY <3>3
  <2>13. ASSUME NEW a \in DOMAIN Author, d[a].at < d.unseal.at,
                group[Author[a]] \notin {group["truth_producer"], group["mechanism_reviewer"]}
         PROVE  d[a].blind
    <3>1. d[a] \in log[a] /\ d[a].at \in Nat
      BY Subjects, CompiledDates DEF d
    <3>2. ~ \E u \in log["unseal"] : u.at < d[a].at
      <4>1. \A u \in log["unseal"] : u.at \in Nat
        BY <2>2 DEF DossierInv, Dating
      <4>2. QED
        BY <2>3, <2>11, <2>13, <3>1, <4>1
    <3>3. QED
      BY <2>13, <3>1, <3>2 DEF DossierInv, Blindness
  <2>14. d.hypothesize.blind /\ d.design.blind /\ d.project.blind
    <3>1. /\ Author["project"] = "evidence_curator" /\ Author["design"] = "test_proposer"
          /\ Author["hypothesize"] = "hypothesis_proposer"
      BY DEF Author
    <3>2. QED
      BY <2>10, <2>12, <2>13, <3>1, Subjects
  <2>15. QED
    BY <2>9, <2>14 DEF CountedIsBlind, d
<1>2. QED
  BY DossierInvariant, <1>1, PTL
=============================================================================
