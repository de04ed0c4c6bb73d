-------------------------- MODULE AcquisitionProofs --------------------------
(***************************************************************************)
(* What AcquisitionParts promises of its six smaller parts, for any number *)
(* of incidents, files, tests, writes, preparers and distributions.  Each  *)
(* part has an invariant of its own, which says nothing of a behaviour of  *)
(* another part: a step of a part leaves the part as it is, and is a step  *)
(* of that part's module or a stutter.                                     *)
(***************************************************************************)
EXTENDS AcquisitionParts, FiniteSetTheorems, WellFoundedInduction,
        SequenceTheorems, TLAPS

(***************************************************************************)
(* AcquisitionAudit.                                                       *)
(***************************************************************************)

AfterShared == {"gates", "verdict"}
AfterIdentity == {"shared"} \cup AfterShared
AfterDossiers == {"identity"} \cup AfterIdentity
AfterSources == {"dossiers"} \cup AfterDossiers
AfterLoad == {"sources"} \cup AfterSources

(* What is known of the input after each check, if no failure was noted.     *)
LoadedWell ==
  stage \in AfterLoad =>
    /\ ~Audit!Slip("unreadable") /\ ~Audit!Slip("trust")
    /\ failures = {} =>
         \A d \in Audit!Submitted :
           /\ d \notin Audit!Spoiled("sourceless") /\ Audit!Registered(Audit!Value("incident", d))
           /\ Audit!Value("root", d) = Audit!Value("incident", d)

SourcedWell ==
  stage \in AfterSources /\ failures = {} /\ "source-rights" \notin gates =>
    ~Audit!Slip("sourceRoles") /\ ~Audit!Slip("rights") /\ ~Audit!Slip("unstaged")

VerifiedWell ==
  stage \in AfterDossiers /\ failures = {} =>
    eligible = Audit!Submitted /\ Audit!Spoiled("unsound") \cap Audit!Submitted = {}

ComparedWell ==
  stage \in AfterIdentity /\ failures = {} => Audit!Independent(eligible)

SharedWell ==
  stage \in AfterShared /\ failures = {} =>
    /\ \A s \in {"locks", "shortcut", "comparators", "reviews", "usage", "ceiling"} : ~Audit!Slip(s)
    /\ Audit!Submitted # {} => ~Audit!Slip("late")

JudgedWell ==
  stage = "verdict" =>
    /\ "artifact-integrity" \notin gates => failures = {}
    /\ "conjunctive-coverage" \notin gates => Audit!Covers

AuditInv ==
  part = "audit" =>
    /\ \E s, t : auditSlips \subseteq {s, t}
    /\ stage \in AfterLoad \cup {"load"} => verdict = "none"
    /\ LoadedWell /\ SourcedWell /\ VerifiedWell /\ ComparedWell /\ SharedWell /\ JudgedWell
    /\ Audit!PassIsEarned

LEMMA SameAuditCardinality == \A S : Audit!Cardinality(S) = Cardinality(S)
<1>1. \A S : Audit!IsFiniteSet(S) = IsFiniteSet(S)
  BY DEF Audit!IsFiniteSet, IsFiniteSet
<1> QED
  BY DEF Audit!Cardinality, Cardinality

LEMMA FiniteDossiers ==
  /\ IsFiniteSet(Audit!Submitted) /\ Audit!Submitted \subseteq 1..4
<1>1. IsFiniteSet(1..4)
  <2>1. \A n \in Nat : IsFiniteSet(1..n)
    BY FS_Interval
  <2>2. 4 \in Nat
    OBVIOUS
  <2> QED
    BY <2>1, <2>2, Zenon
<1>2. Audit!Submitted \subseteq 1..4
  BY DEF Audit!Submitted, Audit!Dossiers
<1> QED
  BY <1>1, <1>2, FS_Subset

(* The values of an aspect are as many as the dossiers only if no two share one. *)
LEMMA UniqueIsInjective ==
  ASSUME NEW S, IsFiniteSet(S), NEW a, Audit!Unique(a, S),
         NEW d \in S, NEW e \in S, Audit!Value(a, d) = Audit!Value(a, e)
  PROVE  d = e
<1> DEFINE f == [c \in S |-> Audit!Value(a, c)]
           T == Audit!Values(a, S)
<1>1. f \in Surjection(S, T)
  BY DEF Surjection, Audit!Values
<1>2. Cardinality(T) = Cardinality(S)
  BY SameAuditCardinality DEF Audit!Unique
<1> HIDE DEF T
<1>3. f \in Injection(S, T)
  BY <1>1, <1>2, FS_Surjection
<1>4. f[d] = f[e] => d = e
  BY <1>3 DEF Injection, IsInjective
<1> QED
  BY <1>4

(* If all dossiers that have value v of a have one value of b, two of them have the same. *)
LEMMA OneValue ==
  ASSUME NEW S, IsFiniteSet(S), NEW a, NEW b, NEW d \in S, NEW e \in S,
         Audit!Value(a, d) = Audit!Value(a, e),
         \A v \in Audit!Values(a, S) :
           Audit!Cardinality(Audit!Values(b, Audit!Having(a, v, S))) = 1
  PROVE  Audit!Value(b, d) = Audit!Value(b, e)
<1> DEFINE H == Audit!Having(a, Audit!Value(a, d), S)
           T == Audit!Values(b, H)
<1>1. Audit!Value(a, d) \in Audit!Values(a, S)
  BY DEF Audit!Values
<1>2. Cardinality(T) = 1
  BY <1>1, SameAuditCardinality
<1>3. H \subseteq S /\ d \in H /\ e \in H
  BY DEF Audit!Having
<1>4. IsFiniteSet(H)
  BY <1>3, FS_Subset
<1> HIDE DEF H
<1>5. IsFiniteSet(T)
  <2> DEFINE f == [c \in H |-> Audit!Value(b, c)]
  <2>1. f \in Surjection(H, T)
    BY DEF Surjection, Audit!Values
  <2> HIDE DEF f, T
  <2> QED
    BY <1>4, <2>1, FS_Surjection
<1>6. Audit!Value(b, d) \in T /\ Audit!Value(b, e) \in T
  BY <1>3 DEF Audit!Values
<1> HIDE DEF T
<1>7. PICK w : T = {w}
  BY <1>2, <1>5, FS_Singleton
<1> QED
  BY <1>6, <1>7

(* Where two values at least are asked for, a dossier has another beside it  *)
(* with another value.                                                       *)
LEMMA SpreadHasAnother ==
  ASSUME NEW S, IsFiniteSet(S), NEW a, NEW b, NEW d \in S,
         Audit!Cardinality(Audit!Values(b, Audit!Having(a, Audit!Value(a, d), S))) >= 2
  PROVE  \E e \in S : Audit!Value(a, e) = Audit!Value(a, d) /\ Audit!Value(b, e) # Audit!Value(b, d)
<1> DEFINE T == Audit!Values(b, Audit!Having(a, Audit!Value(a, d), S))
<1> SUFFICES ASSUME \A e \in S : Audit!Value(a, e) = Audit!Value(a, d)
                                   => Audit!Value(b, e) = Audit!Value(b, d)
             PROVE  FALSE
  OBVIOUS
<1>1. T = {Audit!Value(b, d)}
  BY DEF Audit!Values, Audit!Having
<1>2. Cardinality(T) = 1
  BY <1>1, FS_Singleton
<1>3. Cardinality(T) >= 2
  BY SameAuditCardinality
<1> HIDE DEF T
<1> QED
  BY <1>2, <1>3

(* What independence and coverage say of the dossiers, two by two and one by *)
(* one.                                                                      *)
LEMMA NothingIsShared ==
  ASSUME NEW S, S = Audit!Submitted, Audit!Independent(S), Audit!Unique("incident", S),
         NEW d \in S, NEW e \in S, NEW a \in Audit!OwnIdentity,
         Audit!Value(a, d) = Audit!Value(a, e)
  PROVE  d = e
<1>1. IsFiniteSet(S)
  BY FiniteDossiers
<1>2. CASE a = "session"
  <2>1. Audit!Value("group", d) = Audit!Value("group", e)
    BY <1>1, <1>2, OneValue DEF Audit!Independent
  <2> QED
    BY <1>1, <2>1, UniqueIsInjective DEF Audit!Independent
<1>3. CASE a # "session"
  <2>1. Audit!Unique(a, S)
    BY <1>3 DEF Audit!Independent, Audit!OwnIdentity
  <2> QED
    BY <1>1, <2>1, UniqueIsInjective
<1> QED
  BY <1>2, <1>3

LEMMA EveryFaultIsSpread ==
  ASSUME NEW S, S = Audit!Submitted, S = eligible, Audit!Independent(S), Audit!Covers
  PROVE  \A d \in S : \E e \in S :
           /\ Audit!Value("fault", e) = Audit!Value("fault", d)
           /\ Audit!Value("family", e) # Audit!Value("family", d)
           /\ Audit!Value("machine", e) # Audit!Value("machine", d)
<1> TAKE d \in S
<1>1. IsFiniteSet(S)
  BY FiniteDossiers
<1> DEFINE n == Audit!Cardinality(Audit!Values("family", Audit!Having("fault", Audit!Value("fault", d), S)))
<1>2. n >= Floor.familiesPerFault
  BY DEF Audit!Covers, Audit!Spread, Audit!Values
<1>3. n \in Nat
  <2> DEFINE H == Audit!Having("fault", Audit!Value("fault", d), S)
             T == Audit!Values("family", H)
             f == [c \in H |-> Audit!Value("family", c)]
  <2>1. IsFiniteSet(H)
    BY <1>1, FS_Subset DEF Audit!Having
  <2> HIDE DEF H
  <2>2. f \in Surjection(H, T)
    BY DEF Surjection, Audit!Values
  <2> HIDE DEF f, T
  <2>3. Cardinality(T) \in Nat
    BY <2>1, <2>2, FS_Surjection, FS_CardinalityType
  <2> QED
    BY <2>3, SameAuditCardinality DEF H, T
<1>4. n >= 2
  <2> HIDE DEF n
  <2> QED
    BY <1>2, <1>3, FloorAssumption
<1>5. PICK e \in S : /\ Audit!Value("fault", e) = Audit!Value("fault", d)
                     /\ Audit!Value("family", e) # Audit!Value("family", d)
  BY <1>1, <1>4, SpreadHasAnother
<1>6. Audit!Value("machine", e) # Audit!Value("machine", d)
  BY <1>1, <1>5, OneValue DEF Audit!Independent
<1> QED
  BY <1>5, <1>6

(* With two slips nothing unregistered goes by another's name and root group. *)
LEMMA NoneUnregistered ==
  ASSUME \E s, t : auditSlips \subseteq {s, t}, NEW d \in Audit!Submitted,
         Audit!Registered(Audit!Value("incident", d)),
         Audit!Value("root", d) = Audit!Value("incident", d)
  PROVE  <<"unregistered", d>> \notin auditSlips
<1> SUFFICES ASSUME <<"unregistered", d>> \in auditSlips PROVE FALSE
  OBVIOUS
<1>1. Audit!Value("incident", d) # d
  BY DEF Audit!Registered
<1>2. \A a \in {"incident", "root"} :
         Audit!Value(a, d) # d => \E c \in Audit!Dossiers : <<a, c, d>> \in auditSlips
  <2> TAKE a \in {"incident", "root"}
  <2> DEFINE lent == {c \in Audit!Dossiers : <<a, c, d>> \in auditSlips}
  <2>1. a \notin DOMAIN Audit!Design
    BY DEF Audit!Design
  <2>2. lent = {} => Audit!Value(a, d) = d
    BY <2>1 DEF Audit!Value
  <2> QED
    BY <2>2
<1>3. PICK b, c : <<"incident", b, d>> \in auditSlips /\ <<"root", c, d>> \in auditSlips
  BY <1>1, <1>2
<1>4. /\ <<"incident", b, d>> # <<"root", c, d>>
      /\ <<"unregistered", d>> # <<"root", c, d>> /\ <<"unregistered", d>> # <<"incident", b, d>>
  OBVIOUS
<1> QED
  BY <1>3, <1>4

(* The audit's operators read the slips alone. *)
LEMMA SameSlips ==
  ASSUME auditSlips' = auditSlips
  PROVE  /\ Audit!Submitted' = Audit!Submitted
         /\ \A s : /\ (Audit!Slip(s)' <=> Audit!Slip(s))
                   /\ Audit!Spoiled(s)' = Audit!Spoiled(s)
                   /\ (Audit!Registered(s)' <=> Audit!Registered(s))
         /\ \A a, d : Audit!Value(a, d)' = Audit!Value(a, d)
         /\ \A a, S : Audit!Values(a, S)' = Audit!Values(a, S)
         /\ \A a, v, S : Audit!Having(a, v, S)' = Audit!Having(a, v, S)
         /\ \A S : Audit!Independent(S)' <=> Audit!Independent(S)
<1>1. \A s : Audit!Slip(s)' <=> Audit!Slip(s)
  BY DEF Audit!Slip
<1>2. \A s : Audit!Spoiled(s)' = Audit!Spoiled(s) /\ (Audit!Registered(s)' <=> Audit!Registered(s))
  BY DEF Audit!Spoiled, Audit!Registered
<1>3. Audit!Submitted' = Audit!Submitted
  BY <1>2 DEF Audit!Submitted
<1>4. \A a, d : Audit!Value(a, d)' = Audit!Value(a, d)
  BY DEF Audit!Value
<1>5. \A a, S : Audit!Values(a, S)' = Audit!Values(a, S)
  BY <1>4 DEF Audit!Values
<1>6. \A a, v, S : Audit!Having(a, v, S)' = Audit!Having(a, v, S)
  BY <1>4 DEF Audit!Having
<1>7. \A S : Audit!Independent(S)' <=> Audit!Independent(S)
  BY <1>5, <1>6 DEF Audit!Independent, Audit!Unique
<1> QED
  BY <1>1, <1>2, <1>3, <1>4, <1>5, <1>6, <1>7

LEMMA SameEarned ==
  ASSUME auditSlips' = auditSlips, Audit!PassIsEarned,
         verdict' = verdict \/ verdict' \notin {"PASS_PILOT", "KILL_CONSTRUCT"}
  PROVE  Audit!PassIsEarned'
<1>1. CASE verdict' \notin {"PASS_PILOT", "KILL_CONSTRUCT"}
  BY <1>1 DEF Audit!PassIsEarned
<1>2. CASE verdict' = verdict /\ verdict' \in {"PASS_PILOT", "KILL_CONSTRUCT"}
  <2>1. \A d, e \in Audit!Submitted' :
          d # e => \A a \in Audit!OwnIdentity : Audit!Value(a, d)' # Audit!Value(a, e)'
    BY <1>2, SameSlips DEF Audit!PassIsEarned
  <2>2. Audit!Cardinality(Audit!Submitted)' >= Floor.incidents
    BY <1>2, SameSlips DEF Audit!PassIsEarned
  <2>3. \A s \in {"unsound", "unregistered", "sourceless"} :
          Audit!Spoiled(s)' \cap Audit!Submitted' = {}
    BY <1>2, SameSlips DEF Audit!PassIsEarned
  <2>4. \A d \in Audit!Submitted' : \E e \in Audit!Submitted' :
           /\ Audit!Value("fault", e)' = Audit!Value("fault", d)'
           /\ Audit!Value("family", e)' # Audit!Value("family", d)'
           /\ Audit!Value("machine", e)' # Audit!Value("machine", d)'
    BY <1>2, SameSlips DEF Audit!PassIsEarned
  <2>5. \A s \in Audit!SharedSlips \ {"resolves"} : ~Audit!Slip(s)'
    BY <1>2, SameSlips DEF Audit!PassIsEarned
  <2> QED
    BY <2>1, <2>2, <2>3, <2>4, <2>5 DEF Audit!PassIsEarned
<1> QED
  BY <1>1, <1>2

LEMMA InitAudit == PartsInit => AuditInv
<1> SUFFICES ASSUME part = "audit", PartsInit PROVE AuditInv
  BY DEF AuditInv
<1>1. Audit!Init
  BY DEF PartsInit
<1>2. \E s, t : auditSlips \subseteq {s, t}
  BY <1>1 DEF Audit!Init
<1> QED
  BY <1>1, <1>2
  DEF Audit!Init, AuditInv, LoadedWell, SourcedWell, VerifiedWell, ComparedWell, SharedWell,
      JudgedWell, AfterLoad, AfterSources, AfterDossiers, AfterIdentity, AfterShared,
      Audit!PassIsEarned

(* A check that goes on to the next only adds to what is noted. *)
LEMMA ChecksAudit ==
  ASSUME AuditInv, part = "audit",
         Audit!Load \/ Audit!Sources \/ Audit!VerifyDossiers \/ Audit!CompareIdentities
           \/ Audit!SharedInputs
  PROVE  /\ auditSlips' = auditSlips /\ verdict' \in {"none", "refused"}
         /\ stage' \in AfterLoad \cup {"load"} => verdict' = "none"
         /\ LoadedWell' /\ SourcedWell' /\ VerifiedWell' /\ ComparedWell' /\ SharedWell'
         /\ JudgedWell'
<1> USE DEF AfterLoad, AfterSources, AfterDossiers, AfterIdentity, AfterShared
<1>0. auditSlips' = auditSlips
  BY DEF Audit!Load, Audit!Sources, Audit!VerifyDossiers, Audit!CompareIdentities,
         Audit!SharedInputs
<1>1. CASE Audit!Load
  <2>1. CASE Audit!Slip("unreadable") \/ Audit!Slip("trust")
    BY <1>0, <1>1, <2>1
    DEF Audit!Load, Audit!Refuse, Audit!Go, LoadedWell, SourcedWell, VerifiedWell, ComparedWell,
        SharedWell, JudgedWell
  <2>2. CASE ~(Audit!Slip("unreadable") \/ Audit!Slip("trust"))
    <3>1. stage' = "sources" /\ verdict' = "none"
      BY <1>1, <2>2 DEF Audit!Load, Audit!Go, AuditInv
    <3>2. ASSUME failures' = {}, NEW d \in Audit!Submitted
          PROVE  /\ d \notin Audit!Spoiled("sourceless")
                 /\ Audit!Registered(Audit!Value("incident", d))
                 /\ Audit!Value("root", d) = Audit!Value("incident", d)
      BY <1>1, <2>2, <3>2 DEF Audit!Load, Audit!Noted, Audit!When
    <3>3. LoadedWell'
      BY <1>0, <2>2, <3>2, SameSlips DEF LoadedWell
    <3> QED
      BY <1>0, <3>1, <3>3 DEF SourcedWell, VerifiedWell, ComparedWell, SharedWell, JudgedWell
  <2> QED
    BY <2>1, <2>2
<1>2. CASE Audit!Sources
  <2>1. /\ stage = "sources" /\ stage' = "dossiers" /\ verdict' = "none" /\ failures \subseteq failures'
        /\ gates \subseteq gates'
    BY <1>2 DEF Audit!Sources, Audit!Go, Audit!Noted, AuditInv
  <2>2. SourcedWell'
    BY <1>0, <1>2, SameSlips DEF Audit!Sources, Audit!Noted, Audit!When, SourcedWell
  <2>3. LoadedWell'
    BY <1>0, <2>1, SameSlips DEF LoadedWell, AuditInv
  <2> QED
    BY <1>0, <2>1, <2>2, <2>3 DEF VerifiedWell, ComparedWell, SharedWell, JudgedWell
<1>3. CASE Audit!VerifyDossiers
  <2>1. /\ stage = "dossiers" /\ stage' = "identity" /\ verdict' = "none" /\ failures \subseteq failures'
        /\ gates' = gates
    BY <1>3 DEF Audit!VerifyDossiers, Audit!Go, Audit!Noted, AuditInv
  <2>2. failures' = {} => eligible' = Audit!Submitted /\ Audit!Spoiled("unsound") \cap Audit!Submitted = {}
    BY <1>3 DEF Audit!VerifyDossiers, Audit!Verified, Audit!Noted, Audit!When
  <2>3. LoadedWell' /\ SourcedWell'
    BY <1>0, <2>1, SameSlips DEF LoadedWell, SourcedWell, AuditInv
  <2>4. VerifiedWell'
    BY <1>0, <2>2, SameSlips DEF VerifiedWell
  <2> QED
    BY <1>0, <2>1, <2>3, <2>4 DEF ComparedWell, SharedWell, JudgedWell
<1>4. CASE Audit!CompareIdentities
  <2>1. /\ stage = "identity" /\ stage' = "shared" /\ verdict' = "none" /\ failures \subseteq failures'
        /\ gates' = gates /\ eligible' = eligible
    BY <1>4 DEF Audit!CompareIdentities, Audit!Go, Audit!Noted, AuditInv
  <2>2. failures' = {} => Audit!Independent(eligible)
    BY <1>4 DEF Audit!CompareIdentities, Audit!Noted, Audit!When
  <2>3. LoadedWell' /\ SourcedWell' /\ VerifiedWell'
    BY <1>0, <2>1, SameSlips DEF LoadedWell, SourcedWell, VerifiedWell, AuditInv
  <2>4. ComparedWell'
    BY <1>0, <2>1, <2>2, SameSlips DEF ComparedWell
  <2> QED
    BY <1>0, <2>1, <2>3, <2>4 DEF SharedWell, JudgedWell
<1>5. CASE Audit!SharedInputs
  <2>1. /\ stage = "shared" /\ stage' = "gates" /\ verdict' = "none" /\ failures \subseteq failures'
        /\ gates' = gates /\ eligible' = eligible
    BY <1>5 DEF Audit!SharedInputs, Audit!Go, Audit!Noted, AuditInv
  <2>2. failures' = {} =>
          /\ \A s \in {"locks", "shortcut", "comparators", "reviews", "usage", "ceiling"} : ~Audit!Slip(s)
          /\ Audit!Submitted # {} => ~Audit!Slip("late")
    BY <1>5 DEF Audit!SharedInputs, Audit!Noted, Audit!When
  <2>3. LoadedWell' /\ SourcedWell' /\ VerifiedWell' /\ ComparedWell'
    BY <1>0, <2>1, SameSlips DEF LoadedWell, SourcedWell, VerifiedWell, ComparedWell, AuditInv
  <2>4. SharedWell'
    BY <1>0, <2>2, SameSlips DEF SharedWell
  <2> QED
    BY <1>0, <2>1, <2>3, <2>4 DEF JudgedWell
<1> QED
  BY <1>0, <1>1, <1>2, <1>3, <1>4, <1>5

LEMMA GatesAudit ==
  ASSUME AuditInv, part = "audit", Audit!JudgeGates
  PROVE  /\ auditSlips' = auditSlips /\ verdict' = "none"
         /\ LoadedWell' /\ SourcedWell' /\ VerifiedWell' /\ ComparedWell' /\ SharedWell'
         /\ JudgedWell'
<1> USE DEF AfterLoad, AfterSources, AfterDossiers, AfterIdentity, AfterShared
<1>1. /\ stage = "gates" /\ stage' = "verdict" /\ verdict' = "none" /\ auditSlips' = auditSlips
      /\ gates \subseteq gates' /\ UNCHANGED <<eligible, failures, axes>>
  BY DEF Audit!JudgeGates, Audit!Go, AuditInv
<1>2. LoadedWell' /\ SourcedWell' /\ VerifiedWell' /\ ComparedWell' /\ SharedWell'
  BY <1>1, SameSlips
  DEF LoadedWell, SourcedWell, VerifiedWell, ComparedWell, SharedWell, AuditInv
<1>3. /\ "artifact-integrity" \notin gates' => failures = {}
      /\ "conjunctive-coverage" \notin gates' => Audit!Covers
  BY DEF Audit!JudgeGates, Audit!When
<1>4. Audit!Covers' = Audit!Covers
  BY <1>1, SameSlips DEF Audit!Covers, Audit!Seen, Audit!Spread
<1> QED
  BY <1>1, <1>2, <1>3, <1>4 DEF JudgedWell

(* The report is what has to have everything behind it. *)
LEMMA ReportAudit ==
  ASSUME AuditInv, part = "audit", Audit!Report
  PROVE  auditSlips' = auditSlips /\ stage' = "done" /\ Audit!PassIsEarned'
<1> USE DEF AfterLoad, AfterSources, AfterDossiers, AfterIdentity, AfterShared
<1> DEFINE S == Audit!Submitted
<1>1. /\ stage = "verdict" /\ stage' = "done" /\ auditSlips' = auditSlips
      /\ \/ Audit!ReportIsValid /\ verdict' = Audit!Verdict
         \/ verdict' = "raised"
  BY DEF Audit!Report, Audit!Go
<1>2. CASE verdict' \notin {"PASS_PILOT", "KILL_CONSTRUCT"}
  BY <1>1, <1>2 DEF Audit!PassIsEarned
<1>3. CASE verdict' \in {"PASS_PILOT", "KILL_CONSTRUCT"}
  <2>1. /\ "artifact-integrity" \notin gates /\ "source-rights" \notin gates
        /\ "conjunctive-coverage" \notin gates /\ Audit!ReportIsValid
    BY <1>1, <1>3 DEF Audit!Verdict
  <2>2. failures = {} /\ Audit!Covers
    BY <1>1, <2>1 DEF AuditInv, JudgedWell
  <2>3. /\ eligible = S /\ Audit!Spoiled("unsound") \cap S = {} /\ Audit!Independent(S)
        /\ Audit!Unique("incident", S) /\ S # {}
    BY <1>1, <2>1, <2>2
    DEF AuditInv, VerifiedWell, ComparedWell, Audit!ReportIsValid, Audit!Covers, Audit!Spread
  <2>4. \A d, e \in S :
          d # e => \A a \in Audit!OwnIdentity : Audit!Value(a, d) # Audit!Value(a, e)
    BY <2>3, NothingIsShared
  <2>5. Audit!Cardinality(S) >= Floor.incidents
    BY <2>2, <2>3 DEF Audit!Covers
  <2>6. \A s \in {"unsound", "unregistered", "sourceless"} : Audit!Spoiled(s) \cap S = {}
    <3>1. \A d \in S : /\ d \notin Audit!Spoiled("sourceless") /\ Audit!Registered(Audit!Value("incident", d))
                       /\ Audit!Value("root", d) = Audit!Value("incident", d)
      BY <1>1, <2>2 DEF AuditInv, LoadedWell
    <3>2. \A d \in S : <<"unregistered", d>> \notin auditSlips
      BY <3>1, NoneUnregistered DEF AuditInv
    <3>3. Audit!Spoiled("unregistered") \cap S = {} /\ Audit!Spoiled("sourceless") \cap S = {}
      BY <3>1, <3>2 DEF Audit!Spoiled
    <3> QED
      BY <2>3, <3>3
  <2>7. \A d \in S : \E e \in S :
          /\ Audit!Value("fault", e) = Audit!Value("fault", d)
          /\ Audit!Value("family", e) # Audit!Value("family", d)
          /\ Audit!Value("machine", e) # Audit!Value("machine", d)
    BY <2>2, <2>3, EveryFaultIsSpread
  <2>8. \A s \in Audit!SharedSlips \ {"resolves"} : ~Audit!Slip(s)
    BY <1>1, <2>1, <2>2, <2>3
    DEF AuditInv, LoadedWell, SourcedWell, SharedWell, Audit!SharedSlips
  <2>9. \A d, e \in Audit!Submitted' :
          d # e => \A a \in Audit!OwnIdentity : Audit!Value(a, d)' # Audit!Value(a, e)'
    BY <1>1, <2>4, SameSlips
  <2>10. Audit!Cardinality(Audit!Submitted)' >= Floor.incidents
    BY <1>1, <2>5, SameSlips
  <2>11. \A s \in {"unsound", "unregistered", "sourceless"} :
           Audit!Spoiled(s)' \cap Audit!Submitted' = {}
    BY <1>1, <2>6, SameSlips
  <2>12. \A d \in Audit!Submitted' : \E e \in Audit!Submitted' :
           /\ Audit!Value("fault", e)' = Audit!Value("fault", d)'
           /\ Audit!Value("family", e)' # Audit!Value("family", d)'
           /\ Audit!Value("machine", e)' # Audit!Value("machine", d)'
    BY <1>1, <2>7, SameSlips
  <2>13. \A s \in Audit!SharedSlips \ {"resolves"} : ~Audit!Slip(s)'
    BY <1>1, <2>8, SameSlips
  <2>14. Audit!PassIsEarned'
    BY <2>9, <2>10, <2>11, <2>12, <2>13 DEF Audit!PassIsEarned
  <2> QED
    BY <1>1, <2>14
<1> QED
  BY <1>1, <1>2, <1>3

LEMMA NextAudit == AuditInv /\ [PartsNext]_partsVars => AuditInv'
<1> USE DEF AfterLoad, AfterSources, AfterDossiers, AfterIdentity, AfterShared
<1> SUFFICES ASSUME AuditInv, [PartsNext]_partsVars, part' = "audit" PROVE AuditInv'
  BY DEF AuditInv
<1>0. part = "audit" /\ part' = part
  BY DEF PartsNext, partsVars, DossierStep, AuditStep, TreeStep, ControlStep, GateStep,
         RunnerStep, ClosureStep
<1>1. Audit!PassIsEarned /\ \E s, t : auditSlips \subseteq {s, t}
  BY <1>0 DEF AuditInv
<1>2. CASE UNCHANGED partsVars
  <2>1. UNCHANGED <<auditSlips, stage, eligible, failures, gates, axes, kill, verdict>>
    BY <1>2 DEF partsVars, auditVars
  <2>2. LoadedWell' /\ SourcedWell' /\ VerifiedWell' /\ ComparedWell' /\ SharedWell'
    BY <1>0, <2>1, SameSlips
    DEF LoadedWell, SourcedWell, VerifiedWell, ComparedWell, SharedWell, AuditInv
  <2>3. Audit!Covers' = Audit!Covers
    BY <2>1, SameSlips DEF Audit!Covers, Audit!Seen, Audit!Spread
  <2>4. JudgedWell'
    BY <1>0, <2>1, <2>3 DEF JudgedWell, AuditInv
  <2>5. Audit!PassIsEarned'
    BY <1>1, <2>1, SameEarned
  <2> QED
    BY <1>0, <1>1, <2>1, <2>2, <2>4, <2>5 DEF AuditInv
<1>3. CASE Audit!Load \/ Audit!Sources \/ Audit!VerifyDossiers \/ Audit!CompareIdentities
             \/ Audit!SharedInputs
  <2>1. auditSlips' = auditSlips /\ verdict' \in {"none", "refused"}
    BY <1>0, <1>3, ChecksAudit
  <2>2. Audit!PassIsEarned'
    BY <1>1, <2>1, SameEarned
  <2> QED
    BY <1>0, <1>1, <1>3, <2>1, <2>2, ChecksAudit DEF AuditInv
<1>4. CASE Audit!JudgeGates
  <2>1. auditSlips' = auditSlips /\ verdict' = "none"
    BY <1>0, <1>4, GatesAudit
  <2>2. Audit!PassIsEarned'
    BY <1>1, <2>1, SameEarned
  <2> QED
    BY <1>0, <1>1, <1>4, <2>1, <2>2, GatesAudit DEF AuditInv
<1>5. CASE Audit!Report
  <2>1. auditSlips' = auditSlips /\ stage' = "done" /\ Audit!PassIsEarned'
    BY <1>0, <1>5, ReportAudit
  <2> QED
    BY <1>1, <2>1
    DEF AuditInv, LoadedWell, SourcedWell, VerifiedWell, ComparedWell, SharedWell, JudgedWell
<1> QED
  BY <1>0, <1>2, <1>3, <1>4, <1>5
  DEF PartsNext, DossierStep, AuditStep, TreeStep, ControlStep, GateStep, RunnerStep,
      ClosureStep, Audit!Next

(* PassIsEarned for all floors that ask for two families of every fault. *)
THEOREM PassesAreEarned == PartsSpec => []PassIsEarned
<1>1. AuditInv => PassIsEarned
  BY DEF AuditInv, PassIsEarned
<1> QED
  BY InitAudit, NextAudit, <1>1, PTL DEF PartsSpec

(***************************************************************************)
(* TreeCensus.                                                             *)
(***************************************************************************)

Directories == {"root", "sub"}

TwoParts(text) == text \in Seq(Int) /\ Len(text) = 2

Object(o) ==
  /\ objects[o] = [text |-> objects[o].text, stamp |-> objects[o].stamp]
  /\ TwoParts(objects[o].text) /\ objects[o].text[1] <= changes /\ objects[o].text[2] <= changes
  /\ objects[o].stamp \in Int /\ objects[o].stamp <= changes

(* The tree: no stamp or content is of a later change, no object has two     *)
(* names, and what a name holds is in its history.                           *)
WorldFits ==
  /\ changes \in Nat /\ entry \in [Tree!Files -> Int] /\ stamps \in [Directories -> Int]
  /\ objects = [o \in DOMAIN objects |-> objects[o]]
  /\ \A o \in DOMAIN objects : o \in Int /\ o # 0 /\ o <= changes /\ Object(o)
  /\ \A f \in Tree!Files : entry[f] = 0 \/ entry[f] \in DOMAIN objects
  /\ entry["a"] = entry["b"] => entry["a"] = 0
  /\ \A d \in Directories : stamps[d] <= changes
  /\ \A f \in Tree!Files : entry[f] # 0 => <<f, Tree!Text(f)>> \in history

(* What a change of the writer may do to what a reader has seen. *)
Moves ==
  /\ changes' = changes + 1 /\ history \subseteq history' /\ reader' = reader
  /\ \A o \in DOMAIN objects :
       /\ o \in DOMAIN objects'
       /\ objects'[o] = objects[o] \/ objects'[o].stamp = changes + 1
  /\ \A f \in Tree!Files :
       \/ entry'[f] = entry[f]
       \/ /\ entry'[f] = 0 \/ entry'[f] \notin DOMAIN objects
          /\ stamps'[Tree!Place[f]] = changes + 1
  /\ \A d \in Directories : stamps'[d] = stamps[d] \/ stamps'[d] = changes + 1
  /\ \A f \in Tree!Files, i \in 1..2 :
       entry'[f] # 0 =>
         \/ Tree!Text(f)'[i] = changes + 1
         \/ entry[f] # 0 /\ Tree!Text(f)'[i] = Tree!Text(f)[i]

LEMMA PartsAreNumbers ==
  ASSUME NEW s, TwoParts(s), NEW i \in 1..2
  PROVE  s[i] \in Int
<1>1. s \in Seq(Int) /\ i \in 1..Len(s)
  BY DEF TwoParts
<1> QED
  BY <1>1, ElementOfSeq

LEMMA PlacesOfFiles ==
  /\ Tree!Files = {"a", "b"} /\ Tree!Place["a"] = "root" /\ Tree!Place["b"] = "sub"
  /\ Tree!Gone = 0 /\ Tree!Root = "root" /\ Tree!Sub = "sub"
BY DEF Tree!Files, Tree!Place, Tree!Gone, Tree!Root, Tree!Sub

(* An object is one after a change too, if the change brings nothing later. *)
LEMMA ChangedObject ==
  ASSUME NEW o, NEW text, NEW t \in Int, changes \in Nat, changes' = changes + 1,
         objects'[o] = [text |-> text, stamp |-> t], t <= changes + 1,
         TwoParts(text), text[1] <= changes + 1, text[2] <= changes + 1
  PROVE  Object(o)'
<1>1. objects'[o].text = text /\ objects'[o].stamp = t
  OBVIOUS
<1> QED
  BY <1>1 DEF Object, TwoParts

LEMMA KeptObject ==
  ASSUME NEW o, changes \in Nat, changes' = changes + 1, Object(o),
         \/ objects'[o] = objects[o]
         \/ objects'[o] = [objects[o] EXCEPT !.stamp = changes + 1]
  PROVE  Object(o)' /\ objects'[o].text = objects[o].text
         /\ (objects'[o] = objects[o] \/ objects'[o].stamp = changes + 1)
<1> DEFINE text == objects[o].text
<1>1. /\ TwoParts(text) /\ text[1] <= changes /\ text[2] <= changes
      /\ objects[o] = [text |-> text, stamp |-> objects[o].stamp]
      /\ objects[o].stamp \in Int /\ objects[o].stamp <= changes
  BY DEF Object
<1>2. text[1] \in Int /\ text[2] \in Int
  BY <1>1 DEF TwoParts
<1>3. text[1] <= changes + 1 /\ text[2] <= changes + 1 /\ objects[o].stamp <= changes + 1
  BY <1>1, <1>2
<1> HIDE DEF text
<1>4. PICK s \in Int : s <= changes + 1 /\ objects'[o] = [text |-> text, stamp |-> s]
  BY <1>1, <1>3
<1> QED
  BY <1>1, <1>2, <1>3, <1>4, ChangedObject DEF text

LEMMA OnePart ==
  ASSUME NEW s, TwoParts(s), NEW i \in 1..2, NEW v \in Int
  PROVE  LET t == [s EXCEPT ![i] = v]
         IN  TwoParts(t) /\ t[i] = v /\ \A j \in 1..2 : j # i => t[j] = s[j]
<1>1. s \in Seq(Int) /\ Len(s) = 2 /\ i \in 1..Len(s)
  BY DEF TwoParts
<1>2. /\ [s EXCEPT ![i] = v] \in Seq(Int) /\ Len([s EXCEPT ![i] = v]) = Len(s)
      /\ \A j \in 1..Len(s) : [s EXCEPT ![i] = v][j] = IF j = i THEN v ELSE s[j]
  BY <1>1, ExceptSeq
<1> QED
  BY <1>1, <1>2 DEF TwoParts

LEMMA WriteMoves ==
  ASSUME WorldFits, NEW f \in Tree!Files, NEW i \in 1..2, Tree!Write(f, i)
  PROVE  WorldFits' /\ Moves
<1>0. PICK o : o = entry[f]
  OBVIOUS
<1> DEFINE text == [objects[o].text EXCEPT ![i] = changes + 1]
<1>1. /\ o # 0 /\ o \in DOMAIN objects /\ changes' = changes + 1
      /\ UNCHANGED <<entry, stamps, reader>>
      /\ objects' = [objects EXCEPT ![o].text[i] = changes + 1, ![o].stamp = changes + 1]
      /\ history' = history \cup {<<f, objects'[o].text>>}
  BY <1>0, PlacesOfFiles DEF Tree!Write, Tree!Fresh, Tree!Note, WorldFits
<1>2. Object(o)
  BY <1>1 DEF WorldFits
<1>3. objects'[o] = [text |-> text, stamp |-> changes + 1]
  BY <1>1, <1>2 DEF Object
<1>4. /\ DOMAIN objects' = DOMAIN objects
      /\ \A p \in DOMAIN objects : p # o => objects'[p] = objects[p]
      /\ objects' = [p \in DOMAIN objects' |-> objects'[p]]
  BY <1>1
<1>5. TwoParts(text) /\ text[i] = changes + 1 /\ \A j \in 1..2 : j # i => text[j] = objects[o].text[j]
  <2>1. TwoParts(objects[o].text) /\ changes + 1 \in Int
    BY <1>2 DEF Object, WorldFits
  <2> QED
    BY <2>1, OnePart
<1> HIDE DEF text
<1>6. \A g \in Tree!Files : g # f /\ entry[g] # 0 => entry[g] # o
  BY <1>0, <1>1, PlacesOfFiles DEF WorldFits
<1>7. \A g \in Tree!Files : entry[g] # 0 =>
         Tree!Text(g)' = IF g = f THEN text ELSE Tree!Text(g)
  BY <1>0, <1>1, <1>3, <1>4, <1>6 DEF Tree!Text, WorldFits
<1>8. \A p \in DOMAIN objects : Object(p)'
  <2>1. ASSUME NEW p \in DOMAIN objects, p # o PROVE Object(p)'
    <3>1. Object(p) /\ objects'[p] = objects[p] /\ changes \in Nat
      BY <1>4, <2>1 DEF WorldFits
    <3> QED
      BY <1>1, <3>1, KeptObject
  <2>2. Object(o)'
    <3>1. objects[o].text[1] <= changes /\ objects[o].text[2] <= changes /\ changes \in Nat
          /\ objects[o].text[1] \in Int /\ objects[o].text[2] \in Int
      BY <1>2 DEF Object, TwoParts, WorldFits
    <3>2. text[1] <= changes + 1 /\ text[2] <= changes + 1
      BY <1>5, <3>1
    <3> QED
      BY <1>1, <1>3, <1>5, <3>1, <3>2, ChangedObject
  <2> QED
    BY <2>1, <2>2
<1>9. \A g \in Tree!Files : entry'[g] # 0 => <<g, Tree!Text(g)'>> \in history'
  <2> SUFFICES ASSUME NEW g \in Tree!Files, entry'[g] # 0 PROVE <<g, Tree!Text(g)'>> \in history'
    OBVIOUS
  <2>1. CASE g = f
    BY <1>1, <1>3, <1>7, <2>1
  <2>2. CASE g # f
    BY <1>1, <1>7, <2>2 DEF WorldFits
  <2> QED
    BY <2>1, <2>2
<1>10. WorldFits'
  BY <1>1, <1>4, <1>8, <1>9 DEF WorldFits
<1>11. Moves
  BY <1>1, <1>3, <1>4, <1>5, <1>7 DEF Moves, Tree!Text, WorldFits
<1> QED
  BY <1>10, <1>11

LEMMA NameMoves ==
  ASSUME WorldFits, NEW f \in Tree!Files, Tree!Put(f) \/ Tree!Remove(f)
  PROVE  WorldFits' /\ Moves
<1>a. PICK n : n = changes + 1
  OBVIOUS
<1>b. PICK old : old = entry[f]
  OBVIOUS
<1>c. PICK e : e = IF Tree!Put(f) THEN n ELSE 0
  OBVIOUS
<1>0. changes \in Nat /\ n \in Nat /\ n # 0 /\ n \notin DOMAIN objects
  BY <1>a DEF WorldFits
<1>1. /\ changes' = n /\ reader' = reader
      /\ entry' = [entry EXCEPT ![f] = e] /\ stamps' = [stamps EXCEPT ![Tree!Place[f]] = n]
      /\ history \subseteq history'
  BY <1>a, <1>c, PlacesOfFiles DEF Tree!Put, Tree!Remove, Tree!Fresh, Tree!Note
<1>2. /\ objects' = [p \in DOMAIN objects' |-> objects'[p]]
      /\ DOMAIN objects' = DOMAIN objects \cup ({e} \ {0})
      /\ \A p \in DOMAIN objects : objects'[p] = IF p = old THEN [objects[p] EXCEPT !.stamp = n]
                                                            ELSE objects[p]
      /\ e # 0 => objects'[e] = [text |-> <<n, n>>, stamp |-> n] /\ <<f, <<n, n>>>> \in history'
  <2>1. CASE Tree!Put(f)
    BY <1>0, <1>a, <1>b, <1>c, <2>1 DEF Tree!Put, Tree!Fresh, Tree!Note
  <2>2. CASE Tree!Remove(f) /\ ~Tree!Put(f)
    <3>1. objects' = [objects EXCEPT ![old].stamp = n] /\ old # 0 /\ e = 0
      BY <1>a, <1>b, <1>c, <2>2, PlacesOfFiles DEF Tree!Remove, Tree!Fresh
    <3> QED
      BY <1>b, <3>1 DEF WorldFits
  <2> QED
    BY <2>1, <2>2
<1>3. e = 0 \/ e = n
  BY <1>c
<1>4. \A p \in DOMAIN objects : /\ objects'[p].text = objects[p].text
                                /\ objects'[p] = objects[p] \/ objects'[p].stamp = n
                                /\ Object(p)'
  <2> TAKE p \in DOMAIN objects
  <2>1. Object(p)
    BY DEF WorldFits
  <2> QED
    BY <1>0, <1>a, <1>1, <1>2, <2>1, KeptObject
<1>5. e # 0 => Object(e)'
  <2> SUFFICES ASSUME e # 0 PROVE Object(e)'
    OBVIOUS
  <2>1. TwoParts(<<n, n>>) /\ <<n, n>>[1] = n /\ <<n, n>>[2] = n
    BY <1>0 DEF TwoParts
  <2> QED
    BY <1>0, <1>a, <1>1, <1>2, <2>1, ChangedObject
<1>6. \A p \in DOMAIN objects' : p \in Int /\ p # 0 /\ p <= changes' /\ Object(p)'
  <2>1. \A p \in DOMAIN objects : p \in Int /\ p # 0 /\ p <= changes
    BY DEF WorldFits
  <2> QED
    BY <1>0, <1>a, <1>1, <1>2, <1>3, <1>4, <1>5, <2>1
<1>7. \A g \in Tree!Files : g # f => entry'[g] = entry[g] /\ entry'[f] = e
  BY <1>1 DEF WorldFits
<1>8. entry'[f] = e
  BY <1>1 DEF WorldFits
<1>9. \A g \in Tree!Files : entry'[g] # 0 =>
        IF g = f THEN Tree!Text(g)' = <<n, n>> ELSE entry[g] # 0 /\ Tree!Text(g)' = Tree!Text(g)
  BY <1>2, <1>4, <1>7, <1>8 DEF Tree!Text, WorldFits
<1>10. WorldFits'
  <2>1. entry' \in [Tree!Files -> Int] /\ stamps' \in [Directories -> Int]
    <3>1. n \in Int /\ e \in Int
      BY <1>0, <1>3
    <3> QED
      BY <1>1, <3>1 DEF WorldFits
  <2>2. \A g \in Tree!Files : entry'[g] = 0 \/ entry'[g] \in DOMAIN objects'
    BY <1>2, <1>7, <1>8 DEF WorldFits
  <2>3. entry'["a"] = entry'["b"] => entry'["a"] = 0
    BY <1>0, <1>3, <1>7, <1>8, PlacesOfFiles DEF WorldFits
  <2>4. \A d \in Directories : stamps'[d] <= changes'
    BY <1>0, <1>a, <1>1 DEF WorldFits
  <2>5. \A g \in Tree!Files : entry'[g] # 0 => <<g, Tree!Text(g)'>> \in history'
    BY <1>1, <1>2, <1>8, <1>9 DEF WorldFits
  <2> QED
    BY <1>0, <1>1, <1>2, <1>6, <2>1, <2>2, <2>3, <2>4, <2>5 DEF WorldFits
<1>11. Moves
  <2>1. \A g \in Tree!Files, i \in 1..2 : entry'[g] # 0 =>
         \/ Tree!Text(g)'[i] = n
         \/ entry[g] # 0 /\ Tree!Text(g)'[i] = Tree!Text(g)[i]
    BY <1>9
  <2>2. \A g \in Tree!Files :
         \/ entry'[g] = entry[g]
         \/ /\ entry'[g] = 0 \/ entry'[g] \notin DOMAIN objects
            /\ stamps'[Tree!Place[g]] = n
    <3>1. Tree!Place[f] \in Directories
      BY PlacesOfFiles DEF Directories
    <3> QED
      BY <1>0, <1>1, <1>3, <1>7, <1>8, <3>1 DEF WorldFits
  <2>3. \A d \in Directories : stamps'[d] = stamps[d] \/ stamps'[d] = n
    BY <1>1 DEF WorldFits
  <2> QED
    BY <1>a, <1>1, <1>2, <1>4, <2>1, <2>2, <2>3 DEF Moves
<1> QED
  BY <1>10, <1>11

(***************************************************************************)
(* The reader.                                                             *)
(***************************************************************************)

(* The reader's record, with fields of no particular type. *)
IsReader(r) ==
  /\ r = [mode |-> r.mode, at |-> r.at, listed |-> r.listed, found |-> r.found,
          open |-> r.open, dirs |-> r.dirs, manifest |-> r.manifest, left |-> r.left,
          held |-> r.held]
  /\ r.mode \in {"snapshot", "census"}
  /\ r.listed \subseteq Tree!Files /\ DOMAIN r.found \subseteq r.listed
  /\ r.left \subseteq DOMAIN r.found /\ (r.mode = "snapshot" => r.left = {})
  /\ r.at = "start" => DOMAIN r.found = {} /\ r.left = {}

(* What was read of a file is what the object held, unless its stamp changed. *)
Seen(h) ==
  /\ h = [file |-> h.file, id |-> h.id, stamp |-> h.stamp, got |-> h.got]
  /\ h.file \in Tree!Files /\ h.id \in DOMAIN objects
  /\ h.stamp \in Int /\ h.stamp <= changes
  /\ h.got \in Seq(Int) /\ Len(h.got) <= 2
  /\ \A i \in 1..Len(h.got) :
       /\ h.got[i] <= changes
       /\ objects[h.id].stamp = h.stamp => h.got[i] = objects[h.id].text[i]

OpenFile(r) == r.at = "reading" => Seen(r.open) /\ r.open.file \in r.listed

(* A file that was read was there as it was read; since then its parts can   *)
(* only have been replaced by later ones.                                    *)
FoundFiles(r) ==
  \A f \in DOMAIN r.found :
    /\ Seen(r.found[f]) /\ r.found[f].file = f /\ Len(r.found[f].got) = 2
    /\ <<f, r.found[f].got>> \in history
    /\ entry[f] # 0 => \A i \in 1..2 : r.found[f].got[i] <= Tree!Text(f)[i]

ManifestFiles(r) ==
  /\ DOMAIN r.manifest \subseteq Tree!Files
  /\ \A f \in DOMAIN r.manifest :
       /\ TwoParts(r.manifest[f]) /\ <<f, r.manifest[f]>> \in history
       /\ \A i \in 1..2 : r.manifest[f][i] <= changes

(* A directory of the census that has its stamp yet has no more than was listed. *)
ScannedPlaces(r) ==
  r.mode = "census" /\ r.at \in {"files", "reading", "sub", "dirs", "below", "path", "again"} =>
    /\ r.dirs \in [Directories -> Int] /\ \A d \in Directories : r.dirs[d] <= changes
    /\ stamps["root"] = r.dirs["root"] /\ entry["a"] # 0 => "a" \in r.listed
    /\ r.dirs["sub"] # 0 /\ r.at # "sub" /\ stamps["sub"] = r.dirs["sub"] /\ entry["b"] # 0
         => "b" \in r.listed

(* If the tree was not what was found when the census looked again, then     *)
(* something that it looks at is not as it was.                              *)
Rechecks(r) ==
  /\ r.at \in {"dirs", "below", "path", "again"} =>
       r.mode = "census" /\ r.listed \subseteq DOMAIN r.found
  /\ ~r.held /\ (\A f \in r.left : Tree!Unchanged(r.found[f])) =>
       /\ r.at = "dirs" => stamps["root"] # r.dirs["root"] \/ stamps["sub"] # r.dirs["sub"]
       /\ r.at = "below" => stamps["sub"] # r.dirs["sub"]
       /\ r.at \notin {"path", "again"}
  /\ r.at \in {"taken", "replayed"} => r.held

(* If the tree was not what the snapshot's manifest says, then a part of a   *)
(* file is later than the manifest has it, and will be for the replay too.   *)
Outgrown(r) ==
  r.mode = "snapshot" /\ r.manifest # Tree!None /\ ~r.held =>
    \E f \in DOMAIN r.manifest, i \in 1..2 :
      /\ entry[f] # 0 => r.manifest[f][i] < Tree!Text(f)[i]
      /\ r.at # "accepted" /\ f \in DOMAIN r.found => r.manifest[f][i] < r.found[f].got[i]

ReaderFits(r) ==
  /\ IsReader(r) /\ OpenFile(r) /\ FoundFiles(r) /\ ManifestFiles(r)
  /\ ScannedPlaces(r) /\ Rechecks(r) /\ Outgrown(r)

TreeInv == part = "tree" => WorldFits /\ ReaderFits(reader)

LEMMA SeenMoves ==
  ASSUME WorldFits, Moves, NEW h, Seen(h)
  PROVE  Seen(h)' /\ (~Tree!Unchanged(h) => ~Tree!Unchanged(h)')
<1>1. /\ h.id \in DOMAIN objects /\ h.id \in DOMAIN objects' /\ h.file \in Tree!Files
      /\ h.stamp \in Int /\ h.stamp <= changes /\ changes \in Nat /\ changes' = changes + 1
      /\ objects'[h.id] = objects[h.id] \/ objects'[h.id].stamp = changes + 1
  BY DEF Seen, Moves, WorldFits
<1>2. objects'[h.id].stamp = h.stamp => objects'[h.id] = objects[h.id]
  BY <1>1
<1>3. Seen(h)'
  <2>1. ASSUME NEW i \in 1..Len(h.got)
        PROVE  /\ h.got[i] <= changes'
               /\ objects'[h.id].stamp = h.stamp => h.got[i] = objects'[h.id].text[i]
    <3>1. h.got[i] \in Int /\ h.got[i] <= changes
          /\ (objects[h.id].stamp = h.stamp => h.got[i] = objects[h.id].text[i])
      BY DEF Seen
    <3> QED
      BY <1>1, <1>2, <3>1
  <2>2. h.stamp <= changes'
    BY <1>1
  <2> QED
    BY <1>1, <2>1, <2>2 DEF Seen
<1>4. ASSUME ~Tree!Unchanged(h) PROVE ~Tree!Unchanged(h)'
  <2>1. CASE objects[h.id].stamp # h.stamp
    BY <1>2, <2>1 DEF Tree!Unchanged
  <2>2. CASE entry[h.file] # h.id
    <3>1. \/ entry'[h.file] = entry[h.file]
          \/ entry'[h.file] = 0
          \/ entry'[h.file] \notin DOMAIN objects
      BY <1>1 DEF Moves
    <3>2. entry'[h.file] # h.id
      BY <1>1, <2>2, <3>1 DEF WorldFits
    <3> QED
      BY <3>2 DEF Tree!Unchanged
  <2> QED
    BY <1>4, <2>1, <2>2 DEF Tree!Unchanged
<1> QED
  BY <1>3, <1>4

LEMMA TextTyped ==
  ASSUME WorldFits, NEW f \in Tree!Files, entry[f] # 0
  PROVE  /\ TwoParts(Tree!Text(f)) /\ <<f, Tree!Text(f)>> \in history
         /\ \A i \in 1..2 : Tree!Text(f)[i] \in Int /\ Tree!Text(f)[i] <= changes
<1>1. Object(entry[f]) /\ <<f, Tree!Text(f)>> \in history
  BY DEF WorldFits
<1> QED
  BY <1>1 DEF Object, TwoParts, Tree!Text

LEMMA TextMoves ==
  ASSUME WorldFits, WorldFits', Moves, NEW f \in Tree!Files, NEW i \in 1..2, NEW v \in Int,
         v <= changes
  PROVE  /\ (entry[f] # 0 => v <= Tree!Text(f)[i]) =>
              (entry'[f] # 0 => v <= Tree!Text(f)'[i])
         /\ (entry[f] # 0 => v < Tree!Text(f)[i]) =>
              (entry'[f] # 0 => v < Tree!Text(f)'[i])
<1>1. changes \in Nat
  BY DEF WorldFits
<1>2. entry'[f] # 0 =>
        \/ Tree!Text(f)'[i] = changes + 1
        \/ entry[f] # 0 /\ Tree!Text(f)'[i] = Tree!Text(f)[i]
  BY DEF Moves
<1> QED
  BY <1>1, <1>2

LEMMA ReaderMoves ==
  ASSUME WorldFits, WorldFits', Moves, ReaderFits(reader)
  PROVE  ReaderFits(reader)'
<1>0. /\ reader' = reader /\ changes \in Nat /\ changes' = changes + 1 /\ history \subseteq history'
      /\ IsReader(reader)
  BY DEF Moves, WorldFits, ReaderFits
<1>1. IsReader(reader)' /\ OpenFile(reader)'
  <2>1. reader.at = "reading" => Seen(reader.open)'
    <3>1. PICK h : h = reader.open
      OBVIOUS
    <3>2. Seen(h) => Seen(h)'
      BY SeenMoves
    <3> QED
      BY <1>0, <3>1, <3>2 DEF ReaderFits, OpenFile, Seen
  <2> QED
    BY <1>0, <2>1 DEF ReaderFits, IsReader, OpenFile
<1>2. ASSUME NEW f \in DOMAIN reader.found
      PROVE  /\ Seen(reader.found[f])'
             /\ ~Tree!Unchanged(reader.found[f]) => ~Tree!Unchanged(reader.found[f])'
  <2>1. PICK h : h = reader.found[f]
    OBVIOUS
  <2>2. Seen(h)
    BY <2>1 DEF ReaderFits, FoundFiles
  <2>3. Seen(h)' /\ (~Tree!Unchanged(h) => ~Tree!Unchanged(h)')
    BY <2>2, SeenMoves
  <2> QED
    BY <1>0, <2>1, <2>3 DEF Seen, Tree!Unchanged
<1>3. FoundFiles(reader)'
  <2>1. ASSUME NEW f \in DOMAIN reader.found, entry'[f] # 0, NEW i \in 1..2
        PROVE  reader.found[f].got[i] <= Tree!Text(f)'[i]
    <3> DEFINE v == reader.found[f].got[i]
    <3>1. /\ f \in Tree!Files /\ v \in Int /\ v <= changes
          /\ entry[f] # 0 => v <= Tree!Text(f)[i]
      <4>1. /\ f \in Tree!Files /\ Seen(reader.found[f]) /\ Len(reader.found[f].got) = 2
            /\ entry[f] # 0 => v <= Tree!Text(f)[i]
        BY <1>0 DEF ReaderFits, FoundFiles, IsReader
      <4>2. TwoParts(reader.found[f].got) /\ v <= changes
        BY <4>1 DEF Seen, TwoParts
      <4> QED
        BY <4>1, <4>2, PartsAreNumbers
    <3> HIDE DEF v
    <3>2. v <= Tree!Text(f)'[i]
      BY <2>1, <3>1, TextMoves
    <3> QED
      BY <3>2 DEF v
  <2>2. \A f \in DOMAIN reader.found :
          /\ Seen(reader.found[f])' /\ reader.found[f].file = f /\ Len(reader.found[f].got) = 2
          /\ <<f, reader.found[f].got>> \in history'
    BY <1>0, <1>2 DEF ReaderFits, FoundFiles
  <2> QED
    BY <1>0, <2>1, <2>2 DEF FoundFiles
<1>4. ManifestFiles(reader)'
  <2>1. ASSUME NEW f \in DOMAIN reader.manifest, NEW i \in 1..2
        PROVE  reader.manifest[f][i] <= changes + 1
    <3>1. reader.manifest[f][i] \in Int /\ reader.manifest[f][i] <= changes
      BY PartsAreNumbers DEF ReaderFits, ManifestFiles
    <3> QED
      BY <1>0, <3>1
  <2> QED
    BY <1>0, <2>1 DEF ReaderFits, ManifestFiles, TwoParts
<1>5. ScannedPlaces(reader)'
  <2> SUFFICES ASSUME reader.mode = "census", reader.at \in {"files", "reading", "sub", "dirs", "below", "path", "again"}
               PROVE  ScannedPlaces(reader)'
    BY <1>0 DEF ScannedPlaces
  <2>1. /\ reader.dirs \in [Directories -> Int] /\ \A d \in Directories : reader.dirs[d] <= changes
        /\ stamps["root"] = reader.dirs["root"] /\ entry["a"] # 0 => "a" \in reader.listed
        /\ reader.dirs["sub"] # 0 /\ reader.at # "sub" /\ stamps["sub"] = reader.dirs["sub"]
             /\ entry["b"] # 0 => "b" \in reader.listed
    BY DEF ReaderFits, ScannedPlaces
  <2>2. \A d \in Directories : reader.dirs[d] \in Int /\ reader.dirs[d] <= changes' /\ reader.dirs[d] # changes + 1
    BY <1>0, <2>1
  <2>3. /\ stamps'["root"] = stamps["root"] \/ stamps'["root"] = changes + 1
        /\ stamps'["sub"] = stamps["sub"] \/ stamps'["sub"] = changes + 1
        /\ entry'["a"] = entry["a"] \/ stamps'["root"] = changes + 1
        /\ entry'["b"] = entry["b"] \/ stamps'["sub"] = changes + 1
    BY PlacesOfFiles DEF Moves, Directories
  <2>4. "root" \in Directories /\ "sub" \in Directories
    BY DEF Directories
  <2> QED
    BY <1>0, <2>1, <2>2, <2>3, <2>4 DEF ScannedPlaces
<1>6. Rechecks(reader)'
  <2>1. /\ reader'.at = reader.at /\ reader'.left = reader.left /\ reader'.dirs = reader.dirs
        /\ reader'.held = reader.held /\ reader'.mode = reader.mode
        /\ reader'.listed = reader.listed /\ reader'.found = reader.found
    BY <1>0
  <2>2. ASSUME ~reader.held, \A f \in reader.left : Tree!Unchanged(reader.found[f])'
        PROVE  \A f \in reader.left : Tree!Unchanged(reader.found[f])
    BY <1>2, <2>2 DEF ReaderFits, IsReader
  <2>3. ASSUME reader.mode = "census", reader.at \in {"dirs", "below"}, NEW d \in Directories,
               stamps[d] # reader.dirs[d]
        PROVE  stamps'[d] # reader.dirs[d]
    <3>1. reader.dirs[d] \in Int /\ reader.dirs[d] <= changes
      BY <2>3 DEF ReaderFits, ScannedPlaces
    <3>2. stamps'[d] = stamps[d] \/ stamps'[d] = changes + 1
      BY DEF Moves
    <3> QED
      BY <1>0, <2>3, <3>1, <3>2
  <2>4. Rechecks(reader)
    BY DEF ReaderFits
  <2>5. "root" \in Directories /\ "sub" \in Directories
    BY DEF Directories
  <2> QED
    BY <2>1, <2>2, <2>3, <2>4, <2>5 DEF Rechecks
<1>7. Outgrown(reader)'
  <2> SUFFICES ASSUME reader.mode = "snapshot", reader.manifest # Tree!None, ~reader.held
               PROVE  Outgrown(reader)'
    BY <1>0 DEF Outgrown, Tree!None
  <2>1. PICK f \in DOMAIN reader.manifest, i \in 1..2 :
          /\ entry[f] # 0 => reader.manifest[f][i] < Tree!Text(f)[i]
          /\ reader.at # "accepted" /\ f \in DOMAIN reader.found
               => reader.manifest[f][i] < reader.found[f].got[i]
    BY DEF ReaderFits, Outgrown
  <2> DEFINE v == reader.manifest[f][i]
  <2>2. f \in Tree!Files /\ v \in Int /\ v <= changes
    BY PartsAreNumbers DEF ReaderFits, ManifestFiles
  <2> HIDE DEF v
  <2>3. entry'[f] # 0 => v < Tree!Text(f)'[i]
    BY <2>1, <2>2, TextMoves DEF v
  <2> QED
    BY <1>0, <2>1, <2>3 DEF Outgrown, v
<1> QED
  BY <1>1, <1>3, <1>4, <1>5, <1>6, <1>7 DEF ReaderFits

(* The reader's record after a step: the fields that a step sets, and those  *)
(* it leaves alone.                                                          *)
LEMMA RefusedReader ==
  ASSUME ReaderFits(reader), reader.at # "accepted", Tree!Refuse
  PROVE  ReaderFits(reader')
<1>1. /\ IsReader(reader') /\ reader'.at = "refused" /\ reader'.mode = reader.mode
      /\ reader'.listed = reader.listed /\ reader'.found = reader.found
      /\ reader'.manifest = reader.manifest /\ reader'.held = reader.held
  BY DEF ReaderFits, IsReader, Tree!Refuse
<1> QED
  BY <1>1
  DEF ReaderFits, OpenFile, FoundFiles, ManifestFiles, ScannedPlaces, Rechecks, Outgrown

LEMMA NextFileIsLeft ==
  ASSUME IsReader(reader), Tree!Left # {}
  PROVE  /\ Tree!NextFile \in reader.listed /\ Tree!NextFile \notin DOMAIN reader.found
         /\ Tree!NextFile \in Tree!Files
<1>1. Tree!Left \subseteq {"a", "b"}
  BY PlacesOfFiles DEF Tree!Left, IsReader
<1>2. \E f \in Tree!Left : \A g \in Tree!Left : g = f \/ (f = "a" /\ g = "b")
  <2>1. CASE "a" \in Tree!Left
    BY <1>1, <2>1
  <2>2. CASE "a" \notin Tree!Left
    BY <1>1, <2>2
  <2> QED
    BY <2>1, <2>2
<1>3. Tree!NextFile \in Tree!Left
  BY <1>2 DEF Tree!NextFile
<1> QED
  BY <1>3 DEF Tree!Left, IsReader

LEMMA OpenReader ==
  ASSUME WorldFits, ReaderFits(reader), Tree!Open
  PROVE  ReaderFits(reader')
<1> DEFINE f == Tree!NextFile
           h == [file |-> f, id |-> entry[f], stamp |-> objects[entry[f]].stamp, got |-> <<>>]
<1>1. reader.at = "files" /\ IsReader(reader) /\ f \in reader.listed /\ f \in Tree!Files
  BY NextFileIsLeft DEF Tree!Open, ReaderFits
<1>2. CASE entry[f] = 0
  BY <1>1, <1>2, PlacesOfFiles, RefusedReader DEF Tree!Open
<1>3. CASE entry[f] # 0
  <2>1. reader' = [reader EXCEPT !.at = "reading", !.open = h]
    BY <1>3, PlacesOfFiles DEF Tree!Open
  <2>2. Seen(h) /\ h.file = f
    <3>1. Object(entry[f]) /\ entry[f] \in DOMAIN objects
      BY <1>1, <1>3 DEF WorldFits
    <3> HIDE DEF f
    <3> QED
      BY <1>1, <3>1 DEF Seen, Object
  <2> HIDE DEF f, h
  <2>3. /\ IsReader(reader') /\ reader'.at = "reading" /\ reader'.mode = reader.mode
        /\ reader'.listed = reader.listed /\ reader'.found = reader.found /\ reader'.open = h
        /\ reader'.manifest = reader.manifest /\ reader'.held = reader.held
        /\ reader'.dirs = reader.dirs
    BY <1>1, <2>1 DEF IsReader
  <2> QED
    BY <1>1, <2>2, <2>3
    DEF ReaderFits, OpenFile, FoundFiles, ManifestFiles, ScannedPlaces, Rechecks, Outgrown
<1> QED
  BY <1>2, <1>3

LEMMA ReadPartReader ==
  ASSUME WorldFits, ReaderFits(reader), Tree!ReadPart
  PROVE  ReaderFits(reader')
<1>1. /\ reader.at = "reading" /\ IsReader(reader) /\ Seen(reader.open) /\ Len(reader.open.got) < 2
      /\ reader.open.file \in reader.listed
  BY DEF Tree!ReadPart, ReaderFits, OpenFile
<1>2. PICK g : g = reader.open.got
  OBVIOUS
<1>3. PICK text : text = objects[reader.open.id].text
  OBVIOUS
<1>4. PICK n \in Nat : n = Len(g) /\ n < 2
  BY <1>1, <1>2 DEF Seen
<1> DEFINE v == text[n + 1]
           h == [reader.open EXCEPT !.got = Append(g, v)]
<1>5. reader' = [reader EXCEPT !.open.got = Append(g, v)]
  BY <1>2, <1>3, <1>4 DEF Tree!ReadPart
<1>6. reader' = [reader EXCEPT !.open = h]
  BY <1>1, <1>2, <1>5 DEF IsReader, Seen
<1>7. TwoParts(text) /\ text[1] <= changes /\ text[2] <= changes
  BY <1>1, <1>3 DEF Seen, WorldFits, Object
<1>8. v \in Int /\ v <= changes
  BY <1>4, <1>7, PartsAreNumbers
<1> HIDE DEF v
<1>9. /\ Append(g, v) \in Seq(Int) /\ Len(Append(g, v)) = n + 1
      /\ \A i \in 1..(n + 1) : Append(g, v)[i] = IF i = n + 1 THEN v ELSE g[i]
  BY <1>1, <1>2, <1>4, <1>8 DEF Seen
<1>10. Seen(h) /\ h.file = reader.open.file
  <2>1. /\ h = [file |-> reader.open.file, id |-> reader.open.id, stamp |-> reader.open.stamp,
                got |-> Append(g, v)]
        /\ reader.open.id \in DOMAIN objects
        /\ reader.open.stamp \in Int /\ reader.open.stamp <= changes
        /\ reader.open.file \in Tree!Files
    BY <1>1, <1>2 DEF Seen
  <2>2. ASSUME NEW i \in 1..(n + 1)
        PROVE  /\ Append(g, v)[i] <= changes
               /\ objects[reader.open.id].stamp = reader.open.stamp => Append(g, v)[i] = text[i]
    <3>1. CASE i = n + 1
      BY <1>8, <1>9, <3>1 DEF v
    <3>2. CASE i # n + 1
      <4>1. i \in 1..Len(g) /\ Append(g, v)[i] = g[i]
        BY <1>4, <1>9, <3>2
      <4> QED
        BY <1>1, <1>2, <1>3, <4>1 DEF Seen
    <3> QED
      BY <3>1, <3>2
  <2>3. n + 1 <= 2
    BY <1>4
  <2> HIDE DEF h
  <2> QED
    BY <1>3, <1>9, <2>1, <2>2, <2>3 DEF Seen
<1> HIDE DEF h
<1>11. /\ IsReader(reader') /\ reader'.at = reader.at /\ reader'.mode = reader.mode
       /\ reader'.listed = reader.listed /\ reader'.found = reader.found /\ reader'.open = h
       /\ reader'.manifest = reader.manifest /\ reader'.held = reader.held
       /\ reader'.dirs = reader.dirs
  BY <1>1, <1>6 DEF IsReader
<1> QED
  BY <1>1, <1>10, <1>11
  DEF ReaderFits, OpenFile, FoundFiles, ManifestFiles, ScannedPlaces, Rechecks, Outgrown

(* Two readings of two parts that agree in both are equal. *)
LEMMA TwoPartsEqual ==
  ASSUME NEW s, NEW t, TwoParts(s), TwoParts(t), s[1] = t[1], s[2] = t[2]
  PROVE  s = t
<1>1. s \in Seq(Int) /\ t \in Seq(Int) /\ Len(s) = Len(t) /\ \A i \in 1..Len(s) : s[i] = t[i]
  BY DEF TwoParts
<1> QED
  BY <1>1, SeqEqual

LEMMA UnchangedIsText ==
  ASSUME WorldFits, NEW h, Seen(h), Len(h.got) = 2, Tree!Unchanged(h)
  PROVE  /\ entry[h.file] # 0 /\ h.got = Tree!Text(h.file)
         /\ <<h.file, h.got>> \in history /\ TwoParts(h.got)
<1>1. /\ h.id \in DOMAIN objects /\ entry[h.file] = h.id /\ objects[h.id].stamp = h.stamp
      /\ h.file \in Tree!Files /\ h.id # 0
  BY DEF Seen, Tree!Unchanged, WorldFits
<1>2. TwoParts(h.got) /\ TwoParts(Tree!Text(h.file)) /\ <<h.file, Tree!Text(h.file)>> \in history
  BY <1>1, TextTyped DEF Seen, TwoParts
<1>3. h.got[1] = Tree!Text(h.file)[1] /\ h.got[2] = Tree!Text(h.file)[2]
  BY <1>1 DEF Seen, Tree!Text
<1>4. h.got = Tree!Text(h.file)
  BY <1>2, <1>3, TwoPartsEqual
<1> QED
  BY <1>1, <1>2, <1>4

LEMMA CloseReader ==
  ASSUME WorldFits, ReaderFits(reader), Tree!Close
  PROVE  ReaderFits(reader')
<1>1. /\ reader.at = "reading" /\ IsReader(reader) /\ Seen(reader.open) /\ Len(reader.open.got) = 2
      /\ reader.open.file \in reader.listed
  BY DEF Tree!Close, ReaderFits, OpenFile
<1>2. CASE ~Tree!Unchanged(reader.open)
  BY <1>1, <1>2, RefusedReader DEF Tree!Close
<1>3. CASE Tree!Unchanged(reader.open)
  <2>1. PICK h : h = reader.open
    OBVIOUS
  <2>2. PICK done : done = [f \in DOMAIN reader.found \cup {h.file} |->
                              IF f = h.file THEN h ELSE reader.found[f]]
    OBVIOUS
  <2>3. reader' = [reader EXCEPT !.at = "files", !.found = done]
    BY <1>3, <2>1, <2>2 DEF Tree!Close
  <2>4. /\ entry[h.file] # 0 /\ h.got = Tree!Text(h.file)
        /\ <<h.file, h.got>> \in history /\ TwoParts(h.got)
    BY <1>1, <1>3, <2>1, UnchangedIsText
  <2>5. /\ DOMAIN done = DOMAIN reader.found \cup {h.file} /\ done[h.file] = h
        /\ \A f \in DOMAIN reader.found : f # h.file => done[f] = reader.found[f]
    BY <2>2
  <2>6. /\ IsReader(reader') /\ reader'.at = "files" /\ reader'.mode = reader.mode
        /\ reader'.listed = reader.listed /\ reader'.found = done
        /\ reader'.manifest = reader.manifest /\ reader'.held = reader.held
        /\ reader'.dirs = reader.dirs
    BY <1>1, <2>1, <2>3, <2>5 DEF IsReader
  <2>7. FoundFiles(reader')
    <3>1. \A i \in 1..2 : h.got[i] <= Tree!Text(h.file)[i]
      BY <2>4, PartsAreNumbers
    <3> QED
      BY <1>1, <2>1, <2>4, <2>5, <2>6, <3>1 DEF ReaderFits, FoundFiles
  <2>8. Outgrown(reader')
    <3> SUFFICES ASSUME reader.mode = "snapshot", reader.manifest # Tree!None, ~reader.held
                 PROVE  Outgrown(reader')
      BY <2>6 DEF Outgrown
    <3>1. PICK f \in DOMAIN reader.manifest, i \in 1..2 :
            /\ entry[f] # 0 => reader.manifest[f][i] < Tree!Text(f)[i]
            /\ f \in DOMAIN reader.found => reader.manifest[f][i] < reader.found[f].got[i]
      BY <1>1 DEF ReaderFits, Outgrown
    <3>2. f \in DOMAIN done => reader.manifest[f][i] < done[f].got[i]
      BY <2>4, <2>5, <3>1
    <3> QED
      BY <2>6, <3>1, <3>2 DEF Outgrown
  <2> QED
    BY <1>1, <2>6, <2>7, <2>8 DEF ReaderFits, OpenFile, ManifestFiles, ScannedPlaces, Rechecks
<1> QED
  BY <1>2, <1>3

LEMMA ScanReader ==
  ASSUME WorldFits, ReaderFits(reader),
         Tree!Inventory \/ Tree!ScanRoot \/ Tree!OpenSub \/ Tree!ScanSub
  PROVE  ReaderFits(reader')
<1>0. IsReader(reader) /\ changes \in Nat /\ stamps \in [Directories -> Int]
      /\ \A d \in Directories : stamps[d] <= changes
  BY DEF ReaderFits, WorldFits
<1>1. "root" \in Directories /\ "sub" \in Directories /\ \A d \in Directories : d = "root" \/ d = "sub"
  BY DEF Directories
<1>2. PICK empty : empty = [stamps EXCEPT !["sub"] = 0]
  OBVIOUS
<1>3. /\ empty \in [Directories -> Int] /\ empty["root"] = stamps["root"] /\ empty["sub"] = 0
      /\ \A d \in Directories : empty[d] <= changes
  BY <1>0, <1>1, <1>2
<1>4. Tree!Present \subseteq Tree!Files /\ \A f \in Tree!Files : f \in Tree!Present <=> entry[f] # 0
  BY PlacesOfFiles DEF Tree!Present
<1>5. CASE Tree!Inventory
  <2>0. reader.at = "start" /\ reader.mode = "snapshot"
    BY <1>5 DEF Tree!Inventory
  <2>1. CASE Tree!Present = {}
    BY <1>5, <2>0, <2>1, RefusedReader DEF Tree!Inventory
  <2>2. CASE Tree!Present # {}
    <3>1. reader' = [reader EXCEPT !.at = "files", !.listed = Tree!Present, !.dirs = empty]
      BY <1>2, <1>5, <2>2, PlacesOfFiles DEF Tree!Inventory
    <3>2. /\ IsReader(reader') /\ reader'.at = "files" /\ reader'.mode = "snapshot"
          /\ reader'.found = reader.found /\ DOMAIN reader.found = {}
          /\ reader'.manifest = reader.manifest /\ reader'.held = reader.held
      BY <1>0, <1>4, <2>0, <3>1 DEF IsReader
    <3> QED
      BY <2>0, <3>2
      DEF ReaderFits, OpenFile, FoundFiles, ManifestFiles, ScannedPlaces, Rechecks, Outgrown
  <2> QED
    BY <2>1, <2>2
<1>6. CASE Tree!ScanRoot
  <2> DEFINE listed == {f \in Tree!Present : Tree!Place[f] = "root"}
  <2>1. /\ reader.at = "start" /\ reader.mode = "census"
        /\ reader' = [reader EXCEPT !.at = "files", !.listed = listed, !.dirs = empty]
    BY <1>2, <1>6, PlacesOfFiles DEF Tree!ScanRoot
  <2>2. listed \subseteq Tree!Files /\ (entry["a"] # 0 => "a" \in listed)
    BY <1>4, PlacesOfFiles
  <2> HIDE DEF listed
  <2>3. /\ IsReader(reader') /\ reader'.at = "files" /\ reader'.mode = "census"
        /\ reader'.listed = listed /\ reader'.dirs = empty
        /\ reader'.found = reader.found /\ DOMAIN reader.found = {}
        /\ reader'.manifest = reader.manifest /\ reader'.held = reader.held
    BY <1>0, <2>1, <2>2 DEF IsReader
  <2>4. ScannedPlaces(reader')
    <3>1. reader'.dirs \in [Directories -> Int] /\ \A d \in Directories : reader'.dirs[d] <= changes
      BY <1>3, <2>3
    <3>2. entry["a"] # 0 => "a" \in reader'.listed
      BY <2>2, <2>3
    <3>3. reader'.dirs["sub"] = 0
      BY <1>3, <2>3
    <3> QED
      BY <3>1, <3>2, <3>3 DEF ScannedPlaces
  <2>5. ManifestFiles(reader') /\ Rechecks(reader')
    BY <2>1, <2>3 DEF ReaderFits, ManifestFiles, Rechecks
  <2>6. OpenFile(reader') /\ FoundFiles(reader') /\ Outgrown(reader')
    BY <2>3 DEF OpenFile, FoundFiles, Outgrown
  <2> QED
    BY <2>3, <2>4, <2>5, <2>6 DEF ReaderFits
<1>7. CASE Tree!OpenSub
  <2> DEFINE dirs == [reader.dirs EXCEPT !["sub"] = stamps["sub"]]
  <2>1. /\ reader.at = "files" /\ reader.mode = "census"
        /\ reader' = [reader EXCEPT !.at = "sub", !.dirs = [@ EXCEPT !["sub"] = stamps["sub"]]]
    BY <1>7, PlacesOfFiles DEF Tree!OpenSub
  <2>2. /\ reader.dirs \in [Directories -> Int] /\ \A d \in Directories : reader.dirs[d] <= changes
        /\ stamps["root"] = reader.dirs["root"] /\ entry["a"] # 0 => "a" \in reader.listed
    BY <2>1 DEF ReaderFits, ScannedPlaces
  <2>3. /\ dirs \in [Directories -> Int] /\ \A d \in Directories : dirs[d] <= changes
        /\ dirs["root"] = reader.dirs["root"]
    BY <1>0, <1>1, <2>2
  <2>4. reader' = [reader EXCEPT !.at = "sub", !.dirs = dirs]
    BY <1>0, <2>1 DEF IsReader
  <2> HIDE DEF dirs
  <2>5. /\ IsReader(reader') /\ reader'.at = "sub" /\ reader'.mode = "census"
        /\ reader'.listed = reader.listed /\ reader'.dirs = dirs
        /\ reader'.found = reader.found
        /\ reader'.manifest = reader.manifest /\ reader'.held = reader.held
    BY <1>0, <2>1, <2>4 DEF IsReader
  <2>6. ScannedPlaces(reader')
    <3>1. reader'.dirs \in [Directories -> Int] /\ \A d \in Directories : reader'.dirs[d] <= changes
      BY <2>3, <2>5
    <3>2. stamps["root"] = reader'.dirs["root"] /\ entry["a"] # 0 => "a" \in reader'.listed
      BY <2>2, <2>3, <2>5
    <3> QED
      BY <2>5, <3>1, <3>2 DEF ScannedPlaces
  <2>7. ManifestFiles(reader') /\ Rechecks(reader')
    BY <2>1, <2>5 DEF ReaderFits, ManifestFiles, Rechecks
  <2>8. OpenFile(reader') /\ FoundFiles(reader') /\ Outgrown(reader')
    BY <2>5 DEF ReaderFits, OpenFile, FoundFiles, Outgrown
  <2> QED
    BY <2>5, <2>6, <2>7, <2>8 DEF ReaderFits
<1>8. CASE Tree!ScanSub
  <2> DEFINE listed == reader.listed \cup {f \in Tree!Present : Tree!Place[f] = "sub"}
  <2>1. /\ reader.at = "sub"
        /\ reader' = [reader EXCEPT !.at = "files",
                        !.listed = @ \cup {f \in Tree!Present : Tree!Place[f] = "sub"}]
    BY <1>8, PlacesOfFiles DEF Tree!ScanSub
  <2>2. /\ listed \subseteq Tree!Files /\ (entry["b"] # 0 => "b" \in listed)
        /\ reader.listed \subseteq listed
    BY <1>0, <1>4, PlacesOfFiles DEF IsReader
  <2>3. reader' = [reader EXCEPT !.at = "files", !.listed = listed]
    BY <1>0, <2>1 DEF IsReader
  <2> HIDE DEF listed
  <2>4. /\ IsReader(reader') /\ reader'.at = "files" /\ reader'.mode = reader.mode
        /\ reader'.listed = listed /\ reader'.dirs = reader.dirs
        /\ reader'.found = reader.found
        /\ reader'.manifest = reader.manifest /\ reader'.held = reader.held
    BY <1>0, <2>1, <2>2, <2>3 DEF IsReader
  <2> QED
    BY <2>1, <2>2, <2>4
    DEF ReaderFits, OpenFile, FoundFiles, ManifestFiles, ScannedPlaces, Rechecks, Outgrown
<1> QED
  BY <1>5, <1>6, <1>7, <1>8

(* What was found, as a manifest. *)
LEMMA FoundManifest ==
  ASSUME WorldFits, ReaderFits(reader)
  PROVE  /\ DOMAIN Tree!Found = DOMAIN reader.found
         /\ DOMAIN reader.found \subseteq Tree!Files
         /\ \A f \in DOMAIN reader.found :
              /\ Tree!Found[f] = reader.found[f].got /\ TwoParts(reader.found[f].got)
              /\ <<f, reader.found[f].got>> \in history
              /\ \A i \in 1..2 : reader.found[f].got[i] <= changes
BY DEF ReaderFits, IsReader, FoundFiles, Seen, TwoParts, Tree!Found

LEMMA FinishReader ==
  ASSUME WorldFits, ReaderFits(reader), Tree!Finish
  PROVE  ReaderFits(reader')
<1>1. /\ reader.at = "files" /\ reader.mode = "snapshot" /\ Tree!Left = {} /\ IsReader(reader)
  BY DEF Tree!Finish, ReaderFits
<1>2. DOMAIN reader.found = reader.listed
  BY <1>1 DEF Tree!Left, IsReader
<1>3. CASE Tree!Present # reader.listed \/ stamps[Tree!Root] # reader.dirs[Tree!Root]
  BY <1>1, <1>3, RefusedReader DEF Tree!Finish
<1>4. CASE ~(Tree!Present # reader.listed \/ stamps[Tree!Root] # reader.dirs[Tree!Root])
           /\ reader.manifest = Tree!None
  <2>1. reader' = [reader EXCEPT !.at = "accepted", !.manifest = Tree!Found,
                                 !.held = (Tree!Tree = Tree!Found)]
    BY <1>1, <1>4 DEF Tree!Finish
  <2>2. /\ IsReader(reader') /\ reader'.at = "accepted" /\ reader'.mode = "snapshot"
        /\ reader'.listed = reader.listed /\ reader'.found = reader.found
        /\ reader'.manifest = Tree!Found /\ (reader'.held <=> Tree!Tree = Tree!Found)
    BY <1>1, <2>1 DEF IsReader
  <2>3. ManifestFiles(reader')
    BY <2>2, FoundManifest DEF ManifestFiles
  <2>4. Outgrown(reader')
    <3> SUFFICES ASSUME Tree!Tree # Tree!Found PROVE Outgrown(reader')
      BY <2>2 DEF Outgrown
    <3>1. DOMAIN reader.found = Tree!Present /\ Tree!Present \subseteq Tree!Files
          /\ \A f \in Tree!Present : entry[f] # 0
      BY <1>2, <1>4, PlacesOfFiles DEF Tree!Present
    <3>2. Tree!Tree = [f \in Tree!Present |-> Tree!Text(f)]
          /\ Tree!Found = [f \in Tree!Present |-> reader.found[f].got]
      BY <3>1 DEF Tree!Tree, Tree!Found
    <3>3. PICK f \in Tree!Present : Tree!Text(f) # reader.found[f].got
      BY <3>2
    <3>4. TwoParts(Tree!Text(f)) /\ TwoParts(reader.found[f].got)
          /\ \A i \in 1..2 : reader.found[f].got[i] <= Tree!Text(f)[i]
      BY <3>1, TextTyped, FoundManifest DEF ReaderFits, FoundFiles
    <3>5. PICK i \in 1..2 : Tree!Text(f)[i] # reader.found[f].got[i]
      BY <3>3, <3>4, TwoPartsEqual
    <3>6. Tree!Text(f)[i] \in Int /\ reader.found[f].got[i] \in Int
      BY <3>4, PartsAreNumbers
    <3>7. reader.found[f].got[i] < Tree!Text(f)[i]
      BY <3>4, <3>5, <3>6
    <3>8. f \in DOMAIN Tree!Found /\ Tree!Found[f] = reader.found[f].got
      BY <3>1, FoundManifest
    <3> QED
      BY <2>2, <3>7, <3>8 DEF Outgrown
  <2> QED
    BY <1>1, <2>2, <2>3, <2>4 DEF ReaderFits, OpenFile, FoundFiles, ScannedPlaces, Rechecks
<1>5. CASE ~(Tree!Present # reader.listed \/ stamps[Tree!Root] # reader.dirs[Tree!Root])
           /\ reader.manifest # Tree!None /\ Tree!Found # reader.manifest
  BY <1>1, <1>5, RefusedReader DEF Tree!Finish, Tree!Refuse
<1>6. CASE ~(Tree!Present # reader.listed \/ stamps[Tree!Root] # reader.dirs[Tree!Root])
           /\ reader.manifest # Tree!None /\ Tree!Found = reader.manifest
  <2>1. reader' = [reader EXCEPT !.at = "replayed"]
    BY <1>1, <1>6 DEF Tree!Finish
  <2>2. /\ IsReader(reader') /\ reader'.at = "replayed" /\ reader'.mode = "snapshot"
        /\ reader'.listed = reader.listed /\ reader'.found = reader.found
        /\ reader'.manifest = reader.manifest /\ reader'.held = reader.held
    BY <1>1, <2>1 DEF IsReader
  <2>3. reader.held
    <3> SUFFICES ASSUME ~reader.held PROVE FALSE
      OBVIOUS
    <3>1. PICK f \in DOMAIN reader.manifest, i \in 1..2 :
            f \in DOMAIN reader.found => reader.manifest[f][i] < reader.found[f].got[i]
      BY <1>1, <1>6 DEF ReaderFits, Outgrown
    <3>2. f \in DOMAIN reader.found /\ reader.manifest[f] = reader.found[f].got
          /\ TwoParts(reader.found[f].got)
      BY <1>6, FoundManifest
    <3>3. reader.found[f].got[i] \in Int
      BY <3>2, PartsAreNumbers
    <3> QED
      BY <3>1, <3>2, <3>3
  <2> QED
    BY <1>1, <2>2, <2>3
    DEF ReaderFits, OpenFile, FoundFiles, ManifestFiles, ScannedPlaces, Rechecks, Outgrown
<1> QED
  BY <1>3, <1>4, <1>5, <1>6

LEMMA ReplayReader ==
  ASSUME WorldFits, ReaderFits(reader), Tree!Replay
  PROVE  ReaderFits(reader')
<1>1. /\ reader.mode = "snapshot" /\ reader.at = "accepted" /\ IsReader(reader)
      /\ reader' = [reader EXCEPT !.at = "start", !.found = Tree!None, !.listed = {}]
      /\ DOMAIN Tree!None = {}
  BY DEF Tree!Replay, ReaderFits, Tree!None
<1>2. /\ IsReader(reader') /\ reader'.at = "start" /\ reader'.mode = "snapshot"
      /\ reader'.found = Tree!None
      /\ reader'.manifest = reader.manifest /\ reader'.held = reader.held
  BY <1>1 DEF IsReader
<1> QED
  BY <1>1, <1>2
  DEF ReaderFits, OpenFile, FoundFiles, ManifestFiles, ScannedPlaces, Rechecks, Outgrown

LEMMA RecheckReader ==
  ASSUME WorldFits, ReaderFits(reader), Tree!Recheck \/ Tree!RecheckDirs \/ Tree!RecheckFile
  PROVE  ReaderFits(reader')
<1>0. IsReader(reader)
  BY DEF ReaderFits
<1>1. CASE Tree!Recheck
  <2>1. /\ reader.mode = "census" /\ reader.at = "files" /\ Tree!Left = {} /\ reader.dirs["sub"] # 0
        /\ reader' = [reader EXCEPT !.at = "dirs", !.left = reader.listed,
                                    !.manifest = Tree!Found, !.held = (Tree!Tree = Tree!Found)]
    BY <1>1, PlacesOfFiles DEF Tree!Recheck
  <2>2. DOMAIN reader.found = reader.listed
    BY <1>0, <2>1 DEF Tree!Left, IsReader
  <2>3. /\ IsReader(reader') /\ reader'.at = "dirs" /\ reader'.mode = "census"
        /\ reader'.listed = reader.listed /\ reader'.found = reader.found
        /\ reader'.dirs = reader.dirs /\ reader'.left = reader.listed
        /\ reader'.manifest = Tree!Found /\ (reader'.held <=> Tree!Tree = Tree!Found)
    BY <1>0, <2>1, <2>2 DEF IsReader
  <2>4. ManifestFiles(reader')
    BY <2>3, FoundManifest DEF ManifestFiles
  <2>5. ASSUME stamps["root"] = reader.dirs["root"], stamps["sub"] = reader.dirs["sub"],
               \A f \in reader.listed : Tree!Unchanged(reader.found[f])
        PROVE  Tree!Tree = Tree!Found
    <3>1. ASSUME NEW f \in reader.listed
          PROVE  f \in Tree!Present /\ reader.found[f].got = Tree!Text(f)
      <4>1. /\ Seen(reader.found[f]) /\ reader.found[f].file = f /\ Len(reader.found[f].got) = 2
            /\ f \in Tree!Files
        BY <1>0, <2>2 DEF ReaderFits, FoundFiles, IsReader
      <4>2. PICK h : h = reader.found[f]
        OBVIOUS
      <4>3. entry[h.file] # 0 /\ h.got = Tree!Text(h.file)
        BY <2>5, <4>1, <4>2, UnchangedIsText
      <4> QED
        BY <4>1, <4>2, <4>3, PlacesOfFiles DEF Tree!Present
    <3>2. Tree!Present \subseteq reader.listed
      BY <2>1, <2>5, PlacesOfFiles DEF ReaderFits, ScannedPlaces, Tree!Present
    <3>3. Tree!Present = reader.listed
      BY <3>1, <3>2
    <3>4. Tree!Tree = [f \in reader.listed |-> Tree!Text(f)]
          /\ Tree!Found = [f \in reader.listed |-> reader.found[f].got]
      BY <2>2, <3>3 DEF Tree!Tree, Tree!Found
    <3> QED
      BY <3>1, <3>4
  <2> QED
    BY <1>0, <2>1, <2>2, <2>3, <2>4, <2>5
    DEF ReaderFits, OpenFile, FoundFiles, ScannedPlaces, Rechecks, Outgrown
<1>2. CASE Tree!RecheckDirs
  <2>1. PICK d \in Directories, next \in {"below", "path", "again"} :
          /\ \/ reader.at = "dirs" /\ d = "root" /\ next = "below"
             \/ reader.at = "below" /\ d = "sub" /\ next = "path"
             \/ reader.at = "path" /\ d = "root" /\ next = "again"
          /\ IF stamps[d] = reader.dirs[d] THEN reader' = [reader EXCEPT !.at = next]
                                           ELSE Tree!Refuse
    BY <1>2, PlacesOfFiles DEF Tree!RecheckDirs, Tree!RecheckDir, Directories
  <2>2. reader.mode = "census" /\ reader.listed \subseteq DOMAIN reader.found
    BY <2>1 DEF ReaderFits, Rechecks
  <2>3. CASE stamps[d] # reader.dirs[d]
    BY <2>1, <2>3, RefusedReader
  <2>4. CASE stamps[d] = reader.dirs[d]
    <3>1. /\ IsReader(reader') /\ reader'.at = next /\ reader'.mode = "census"
          /\ reader'.listed = reader.listed /\ reader'.found = reader.found
          /\ reader'.dirs = reader.dirs /\ reader'.left = reader.left
          /\ reader'.manifest = reader.manifest /\ reader'.held = reader.held
      BY <1>0, <2>1, <2>2, <2>4 DEF IsReader
    <3>2. /\ reader'.at \in {"below", "path", "again"}
          /\ ~reader.held /\ (\A f \in reader.left : Tree!Unchanged(reader.found[f])) =>
               /\ reader'.at = "below" => stamps["sub"] # reader.dirs["sub"]
               /\ reader'.at \notin {"path", "again"}
      BY <2>1, <2>4, <3>1 DEF ReaderFits, Rechecks
    <3>3. Rechecks(reader')
      BY <2>2, <3>1, <3>2 DEF Rechecks
    <3> QED
      BY <2>1, <2>2, <3>1, <3>3
      DEF ReaderFits, OpenFile, FoundFiles, ManifestFiles, ScannedPlaces, Outgrown
  <2> QED
    BY <2>3, <2>4
<1>3. CASE Tree!RecheckFile
  <2>1. reader.at = "again" /\ reader.mode = "census" /\ reader.listed \subseteq DOMAIN reader.found
    BY <1>3 DEF Tree!RecheckFile, ReaderFits, Rechecks
  <2>2. CASE reader.left = {}
    <3>1. reader' = [reader EXCEPT !.at = "taken"]
      BY <1>3, <2>2 DEF Tree!RecheckFile
    <3>2. /\ IsReader(reader') /\ reader'.at = "taken" /\ reader'.mode = "census"
          /\ reader'.found = reader.found
          /\ reader'.manifest = reader.manifest /\ reader'.held = reader.held
      BY <1>0, <2>1, <3>1 DEF IsReader
    <3>3. reader.held
      BY <2>1, <2>2 DEF ReaderFits, Rechecks
    <3> QED
      BY <3>2, <3>3
      DEF ReaderFits, OpenFile, FoundFiles, ManifestFiles, ScannedPlaces, Rechecks, Outgrown
  <2>3. CASE reader.left # {}
    <3>1. PICK f \in reader.left :
             IF Tree!Unchanged(reader.found[f])
               THEN reader' = [reader EXCEPT !.left = @ \ {f}] ELSE Tree!Refuse
      BY <1>3, <2>3 DEF Tree!RecheckFile
    <3>2. CASE ~Tree!Unchanged(reader.found[f])
      BY <2>1, <3>1, <3>2, RefusedReader
    <3>3. CASE Tree!Unchanged(reader.found[f])
      <4>1. /\ IsReader(reader') /\ reader'.at = "again" /\ reader'.mode = "census"
            /\ reader'.listed = reader.listed /\ reader'.found = reader.found
            /\ reader'.dirs = reader.dirs /\ reader'.left = reader.left \ {f}
            /\ reader'.manifest = reader.manifest /\ reader'.held = reader.held
        BY <1>0, <2>1, <3>1, <3>3 DEF IsReader
      <4> QED
        BY <2>1, <3>3, <4>1
        DEF ReaderFits, OpenFile, FoundFiles, ManifestFiles, ScannedPlaces, Rechecks, Outgrown
    <3> QED
      BY <3>2, <3>3
  <2> QED
    BY <2>2, <2>3
<1> QED
  BY <1>1, <1>2, <1>3

LEMMA InitTree == PartsInit => TreeInv
<1> SUFFICES ASSUME PartsInit, part = "tree" PROVE WorldFits /\ ReaderFits(reader)
  BY DEF TreeInv
<1>1. Tree!Init
  BY DEF PartsInit
<1>2. /\ objects = [o \in {-1, -2} |-> [text |-> <<o, o>>, stamp |-> o]]
      /\ entry \in {[a |-> -1, b |-> -2], [a |-> -1, b |-> 0]}
      /\ stamps = [d \in Directories |-> -3] /\ changes = 0
      /\ history = {<<f, objects[entry[f]].text>> : f \in {g \in Tree!Files : entry[g] # 0}}
      /\ reader \in {Tree!Start("snapshot"), Tree!Start("census")}
  BY <1>1, PlacesOfFiles DEF Tree!Init, Directories
<1>3. DOMAIN objects = {-1, -2} /\ \A o \in DOMAIN objects : o \in Int /\ o # 0 /\ o <= changes /\ Object(o)
  <2> SUFFICES ASSUME NEW o \in {-1, -2} PROVE o \in Int /\ o # 0 /\ o <= changes /\ Object(o)
    BY <1>2
  <2>1. o \in Int /\ o # 0 /\ o <= 0
    OBVIOUS
  <2>2. TwoParts(<<o, o>>) /\ <<o, o>>[1] = o /\ <<o, o>>[2] = o
    BY <2>1 DEF TwoParts
  <2>3. objects[o] = [text |-> <<o, o>>, stamp |-> o]
    BY <1>2
  <2> QED
    BY <1>2, <2>1, <2>2, <2>3 DEF Object
<1>4. WorldFits
  <2>1. entry \in [Tree!Files -> Int] /\ stamps \in [Directories -> Int] /\ changes \in Nat
    BY <1>2, PlacesOfFiles DEF Directories
  <2>2. /\ \A f \in Tree!Files : entry[f] = 0 \/ entry[f] \in DOMAIN objects
        /\ entry["a"] = entry["b"] => entry["a"] = 0
    BY <1>2, <1>3, PlacesOfFiles
  <2>3. \A d \in Directories : stamps[d] <= changes
    BY <1>2
  <2>4. \A f \in Tree!Files : entry[f] # 0 => <<f, Tree!Text(f)>> \in history
    <3> SUFFICES ASSUME NEW f \in Tree!Files, entry[f] # 0 PROVE <<f, Tree!Text(f)>> \in history
      OBVIOUS
    <3>1. <<f, objects[entry[f]].text>> \in
              {<<g, objects[entry[g]].text>> : g \in {k \in Tree!Files : entry[k] # 0}}
      BY Zenon
    <3>2. <<f, objects[entry[f]].text>> \in history
      BY <1>2, <3>1, Zenon
    <3> QED
      BY <3>2, Zenon DEF Tree!Text
  <2>5. objects = [o \in DOMAIN objects |-> objects[o]]
    BY <1>2
  <2> QED
    BY <1>3, <2>1, <2>2, <2>3, <2>4, <2>5 DEF WorldFits
<1>5. /\ IsReader(reader) /\ reader.at = "start" /\ DOMAIN reader.found = {}
      /\ reader.manifest = Tree!None /\ DOMAIN reader.manifest = {}
  BY <1>2 DEF Tree!Start, Tree!None, IsReader
<1>6. ReaderFits(reader)
  BY <1>5
  DEF ReaderFits, OpenFile, FoundFiles, ManifestFiles, ScannedPlaces, Rechecks, Outgrown
<1> QED
  BY <1>4, <1>6

(* A step of the reader leaves the tree as it is. *)
LEMMA ReaderStep ==
  ASSUME WorldFits, ReaderFits(reader'), UNCHANGED Tree!World
  PROVE  (WorldFits /\ ReaderFits(reader))'
<1>1. UNCHANGED <<objects, entry, stamps, changes, history>>
  BY DEF Tree!World
<1>2. WorldFits'
  BY <1>1 DEF WorldFits, Object, Tree!Text
<1>3. ReaderFits(reader)'
  BY <1>1
  DEF ReaderFits, OpenFile, FoundFiles, ManifestFiles, ScannedPlaces, Rechecks, Outgrown,
      Seen, IsReader, Tree!Unchanged, Tree!Text
<1> QED
  BY <1>2, <1>3

LEMMA NextTree == TreeInv /\ [PartsNext]_partsVars => TreeInv'
<1> SUFFICES ASSUME TreeInv, [PartsNext]_partsVars, part' = "tree" PROVE TreeInv'
  BY DEF TreeInv
<1>0. part = "tree" /\ part' = part /\ WorldFits /\ ReaderFits(reader)
  BY DEF PartsNext, partsVars, DossierStep, AuditStep, TreeStep, ControlStep, GateStep,
         RunnerStep, ClosureStep, TreeInv
<1>1. CASE UNCHANGED partsVars
  <2>1. reader' = reader /\ UNCHANGED Tree!World
    BY <1>1 DEF partsVars, treeVars, Tree!World
  <2> QED
    BY <1>0, <2>1, ReaderStep DEF TreeInv
<1>2. CASE \E f \in Tree!Files : Tree!Put(f) \/ Tree!Remove(f) \/ \E i \in 1..2 : Tree!Write(f, i)
  BY <1>0, <1>2, NameMoves, WriteMoves, ReaderMoves DEF TreeInv
<1>3. CASE \/ Tree!Open \/ Tree!ReadPart \/ Tree!Close
           \/ Tree!Inventory \/ Tree!Finish \/ Tree!Replay
           \/ Tree!ScanRoot \/ Tree!OpenSub \/ Tree!ScanSub
           \/ Tree!Recheck \/ Tree!RecheckDirs \/ Tree!RecheckFile
  <2>1. UNCHANGED Tree!World
    BY <1>3 DEF Tree!Open, Tree!ReadPart, Tree!Close, Tree!Inventory, Tree!Finish, Tree!Replay,
                Tree!ScanRoot, Tree!OpenSub, Tree!ScanSub, Tree!Recheck, Tree!RecheckDir,
                Tree!RecheckDirs, Tree!RecheckFile
  <2>2. ReaderFits(reader')
    BY <1>0, <1>3, OpenReader, ReadPartReader, CloseReader, ScanReader, FinishReader,
       ReplayReader, RecheckReader
  <2> QED
    BY <1>0, <2>1, <2>2, ReaderStep DEF TreeInv
<1> QED
  BY <1>0, <1>1, <1>2, <1>3
  DEF PartsNext, DossierStep, AuditStep, TreeStep, ControlStep, GateStep, RunnerStep,
      ClosureStep, Tree!Next

(* AcceptedTreeExisted, however much the writer changes and whenever it does: *)
(* what the readers of terminal_authority.py and acquisition.py accept was    *)
(* there, and a census or a replayed snapshot was there as a whole.           *)
THEOREM AcceptedTreesExisted == PartsSpec => []AcceptedTreeExisted
<1>1. TreeInv => AcceptedTreeExisted
  BY DEF TreeInv, ReaderFits, ManifestFiles, Rechecks, AcceptedTreeExisted,
         Tree!AcceptedTreeExisted
<1> QED
  BY InitTree, NextTree, <1>1, PTL DEF PartsSpec

(***************************************************************************)
(* ControlRun.                                                             *)
(***************************************************************************)

LoggedPhases ==
  [when : {"setup", "call", "teardown"}, outcome : {"passed", "failed", "skipped"},
   xfail : BOOLEAN]

ControlTyped ==
  /\ required \in Control!Requirements
  /\ at \in [test : Nat, phase : {"setup", "call", "teardown", "ended"}, passed : BOOLEAN]
  /\ phases \in Seq(LoggedPhases) /\ calls \in Seq(BOOLEAN)
  /\ observation \in Control!Reports \cup {Control!Absent}
  /\ judgement \in {"pending", "accepted", "rejected"}

(* The requested test alone: it is called at most once, and a phase logged   *)
(* as its call, like an observation, is of that call.                        *)
CalledOnce ==
  collected = <<"requested">> =>
    /\ at.test \in {0, 1} /\ (at.test = 0 => at.phase \in {"teardown", "ended"})
    /\ at.phase = "setup" \/ at.test = 0 => calls = <<>>
    /\ Len(calls) <= 1
    /\ at.phase = "call" => Len(calls) = 1
    /\ (\E i \in DOMAIN phases : phases[i].when = "call") => Len(calls) = 1
    /\ observation # Control!Absent => Len(calls) = 1 /\ calls[1]

(* The lifecycle is of the end, and so is the judgement.                     *)
AtTheEnd ==
  /\ lifecycle # Control!NoLifecycle =>
       at.phase = "ended" /\ lifecycle.collected = collected /\ lifecycle.phases = phases
  /\ judgement # "pending" => at.phase = "ended"

ControlInv ==
  part = "control" =>
    ControlTyped /\ CalledOnce /\ AtTheEnd /\ Control!AcceptedIsDemonstrated

LEMMA InitControl == PartsInit => ControlInv
<1> SUFFICES ASSUME part = "control", PartsInit PROVE ControlInv
  BY DEF ControlInv
<1>1. Control!Init
  BY DEF PartsInit
<1> QED
  BY <1>1
  DEF Control!Init, ControlInv, ControlTyped, CalledOnce, AtTheEnd, Control!AcceptedIsDemonstrated

(* A step of the process before it ends: what it logs and which calls it makes. *)
LEMMA EndPhaseControl ==
  ASSUME ControlTyped, CalledOnce, AtTheEnd,
         NEW o \in {"passed", "failed", "skipped"}, NEW xfail \in BOOLEAN,
         Control!EndPhase(o, xfail)
  PROVE  ControlTyped' /\ CalledOnce' /\ AtTheEnd' /\ judgement' = "pending"
<1> DEFINE logged == [when |-> at.phase, outcome |-> o, xfail |-> xfail]
           next == IF at.phase = "setup" /\ o = "passed" THEN "call" ELSE "teardown"
<1>1. /\ at.phase \in {"setup", "call"} /\ judgement = "pending"
      /\ required' = required /\ collected' = collected /\ observation' = observation
      /\ lifecycle' = lifecycle /\ judgement' = judgement
      /\ lifecycle = Control!NoLifecycle
  BY DEF Control!EndPhase, AtTheEnd
<1>2. logged \in LoggedPhases
  BY <1>1 DEF LoggedPhases
<1>3. phases' = IF collected[at.test] = "requested" THEN Append(phases, logged) ELSE phases
  BY DEF Control!EndPhase, Control!Log
<1>4. at' = [test |-> at.test, phase |-> next, passed |-> TRUE]
      /\ calls' = IF next = "call" /\ collected[at.test] = "requested"
                    THEN Append(calls, FALSE) ELSE calls
  BY DEF Control!EndPhase, Control!Enter, Control!Following
<1> HIDE DEF logged, next
<1>5. phases' \in Seq(LoggedPhases) /\ calls' \in Seq(BOOLEAN)
  <2>1. phases' = Append(phases, logged) \/ phases' = phases
    BY <1>3
  <2>2. calls' = Append(calls, FALSE) \/ calls' = calls
    BY <1>4
  <2>3. phases' \in Seq(LoggedPhases)
    BY <1>2, <2>1 DEF ControlTyped
  <2>4. PICK b \in BOOLEAN : calls' = Append(calls, b) \/ calls' = calls
    BY <2>2, Zenon
  <2>5. calls' \in Seq(BOOLEAN)
    BY <2>4 DEF ControlTyped
  <2> QED
    BY <2>3, <2>5
<1> USE DEF logged, next
<1>6. ControlTyped'
  BY <1>1, <1>4, <1>5 DEF ControlTyped
<1>7. ASSUME collected = <<"requested">> PROVE CalledOnce'
  <2>1. at.test = 1 /\ collected[at.test] = "requested"
    BY <1>1, <1>7 DEF CalledOnce
  <2>2. phases' = Append(phases, logged)
    BY <1>3, <2>1
  <2>3. CASE next = "call"
    <3>1. calls = <<>> /\ at.phase = "setup"
      BY <1>7, <2>3 DEF CalledOnce
    <3>2. calls' = Append(<<>>, FALSE) /\ Len(calls) = 0
      BY <1>4, <2>1, <2>3, <3>1
    <3>3. Len(calls') = 1 /\ observation = Control!Absent
      BY <1>7, <3>2 DEF CalledOnce
    <3> QED
      BY <1>1, <1>4, <2>1, <2>3, <3>3 DEF CalledOnce
  <2>4. CASE next # "call"
    <3>1. calls' = calls
      BY <1>4, <2>4
    <3>2. at.phase = "call" => Len(calls) = 1
      BY <1>7 DEF CalledOnce
    <3>3. (\E i \in DOMAIN phases' : phases'[i].when = "call") =>
             at.phase = "call" \/ \E i \in DOMAIN phases : phases[i].when = "call"
      BY <2>2 DEF ControlTyped
    <3>4. (\E i \in DOMAIN phases' : phases'[i].when = "call") => Len(calls) = 1
      BY <1>7, <3>2, <3>3 DEF CalledOnce
    <3> QED
      BY <1>1, <1>4, <1>7, <2>1, <2>4, <3>1, <3>4 DEF CalledOnce
  <2> QED
    BY <2>3, <2>4
<1>8. CalledOnce'
  BY <1>1, <1>7 DEF CalledOnce
<1> QED
  BY <1>1, <1>6, <1>8 DEF AtTheEnd

LEMMA TeardownPhases ==
  ASSUME ControlTyped, NEW o \in {"passed", "failed", "skipped"},
         \/ phases' = phases
         \/ phases' = IF collected[at.test] = "requested"
                        THEN Append(phases, [when |-> "teardown", outcome |-> o, xfail |-> FALSE])
                        ELSE phases
  PROVE  /\ phases' \in Seq(LoggedPhases)
         /\ (\E i \in DOMAIN phases' : phases'[i].when = "call") =>
               \E i \in DOMAIN phases : phases[i].when = "call"
<1> DEFINE last == [when |-> "teardown", outcome |-> o, xfail |-> FALSE]
<1>1. last \in LoggedPhases /\ last.when = "teardown"
  BY DEF LoggedPhases
<1>2. phases' = phases \/ phases' = Append(phases, last)
  OBVIOUS
<1> HIDE DEF last
<1>3. CASE phases' = phases
  BY <1>3 DEF ControlTyped
<1>4. CASE phases' = Append(phases, last)
  <2>1. phases' \in Seq(LoggedPhases) /\ Len(phases') = Len(phases) + 1 /\ Len(phases) \in Nat
    BY <1>1, <1>4 DEF ControlTyped
  <2>2. \A i \in 1..Len(phases) : phases'[i] = phases[i]
    BY <1>4 DEF ControlTyped
  <2>3. phases'[Len(phases) + 1] = last
    BY <1>4 DEF ControlTyped
  <2>4. ASSUME NEW i \in DOMAIN phases', phases'[i].when = "call"
        PROVE  i \in DOMAIN phases /\ phases[i].when = "call"
    <3>1. i \in 1..(Len(phases) + 1) /\ DOMAIN phases = 1..Len(phases)
      BY <2>1 DEF ControlTyped
    <3>2. i # Len(phases) + 1
      BY <1>1, <2>3, <2>4
    <3> QED
      BY <2>1, <2>2, <2>4, <3>1, <3>2
  <2> QED
    BY <2>1, <2>4
<1> QED
  BY <1>2, <1>3, <1>4

LEMMA NextTestControl ==
  ASSUME ControlTyped, CalledOnce, AtTheEnd,
         NEW o \in {"passed", "failed", "skipped"}, Control!NextTest(o)
  PROVE  ControlTyped' /\ CalledOnce' /\ AtTheEnd' /\ judgement' = "pending"
<1>1. /\ at.phase = "teardown" /\ at.test < Len(collected)
      /\ required' = required /\ collected' = collected /\ observation' = observation
      /\ lifecycle' = lifecycle /\ judgement' = judgement /\ judgement = "pending"
      /\ lifecycle = Control!NoLifecycle /\ calls' = calls
      /\ at' = [test |-> at.test + 1, phase |-> "setup", passed |-> TRUE]
  BY DEF Control!NextTest, Control!Enter, AtTheEnd
<1>2. /\ phases' \in Seq(LoggedPhases)
      /\ (\E i \in DOMAIN phases' : phases'[i].when = "call") =>
            \E i \in DOMAIN phases : phases[i].when = "call"
  BY TeardownPhases DEF Control!NextTest, Control!Log
<1>3. ControlTyped'
  BY <1>1, <1>2 DEF ControlTyped
<1>4. CalledOnce'
  BY <1>1, <1>2 DEF CalledOnce
<1> QED
  BY <1>1, <1>3, <1>4 DEF AtTheEnd

LEMMA ObserveControl ==
  ASSUME ControlTyped, CalledOnce, AtTheEnd,
         NEW report \in Control!Reports, Control!Observe(report)
  PROVE  ControlTyped' /\ CalledOnce' /\ AtTheEnd' /\ judgement' = "pending"
<1>1. /\ at.phase = "call" /\ judgement = "pending" /\ lifecycle = Control!NoLifecycle
      /\ UNCHANGED <<required, collected, phases, lifecycle, judgement>>
      /\ at' \in {at, [at EXCEPT !.passed = FALSE]}
  BY DEF Control!Observe, AtTheEnd
<1>2. at'.test = at.test /\ at'.phase = at.phase /\ at' \in [test : Nat, phase : {"setup", "call", "teardown", "ended"}, passed : BOOLEAN]
  BY <1>1 DEF ControlTyped
<1>3. calls' = IF collected[at.test] = "requested"
                 THEN [calls EXCEPT ![Len(calls)] = @ \/ Control!Shows(report)] ELSE calls
  BY DEF Control!Observe
<1>4. calls' \in Seq(BOOLEAN) /\ Len(calls') = Len(calls)
  <2> DEFINE b == calls[Len(calls)] \/ Control!Shows(report)
  <2>1. b \in BOOLEAN /\ calls \in Seq(BOOLEAN)
    BY DEF ControlTyped
  <2>2. calls' = [calls EXCEPT ![Len(calls)] = b] \/ calls' = calls
    BY <1>3
  <2> HIDE DEF b
  <2> QED
    BY <2>1, <2>2
<1>5. observation' \in {observation, report}
  BY DEF Control!Observe
<1>6. ControlTyped'
  BY <1>1, <1>2, <1>4, <1>5 DEF ControlTyped
<1>7. ASSUME collected = <<"requested">>, observation' # Control!Absent PROVE calls'[1]
  <2>1. at.test = 1 /\ Len(calls) = 1
    BY <1>1, <1>7 DEF CalledOnce
  <2>2. calls' = [calls EXCEPT ![1] = @ \/ Control!Shows(report)] /\ 1 \in DOMAIN calls
    BY <1>3, <1>7, <2>1 DEF ControlTyped
  <2>3. calls'[1] = (calls[1] \/ Control!Shows(report))
    BY <2>2
  <2>4. CASE observation # Control!Absent
    BY <1>7, <2>3, <2>4 DEF CalledOnce
  <2>5. CASE observation = Control!Absent
    <3>1. report.verdict = required.verdict /\ Control!Supports(report)
      BY <1>7, <2>5 DEF Control!Observe
    <3>2. Control!Shows(report)
      BY <3>1 DEF Control!Supports, Control!Shows, Control!Requirements, ControlTyped
    <3> QED
      BY <2>3, <3>2
  <2> QED
    BY <2>4, <2>5
<1>8. CalledOnce'
  BY <1>1, <1>2, <1>4, <1>7 DEF CalledOnce
<1> QED
  BY <1>1, <1>6, <1>8 DEF AtTheEnd

LEMMA EndControl ==
  ASSUME ControlTyped, CalledOnce, AtTheEnd,
         \/ Control!Cut
         \/ \E o \in {"passed", "failed", "skipped"}, left \in BOOLEAN : Control!Finish(o, left)
  PROVE  ControlTyped' /\ CalledOnce' /\ AtTheEnd' /\ judgement' = "pending"
<1>1. /\ at.phase # "ended" /\ judgement = "pending" /\ lifecycle = Control!NoLifecycle
      /\ UNCHANGED <<required, collected, observation, judgement, calls>>
      /\ at' = [at EXCEPT !.phase = "ended"]
  BY DEF Control!Cut, Control!Finish, Control!Running, AtTheEnd
<1>2. /\ phases' \in Seq(LoggedPhases)
      /\ (\E i \in DOMAIN phases' : phases'[i].when = "call") =>
            \E i \in DOMAIN phases : phases[i].when = "call"
  <2>1. CASE Control!Cut
    BY <2>1 DEF Control!Cut, ControlTyped
  <2>2. CASE \E o \in {"passed", "failed", "skipped"}, left \in BOOLEAN : Control!Finish(o, left)
    <3>1. PICK o \in {"passed", "failed", "skipped"} :
             \/ phases' = phases
             \/ phases' = IF collected[at.test] = "requested"
                            THEN Append(phases, [when |-> "teardown", outcome |-> o, xfail |-> FALSE])
                            ELSE phases
      BY <2>2 DEF Control!Finish, Control!Log
    <3> QED
      BY <3>1, TeardownPhases
  <2> QED
    BY <2>1, <2>2
<1>3. at'.test = at.test /\ at'.phase = "ended" /\ at'.passed = at.passed
      /\ at' \in [test : Nat, phase : {"setup", "call", "teardown", "ended"}, passed : BOOLEAN]
  BY <1>1 DEF ControlTyped
<1>4. ControlTyped'
  BY <1>1, <1>2, <1>3 DEF ControlTyped
<1>5. CalledOnce'
  BY <1>1, <1>2, <1>3 DEF CalledOnce
<1>6. lifecycle' \in {lifecycle, [collected |-> collected, phases |-> phases', exit |-> exit']}
  BY DEF Control!Cut, Control!Finish
<1>7. AtTheEnd'
  BY <1>1, <1>3, <1>6 DEF AtTheEnd
<1> QED
  BY <1>1, <1>4, <1>5, <1>7

LEMMA JudgeControl ==
  ASSUME ControlTyped, CalledOnce, AtTheEnd, Control!Judge
  PROVE  ControlTyped' /\ CalledOnce' /\ AtTheEnd' /\ Control!AcceptedIsDemonstrated'
<1>1. /\ at.phase = "ended" /\ judgement' \in {"accepted", "rejected"}
      /\ UNCHANGED <<required, collected, at, phases, observation, lifecycle, exit, remains, calls>>
  BY DEF Control!Judge
<1>2. ASSUME judgement' = "accepted" PROVE Control!AcceptedIsDemonstrated'
  <2>1. lifecycle # Control!NoLifecycle /\ Control!LifecycleIsClean(lifecycle)
        /\ observation # Control!Absent
    BY <1>2 DEF Control!Judge
  <2>2. lifecycle.collected = collected /\ lifecycle.phases = phases
    BY <2>1 DEF AtTheEnd
  <2>3. collected = <<"requested">>
        /\ \A i \in DOMAIN phases : phases[i].outcome = "passed" /\ ~phases[i].xfail
    BY <2>1, <2>2 DEF Control!LifecycleIsClean
  <2> QED
    BY <1>1, <2>1, <2>3 DEF CalledOnce, Control!AcceptedIsDemonstrated
<1>3. Control!AcceptedIsDemonstrated'
  BY <1>2 DEF Control!AcceptedIsDemonstrated
<1> QED
  BY <1>1, <1>3 DEF ControlTyped, CalledOnce, AtTheEnd

LEMMA NextControl == ControlInv /\ [PartsNext]_partsVars => ControlInv'
<1> SUFFICES ASSUME ControlInv, [PartsNext]_partsVars, part' = "control" PROVE ControlInv'
  BY DEF ControlInv
<1>0. part = "control" /\ part' = part
  BY DEF PartsNext, partsVars, DossierStep, AuditStep, TreeStep, ControlStep, GateStep,
         RunnerStep, ClosureStep
<1>1. CASE UNCHANGED partsVars
  BY <1>0, <1>1
  DEF partsVars, controlVars, ControlInv, ControlTyped, CalledOnce, AtTheEnd,
      Control!AcceptedIsDemonstrated
<1>2. CASE Control!Judge
  BY <1>0, <1>2, JudgeControl DEF ControlInv
<1>3. CASE Control!Next /\ ~Control!Judge
  <2>1. ControlTyped' /\ CalledOnce' /\ AtTheEnd' /\ judgement' = "pending"
    BY <1>0, <1>3, EndPhaseControl, NextTestControl, ObserveControl, EndControl
    DEF Control!Next, ControlInv
  <2> QED
    BY <2>1 DEF ControlInv, Control!AcceptedIsDemonstrated
<1> QED
  BY <1>0, <1>1, <1>2, <1>3
  DEF PartsNext, DossierStep, AuditStep, TreeStep, ControlStep, GateStep, RunnerStep, ClosureStep

(* AcceptedIsDemonstrated, whatever pytest collects and however its phases end. *)
THEOREM AcceptedControlsAreDemonstrated == PartsSpec => []AcceptedIsDemonstrated
<1>1. ControlInv => AcceptedIsDemonstrated
  BY DEF ControlInv, AcceptedIsDemonstrated
<1> QED
  BY InitControl, NextControl, <1>1, PTL DEF PartsSpec

(***************************************************************************)
(* GateControl.                                                            *)
(***************************************************************************)

Entries == {"source", "tool", "root", "lib"}

Trees ==
  [content : [{"source", "tool"} -> Nat], stamp : [Entries -> Nat],
   extra : SUBSET {"root", "lib"}, report : {"absent", "exact", "failed", "skipped"},
   scratch : {"private", "open"}]

Preparing == {"parse", "git", "prepare", "substance", "seal", "registry"}
Digesting == {"walk", "read", "rewalk"}
Finishing == {"wait", "report", "settle", "judge", "passed"}

(* The verifier's record, with fields of no particular type. *)
IsVerifier ==
  verifier = [at |-> verifier.at, parsed |-> verifier.parsed, bound |-> verifier.bound,
              names |-> verifier.names, read |-> verifier.read, ran |-> verifier.ran,
              exit |-> verifier.exit, exact |-> verifier.exact]

GateTyped ==
  /\ registry \in Gate!Registries /\ edits \in Nat
  /\ gateTree \in Trees /\ writes \in Nat
  /\ child \in {"none", "running", "left", "gone"}
  /\ harm \subseteq Entries
  /\ IsVerifier
  /\ verifier.at \in Preparing \cup Digesting \cup Finishing \cup {"start", "refused"}
  /\ verifier.ran \in BOOLEAN /\ verifier.exit \in {0, 1} /\ verifier.exact \in BOOLEAN

(* Where the verifier is, whether the tests have run, and the child. *)
GatePhase ==
  /\ verifier.at \in Preparing \cup {"start"} => ~verifier.ran
  /\ verifier.at \in Finishing => verifier.ran
  /\ child = "none" <=> ~verifier.ran
  /\ child = "running" <=> verifier.at = "wait"

(* What is known of the registry that was read, and of the one there is. *)
GateRegistry ==
  /\ registry # Gate!Historical => blame # {}
  /\ verifier.at \notin {"parse", "refused"} =>
       /\ verifier.parsed \in Gate!Registries \ {Gate!Malformed}
       /\ verifier.parsed # Gate!Historical => blame # {}
       /\ edits = 0 => verifier.parsed = registry
  /\ verifier.at \in Digesting \cup Finishing \cup {"start", "registry"} =>
       verifier.parsed.set = Gate!SetHash(verifier.parsed.controls, Gate!Frozen)
  /\ verifier.at \in Digesting \cup Finishing \cup {"start"} /\ edits = 0 =>
       verifier.parsed = Gate!Historical

(* The tree the verifier bound, what has become of it, and who noticed. *)
GateTree ==
  /\ child = "none" => gateTree = Gate!NewTree /\ harm = {}
  /\ verifier.at \in Digesting \cup Finishing \cup {"start", "substance", "seal", "registry"} =>
       verifier.bound = Gate!Digest(Gate!NewTree, Entries)
  /\ \A x \in harm \ {"root"} : gateTree.stamp[x] > 0
  /\ verifier.at = "rewalk" /\ verifier.ran /\ verifier.read = verifier.bound => harm \subseteq {"root"}
  /\ verifier.at \in {"settle", "judge", "passed"} => harm \subseteq {"root"}

(* As long as nobody is to blame, nothing stands against the controls. *)
Blameless ==
  blame = {} =>
    /\ verifier.at # "refused"
    /\ gateTree.content = [f \in {"source", "tool"} |-> 0]
    /\ \A x \in Entries \ {"root"} : gateTree.stamp[x] = 0
    /\ gateTree.extra = {} /\ gateTree.scratch = "private"
    /\ gateTree.report \in {"absent", "exact"}
    /\ verifier.at \in {"read", "rewalk"} => verifier.names = Entries
    /\ verifier.at = "rewalk" => verifier.read = Gate!Digest(Gate!NewTree, Entries)
    /\ verifier.ran /\ verifier.at # "wait" => verifier.exit = 0 /\ gateTree.report = "exact"
    /\ verifier.ran /\ verifier.at \notin {"wait", "report"} => verifier.exact

GateVerdict ==
  verifier.at = "passed" =>
    /\ verifier.exit = 0 /\ verifier.exact
    /\ verifier.parsed.result =
         Gate!Passing(verifier.parsed.controls, Gate!SetHash(verifier.parsed.controls, Gate!Frozen))

GateInv ==
  part = "gate" =>
    GateTyped /\ GatePhase /\ GateRegistry /\ GateTree /\ Blameless /\ GateVerdict

LEMMA RegistryFacts ==
  /\ Gate!Historical \in Gate!Registries
  /\ Gate!Malformed # Gate!Historical
  /\ \A r \in Gate!Registries \ {Gate!Malformed} : r.controls \in {"frozen", "other"}
  /\ Gate!Historical.controls = "frozen"
  /\ Gate!Historical.set = Gate!SetHash("frozen", Gate!Frozen)
  /\ Gate!Historical.result = Gate!Passing("frozen", Gate!SetHash("frozen", Gate!Frozen))
<1>1. ASSUME NEW c, NEW s, NEW r
      PROVE  /\ Gate!Registry(c, s, r).controls = c
             /\ Gate!Registry(c, s, r).set = Gate!SetHash(s, Gate!Frozen)
             /\ Gate!Registry(c, s, r).result = Gate!Passing(r, Gate!SetHash(r, Gate!Frozen))
  BY DEF Gate!Registry
<1>2. Gate!Malformed.controls = "none"
  BY DEF Gate!Malformed
<1> QED
  BY <1>1, <1>2 DEF Gate!Registries, Gate!Historical

LEMMA NewTreeFacts ==
  /\ Gate!NewTree \in Trees
  /\ Gate!NewTree.content = [f \in {"source", "tool"} |-> 0]
  /\ Gate!NewTree.stamp = [x \in Entries |-> 0]
  /\ Gate!NewTree.extra = {} /\ Gate!NewTree.report = "absent" /\ Gate!NewTree.scratch = "private"
  /\ Gate!Inventory(Gate!NewTree) = Entries
  BY DEF Gate!NewTree, Trees, Gate!Files, Gate!Dirs, Entries, Gate!Inventory

LEMMA InitGate == PartsInit => GateInv
<1> SUFFICES ASSUME PartsInit, part = "gate" PROVE GateInv
  BY DEF GateInv
<1>1. Gate!Init
  BY DEF PartsInit
<1>2. /\ verifier.at = "parse" /\ verifier.ran = FALSE /\ verifier.exit = 1
      /\ verifier.exact = FALSE /\ IsVerifier
  BY <1>1 DEF Gate!Init, IsVerifier
<1>3. GateTyped
  BY <1>1, <1>2, NewTreeFacts DEF Gate!Init, GateTyped, Preparing
<1>4. GatePhase
  BY <1>1, <1>2 DEF Gate!Init, GatePhase, Finishing
<1>5. GateRegistry
  BY <1>1, <1>2 DEF Gate!Init, GateRegistry, Digesting, Finishing
<1>6. GateTree
  BY <1>1, <1>2 DEF Gate!Init, GateTree, Digesting, Finishing
<1>7. Blameless
  BY <1>1, <1>2, NewTreeFacts DEF Gate!Init, Blameless, Entries
<1>8. GateVerdict
  BY <1>2 DEF GateVerdict
<1> QED
  BY <1>3, <1>4, <1>5, <1>6, <1>7, <1>8 DEF GateInv

(* Somebody edits the registry. *)
LEMMA EditGate ==
  ASSUME GateInv, part = "gate", part' = part, Gate!EditRegistry
  PROVE  GateInv'
<1> USE DEF GateInv, Gate!EditRegistry
<1>1. blame' # {} /\ edits' # 0 /\ edits' \in Nat /\ registry' \in Gate!Registries
  BY DEF GateTyped
<1>2. GateTyped'
  BY <1>1 DEF GateTyped, IsVerifier
<1>3. GatePhase'
  BY DEF GatePhase
<1>4. GateRegistry'
  BY <1>1 DEF GateRegistry
<1>5. GateTree'
  BY DEF GateTree
<1>6. Blameless'
  BY <1>1 DEF Blameless
<1>7. GateVerdict'
  BY DEF GateVerdict
<1> QED
  BY <1>2, <1>3, <1>4, <1>5, <1>6, <1>7

(* The child writes in the tree: what it does to what is bound is blamed. *)
LEMMA ChildKeeps ==
  ASSUME GateInv, part = "gate", part' = part,
         child \in {"running", "left"}, gateTree' \in Trees, writes' \in Nat,
         UNCHANGED <<registry, edits, child, verifier>>,
         verifier.at # "refused",
         NEW x \in Entries, gateTree'.stamp[x] > 0,
         harm' = IF child = "running" THEN harm \cup {x} ELSE harm,
         \A y \in Entries : gateTree'.stamp[y] > 0 \/ gateTree'.stamp[y] = gateTree.stamp[y],
         blame' # {}
  PROVE  GateInv'
<1> USE DEF GateInv
<1>2. GateTyped'
  BY DEF GateTyped, IsVerifier
<1>3. GatePhase'
  BY DEF GatePhase
<1>4. GateRegistry'
  BY DEF GateRegistry
<1>5. GateTree'
  <2>1. \A y \in Entries : gateTree.stamp[y] \in Nat /\ gateTree'.stamp[y] \in Nat
    BY DEF GateTyped, Trees
  <2>2. \A y \in harm' \ {"root"} : gateTree'.stamp[y] > 0
    BY <2>1 DEF GateTree, GateTyped
  <2>3. child = "running" => verifier.at = "wait"
    BY DEF GatePhase
  <2>4. verifier.at # "wait" => harm' = harm
    BY <2>3
  <2> QED
    BY <2>2, <2>4 DEF GateTree
<1>6. Blameless'
  BY DEF Blameless
<1>7. GateVerdict'
  BY DEF GateVerdict
<1> QED
  BY <1>2, <1>3, <1>4, <1>5, <1>6, <1>7

(* The child writes what it must, or what is not bound. *)
LEMMA HarmlessKeeps ==
  ASSUME GateInv, part = "gate", part' = part,
         child \in {"running", "left"}, gateTree' \in Trees, writes' \in Nat,
         UNCHANGED <<registry, edits, child, verifier, harm>>,
         gateTree'.content = gateTree.content, gateTree'.extra = gateTree.extra,
         \A y \in Entries \ {"root"} : gateTree'.stamp[y] = gateTree.stamp[y],
         \/ blame' # {}
         \/ /\ blame' = blame
            /\ gateTree'.scratch \in {gateTree.scratch, "private"}
            /\ gateTree'.report \in {gateTree.report, "exact"}
  PROVE  GateInv'
<1> USE DEF GateInv
<1>2. GateTyped'
  BY DEF GateTyped, IsVerifier
<1>3. GatePhase'
  BY DEF GatePhase
<1>4. GateRegistry'
  <2>1. blame # {} => blame' # {}
    OBVIOUS
  <2> QED
    BY <2>1 DEF GateRegistry
<1>5. GateTree'
  BY DEF GateTree, GateTyped
<1>6. Blameless'
  BY DEF Blameless
<1>7. GateVerdict'
  BY DEF GateVerdict
<1> QED
  BY <1>2, <1>3, <1>4, <1>5, <1>6, <1>7

LEMMA TreeFields ==
  ASSUME NEW t \in Trees
  PROVE  /\ t.content \in [{"source", "tool"} -> Nat] /\ t.stamp \in [Entries -> Nat]
         /\ t.extra \subseteq {"root", "lib"} /\ t.report \in {"absent", "exact", "failed", "skipped"}
         /\ t.scratch \in {"private", "open"}
  BY DEF Trees

LEMMA ChildGate ==
  ASSUME GateInv, part = "gate", part' = part,
         \/ \E f \in Gate!Files : Gate!Rewrite(f)
         \/ \E d \in Gate!Dirs : Gate!AddExtra(d) \/ Gate!TakeExtra(d)
         \/ \E results \in {"exact", "failed", "skipped"} : Gate!WriteReport(results)
         \/ \E mode \in {"private", "open"} : Gate!WriteScratch(mode)
  PROVE  GateInv'
<1>1. gateTree \in Trees /\ writes \in Nat /\ child \in {"none", "running", "left", "gone"}
  BY DEF GateInv, GateTyped
<1>2. writes + 1 \in Nat /\ writes + 1 > 0
  BY <1>1
<1>3. ASSUME NEW x \in Entries, NEW t \in Trees, gateTree' = t,
             t.stamp = [gateTree.stamp EXCEPT ![x] = writes + 1],
             Gate!CanWrite, Gate!Harm(x), writes' = writes + 1,
             UNCHANGED <<registry, edits, child, verifier>>
      PROVE  GateInv'
  <2>1. gateTree'.stamp[x] > 0
        /\ \A y \in Entries : gateTree'.stamp[y] > 0 \/ gateTree'.stamp[y] = gateTree.stamp[y]
    BY <1>1, <1>2, <1>3, TreeFields
  <2>2. /\ blame' # {} /\ child \in {"running", "left"} /\ verifier.at # "refused"
        /\ harm' = IF child = "running" THEN harm \cup {x} ELSE harm
    BY <1>3 DEF Gate!Harm, Gate!CanWrite, Gate!Open
  <2> QED
    BY <1>1, <1>2, <1>3, <2>1, <2>2, ChildKeeps
<1>4. ASSUME NEW f \in Gate!Files, Gate!Rewrite(f) PROVE GateInv'
  <2>1. PICK content \in {0, writes + 1} :
          gateTree' = [gateTree EXCEPT !.content[f] = content, !.stamp[f] = writes + 1]
    BY <1>4 DEF Gate!Rewrite
  <2>0. [gateTree.content EXCEPT ![f] = content] \in [{"source", "tool"} -> Nat]
    BY <1>1, <1>2, TreeFields DEF Gate!Files
  <2>b. [gateTree.stamp EXCEPT ![f] = writes + 1] \in [Entries -> Nat]
    BY <1>1, <1>2, TreeFields
  <2>2. gateTree' \in Trees /\ gateTree'.stamp = [gateTree.stamp EXCEPT ![f] = writes + 1]
    BY <1>1, <2>1, <2>0, <2>b DEF Trees
  <2> QED
    BY <1>3, <1>4, <2>2 DEF Gate!Rewrite, Gate!Files, Entries
<1>5. ASSUME NEW d \in Gate!Dirs, Gate!AddExtra(d) \/ Gate!TakeExtra(d) PROVE GateInv'
  <2>1. PICK extra \in {gateTree.extra \cup {d}, gateTree.extra \ {d}} :
          gateTree' = [gateTree EXCEPT !.extra = extra, !.stamp[d] = writes + 1]
    BY <1>5 DEF Gate!AddExtra, Gate!TakeExtra
  <2>2. extra \subseteq {"root", "lib"}
    BY <1>1, TreeFields DEF Gate!Dirs
  <2>3. gateTree' \in Trees /\ gateTree'.stamp = [gateTree.stamp EXCEPT ![d] = writes + 1]
    BY <1>1, <1>2, <2>1, <2>2 DEF Trees, Gate!Dirs, Entries
  <2> QED
    BY <1>3, <1>5, <2>3 DEF Gate!AddExtra, Gate!TakeExtra, Gate!Dirs, Entries
<1>6. ASSUME NEW results \in {"exact", "failed", "skipped"}, Gate!WriteReport(results) PROVE GateInv'
  <2>1. gateTree' = [gateTree EXCEPT !.report = results, !.stamp["root"] = writes + 1]
    BY <1>6 DEF Gate!WriteReport
  <2>2. /\ gateTree' \in Trees /\ gateTree'.stamp = [gateTree.stamp EXCEPT !["root"] = writes + 1]
        /\ gateTree'.content = gateTree.content /\ gateTree'.extra = gateTree.extra
        /\ gateTree'.scratch = gateTree.scratch /\ gateTree'.report = results
    BY <1>1, <1>2, <2>1 DEF Trees, Entries
  <2>3. \A y \in Entries \ {"root"} : gateTree'.stamp[y] = gateTree.stamp[y]
    BY <1>1, <2>2, TreeFields
  <2>4. /\ child \in {"running", "left"} /\ writes' \in Nat
        /\ UNCHANGED <<registry, edits, child, verifier, harm>>
        /\ blame' # {} \/ (blame' = blame /\ results = "exact")
    BY <1>2, <1>6 DEF Gate!WriteReport, Gate!CanWrite
  <2> QED
    BY <2>2, <2>3, <2>4, HarmlessKeeps
<1>7. ASSUME NEW mode \in {"private", "open"}, Gate!WriteScratch(mode) PROVE GateInv'
  <2>1. gateTree' = [gateTree EXCEPT !.scratch = mode]
    BY <1>7 DEF Gate!WriteScratch
  <2>2. /\ gateTree' \in Trees /\ gateTree'.stamp = gateTree.stamp
        /\ gateTree'.content = gateTree.content /\ gateTree'.extra = gateTree.extra
        /\ gateTree'.scratch = mode /\ gateTree'.report = gateTree.report
    BY <1>1, <2>1 DEF Trees
  <2>4. /\ child \in {"running", "left"} /\ writes' \in Nat
        /\ UNCHANGED <<registry, edits, child, verifier, harm>>
        /\ blame' # {} \/ (blame' = blame /\ mode = "private")
    BY <1>2, <1>7 DEF Gate!WriteScratch, Gate!CanWrite
  <2> QED
    BY <2>2, <2>4, HarmlessKeeps
<1> QED
  BY <1>4, <1>5, <1>6, <1>7

(* The verifier moves on. *)
LEMMA GoFields ==
  ASSUME IsVerifier, NEW s, verifier' = [verifier EXCEPT !.at = s]
  PROVE  /\ IsVerifier' /\ verifier'.at = s /\ verifier'.parsed = verifier.parsed
         /\ verifier'.bound = verifier.bound /\ verifier'.names = verifier.names
         /\ verifier'.read = verifier.read /\ verifier'.ran = verifier.ran
         /\ verifier'.exit = verifier.exit /\ verifier'.exact = verifier.exact
<1>1. verifier' = [at |-> s, parsed |-> verifier.parsed, bound |-> verifier.bound,
                   names |-> verifier.names, read |-> verifier.read, ran |-> verifier.ran,
                   exit |-> verifier.exit, exact |-> verifier.exact]
  BY DEF IsVerifier
<1> QED
  BY <1>1 DEF IsVerifier

(* A refusal that somebody is to blame for. *)
LEMMA RefuseGate ==
  ASSUME GateInv, part = "gate", part' = part,
         UNCHANGED <<registry, edits, gateTree, writes, harm>>,
         IsVerifier', verifier'.at = "refused", verifier'.ran = verifier.ran,
         verifier'.exit = verifier.exit, verifier'.exact = verifier.exact,
         child' \in {"none", "left", "gone"}, child' = "none" <=> ~verifier.ran,
         blame' # {}
  PROVE  GateInv'
<1> USE DEF GateInv
<1>2. GateTyped'
  BY DEF GateTyped
<1>3. GatePhase'
  BY DEF GatePhase, GateTyped, Preparing, Finishing
<1>4. GateRegistry'
  BY DEF GateRegistry, Digesting, Finishing
<1>5. GateTree'
  BY DEF GateTree, GatePhase, Digesting, Finishing
<1>6. Blameless'
  BY DEF Blameless
<1>7. GateVerdict'
  BY DEF GateVerdict
<1> QED
  BY <1>2, <1>3, <1>4, <1>5, <1>6, <1>7

(* The steps before the tests run, and the reading of the report. *)
LEMMA PreparingGate ==
  ASSUME GateInv, part = "gate", part' = part,
         \/ Gate!Parse \/ Gate!ReadHistory \/ Gate!Prepare \/ Gate!CheckSubstance
         \/ Gate!CheckSeal \/ Gate!CheckRegistry \/ Gate!Start
  PROVE  GateInv'
<1> USE DEF Gate!World, Gate!At, Gate!Go, Gate!Check
<1>1. GateTyped /\ GatePhase /\ GateRegistry /\ GateTree /\ Blameless /\ GateVerdict /\ IsVerifier
  BY DEF GateInv, GateTyped
<1>2. UNCHANGED <<registry, edits, gateTree, writes, harm>>
  BY DEF Gate!Parse, Gate!ReadHistory, Gate!Prepare, Gate!CheckSubstance, Gate!CheckSeal,
         Gate!CheckRegistry, Gate!Start
<1>3. ASSUME verifier.at \in Preparing \cup {"start"},
             verifier' = [verifier EXCEPT !.at = "refused"], child' = child, blame' # {}
      PROVE  GateInv'
  BY <1>1, <1>2, <1>3, GoFields, RefuseGate DEF GateTyped, GatePhase, Preparing
<1>4. ASSUME NEW s \in Preparing \cup {"walk"}, verifier.at \in Preparing, IsVerifier',
             verifier'.at = s, verifier'.ran = verifier.ran, verifier'.exit = verifier.exit,
             verifier'.exact = verifier.exact, verifier'.parsed \in Gate!Registries \ {Gate!Malformed},
             verifier'.parsed # Gate!Historical => blame # {},
             edits = 0 => verifier'.parsed = registry,
             s \in {"registry", "walk"} =>
               verifier'.parsed.set = Gate!SetHash(verifier'.parsed.controls, Gate!Frozen),
             s = "walk" /\ edits = 0 => verifier'.parsed = Gate!Historical,
             s \in {"substance", "seal", "registry", "walk"} =>
               verifier'.bound = Gate!Digest(Gate!NewTree, Entries),
             s # "parse", child' = child, blame' = blame
      PROVE  GateInv'
  <2> USE DEF Preparing, Digesting, Finishing
  <2>1. GateTyped'
    BY <1>1, <1>2, <1>4 DEF GateTyped
  <2>2. GatePhase'
    BY <1>1, <1>4 DEF GatePhase
  <2>3. GateRegistry'
    BY <1>1, <1>2, <1>4 DEF GateRegistry
  <2>4. GateTree'
    BY <1>1, <1>2, <1>4 DEF GateTree
  <2>5. Blameless'
    BY <1>1, <1>2, <1>4 DEF Blameless, GatePhase
  <2>6. GateVerdict'
    BY <1>4 DEF GateVerdict
  <2> QED
    BY <2>1, <2>2, <2>3, <2>4, <2>5, <2>6 DEF GateInv
<1>5. CASE Gate!Parse
  <2>1. CASE registry = Gate!Malformed
    <3>1. IsVerifier' /\ verifier'.at = "refused" /\ verifier'.ran = verifier.ran
          /\ verifier'.exit = verifier.exit /\ verifier'.exact = verifier.exact
      BY <1>1, <1>5, <2>1 DEF Gate!Parse, IsVerifier
    <3>2. child' = child /\ blame' # {} /\ ~verifier.ran /\ child = "none"
      BY <1>1, <1>5, <2>1, RegistryFacts DEF Gate!Parse, GateRegistry, GatePhase, Preparing
    <3> QED
      BY <1>2, <3>1, <3>2, RefuseGate
  <2>2. CASE registry # Gate!Malformed
    <3>1. IsVerifier' /\ verifier'.at = "git" /\ verifier'.parsed = registry
          /\ verifier'.ran = verifier.ran /\ verifier'.exit = verifier.exit
          /\ verifier'.exact = verifier.exact
      BY <1>1, <1>5, <2>2 DEF Gate!Parse, IsVerifier
    <3> QED
      BY <1>1, <1>4, <1>5, <2>2, <3>1 DEF Gate!Parse, GateTyped, GateRegistry, Preparing
  <2> QED
    BY <2>1, <2>2
<1>6. CASE Gate!ReadHistory
  <2>1. CASE Gate!Go("refused") /\ blame' = blame \cup {"git"}
    BY <1>3, <1>6, <2>1 DEF Gate!ReadHistory, Preparing
  <2>2. CASE Gate!Go("prepare") /\ UNCHANGED blame
    BY <1>1, <1>4, <1>6, <2>2, GoFields DEF Gate!ReadHistory, GateRegistry, Preparing
  <2> QED
    BY <1>6, <2>1, <2>2 DEF Gate!ReadHistory
<1>7. CASE Gate!Prepare
  <2>1. CASE Gate!Go("refused") /\ blame' = blame \cup {"runner"}
    BY <1>3, <1>7, <2>1 DEF Gate!Prepare, Preparing
  <2>2. CASE ~(Gate!Go("refused") /\ blame' = blame \cup {"runner"})
    <3>1. gateTree = Gate!NewTree
      BY <1>1, <1>7 DEF Gate!Prepare, GatePhase, GateTree, Preparing
    <3>2. IsVerifier' /\ verifier'.at = "substance" /\ verifier'.parsed = verifier.parsed
          /\ verifier'.bound = Gate!Digest(Gate!NewTree, Entries)
          /\ verifier'.ran = verifier.ran /\ verifier'.exit = verifier.exit
          /\ verifier'.exact = verifier.exact
      BY <1>1, <1>7, <2>2, <3>1, NewTreeFacts DEF Gate!Prepare, IsVerifier
    <3> QED
      BY <1>1, <1>4, <1>7, <2>2, <3>2 DEF Gate!Prepare, GateRegistry, Preparing
  <2> QED
    BY <2>1, <2>2
<1>8. CASE Gate!CheckSubstance
  <2>1. verifier.parsed.controls \in Gate!SetNames
    BY <1>1, <1>8, RegistryFacts DEF Gate!CheckSubstance, GateRegistry, Gate!SetNames
  <2>2. Gate!Go("seal")
    BY <1>8, <2>1 DEF Gate!CheckSubstance, Gate!Substantive
  <2> QED
    BY <1>1, <1>4, <1>8, <2>2, GoFields DEF Gate!CheckSubstance, GateRegistry, GateTree, Preparing
<1>9. CASE Gate!CheckSeal
  <2>1. gateTree = Gate!NewTree
    BY <1>1, <1>9 DEF Gate!CheckSeal, GatePhase, GateTree, Preparing
  <2>2. Gate!SealedFiles(gateTree) = Gate!Frozen
    BY <2>1, NewTreeFacts DEF Gate!SealedFiles, Gate!Frozen, Gate!Sealed
  <2>3. Gate!SetHashNow = Gate!SetHash(verifier.parsed.controls, Gate!Frozen)
    BY <2>2 DEF Gate!SetHashNow
  <2>4. CASE verifier.parsed.set = Gate!SetHashNow
    BY <1>1, <1>4, <1>9, <2>3, <2>4, GoFields DEF Gate!CheckSeal, GateRegistry, GateTree, Preparing
  <2>5. CASE verifier.parsed.set # Gate!SetHashNow
    <3>1. verifier.parsed # Gate!Historical
      BY <2>3, <2>5, RegistryFacts
    <3> QED
      BY <1>1, <1>3, <1>9, <2>5, <3>1 DEF Gate!CheckSeal, GateRegistry, Preparing
  <2> QED
    BY <2>4, <2>5
<1>10. CASE Gate!CheckRegistry
  <2>1. CASE registry = Gate!Historical
    BY <1>1, <1>4, <1>10, <2>1, GoFields DEF Gate!CheckRegistry, GateRegistry, GateTree, Preparing
  <2>2. CASE registry # Gate!Historical
    BY <1>1, <1>3, <1>10, <2>2 DEF Gate!CheckRegistry, GateRegistry, Preparing
  <2> QED
    BY <2>1, <2>2
<1>11. CASE Gate!Start
  <2>1. gateTree = Gate!NewTree /\ ~verifier.ran /\ child = "none"
    BY <1>1, <1>11 DEF Gate!Start, GatePhase, GateTree
  <2>2. /\ verifier' = [verifier EXCEPT !.at = "wait", !.ran = TRUE]
        /\ child' = "running" /\ blame' = blame
    BY <1>11, <2>1, NewTreeFacts DEF Gate!Start
  <2>3. IsVerifier' /\ verifier'.at = "wait" /\ verifier'.parsed = verifier.parsed
        /\ verifier'.bound = verifier.bound /\ verifier'.ran = TRUE
        /\ verifier'.exit = verifier.exit /\ verifier'.exact = verifier.exact
    BY <1>1, <2>2 DEF IsVerifier
  <2> USE DEF Preparing, Digesting, Finishing
  <2>4. verifier.at = "start"
    BY <1>11 DEF Gate!Start
  <2>5. GateTyped'
    BY <1>1, <1>2, <2>2, <2>3 DEF GateTyped
  <2>6. GatePhase'
    BY <2>2, <2>3 DEF GatePhase
  <2>7. GateRegistry'
    BY <1>1, <1>2, <2>2, <2>3, <2>4 DEF GateRegistry
  <2>8. GateTree'
    BY <1>1, <1>2, <2>2, <2>3, <2>4 DEF GateTree
  <2>9. Blameless'
    BY <1>1, <1>2, <2>2, <2>3, <2>4 DEF Blameless
  <2>10. GateVerdict'
    BY <2>3 DEF GateVerdict
  <2> QED
    BY <2>5, <2>6, <2>7, <2>8, <2>9, <2>10 DEF GateInv
<1> QED
  BY <1>5, <1>6, <1>7, <1>8, <1>9, <1>10, <1>11

(* An entry that reads as it was bound has not been written. *)
LEMMA BoundEntries ==
  ASSUME NEW t \in Trees, NEW names,
         Gate!Digest(t, names) = Gate!Digest(Gate!NewTree, Entries)
  PROVE  \A x \in Entries \ {"root"} : t.stamp[x] = 0
<1> USE DEF Gate!Files, Gate!Dirs, Gate!Mutable, Entries
<1>1. names = Entries
  <2>1. DOMAIN Gate!Digest(t, names) = names /\ DOMAIN Gate!Digest(Gate!NewTree, Entries) = Entries
    BY DEF Gate!Digest
  <2> QED
    BY <2>1
<1>2. \A x \in Entries : Gate!Entry(t, x) = Gate!Entry(Gate!NewTree, x)
  <2>1. ASSUME NEW x \in Entries
        PROVE  /\ Gate!Digest(t, names)[x] = Gate!Entry(t, x)
               /\ Gate!Digest(Gate!NewTree, Entries)[x] = Gate!Entry(Gate!NewTree, x)
    BY <1>1 DEF Gate!Digest
  <2> QED
    BY <2>1
<1>3. ASSUME NEW u, NEW x \in Entries \ {"root"} PROVE Gate!Entry(u, x).stamp = u.stamp[x]
  BY <1>3 DEF Gate!Entry
<1>4. \A x \in Entries : Gate!NewTree.stamp[x] = 0
  BY NewTreeFacts
<1> QED
  BY <1>2, <1>3, <1>4

(* As long as nobody is to blame, the tree reads as it was bound. *)
LEMMA UntouchedTree ==
  ASSUME NEW t \in Trees, t.content = [f \in {"source", "tool"} |-> 0],
         \A x \in Entries \ {"root"} : t.stamp[x] = 0, t.extra = {}
  PROVE  /\ Gate!Inventory(t) = Entries
         /\ Gate!Digest(t, Entries) = Gate!Digest(Gate!NewTree, Entries)
         /\ Gate!SealedFiles(t) = Gate!Frozen
<1> USE DEF Gate!Files, Gate!Dirs, Gate!Mutable, Entries
<1>1. Gate!Inventory(t) = Entries
  BY DEF Gate!Inventory
<1>2. \A x \in Entries : Gate!Entry(t, x) = Gate!Entry(Gate!NewTree, x)
  BY NewTreeFacts DEF Gate!Entry
<1>3. Gate!Digest(t, Entries) = Gate!Digest(Gate!NewTree, Entries)
  BY <1>2 DEF Gate!Digest
<1>4. Gate!SealedFiles(t) = Gate!Frozen
  BY DEF Gate!SealedFiles, Gate!Frozen, Gate!Sealed
<1> QED
  BY <1>1, <1>3, <1>4

(* The digest, the end of the tests, and the judgement. *)
LEMMA JudgingGate ==
  ASSUME GateInv, part = "gate", part' = part,
         \/ Gate!Walk \/ Gate!ReadEntries \/ Gate!WalkAgain \/ (\E code \in {0, 1} : Gate!Exit(code))
         \/ Gate!Timeout \/ Gate!ReadReport \/ Gate!Settle \/ Gate!Judge
  PROVE  GateInv'
<1> USE DEF Gate!World, Gate!At, Gate!Go, Gate!Check
<1>1. GateTyped /\ GatePhase /\ GateRegistry /\ GateTree /\ Blameless /\ GateVerdict /\ IsVerifier
      /\ gateTree \in Trees
  BY DEF GateInv, GateTyped
<1>2. UNCHANGED <<registry, edits, gateTree, writes, harm>>
  BY DEF Gate!Walk, Gate!ReadEntries, Gate!WalkAgain, Gate!Exit, Gate!Timeout, Gate!ReadReport,
         Gate!Settle, Gate!Judge
<1>3. ASSUME verifier.at \in {"read", "rewalk", "settle", "judge"},
             verifier' = [verifier EXCEPT !.at = "refused"], child' = child, blame' = blame, blame # {}
      PROVE  GateInv'
  BY <1>1, <1>2, <1>3, GoFields, RefuseGate DEF GateTyped, GatePhase
<1>4. blame = {} => /\ Gate!Inventory(gateTree) = Entries
                    /\ Gate!Digest(gateTree, Entries) = Gate!Digest(Gate!NewTree, Entries)
                    /\ Gate!SealedFiles(gateTree) = Gate!Frozen
  BY <1>1, UntouchedTree DEF Blameless
(* A step that is not a refusal: what the next place asks for. *)
<1>5. ASSUME NEW s \in Digesting \cup Finishing \cup {"start"}, verifier.at \in Digesting \cup Finishing,
             IsVerifier', verifier'.at = s, verifier'.ran = verifier.ran,
             verifier'.parsed = verifier.parsed, verifier'.bound = verifier.bound,
             verifier'.exit \in {0, 1}, verifier'.exact \in BOOLEAN,
             s # "wait", s = "start" => ~verifier.ran,
             s \in {"report", "settle", "judge", "passed"} => verifier.ran,
             child' \in {"none", "running", "left", "gone"},
             child' = "none" <=> ~verifier.ran, child' # "running",
             s = "rewalk" /\ verifier.ran /\ verifier'.read = verifier.bound => harm \subseteq {"root"},
             s \in {"settle", "judge", "passed"} => harm \subseteq {"root"},
             blame \subseteq blame',
             blame' = {} => /\ s \in {"read", "rewalk"} => verifier'.names = Entries
                            /\ s = "rewalk" => verifier'.read = Gate!Digest(Gate!NewTree, Entries)
                            /\ verifier.ran => verifier'.exit = 0 /\ gateTree.report = "exact"
                            /\ verifier.ran /\ s # "report" => verifier'.exact,
             GateVerdict'
      PROVE  GateInv'
  <2> USE DEF Digesting, Finishing
  <2>1. GateTyped'
    BY <1>1, <1>2, <1>5 DEF GateTyped
  <2>2. GatePhase'
    BY <1>1, <1>5 DEF GatePhase, Preparing
  <2>3. GateRegistry'
    BY <1>1, <1>2, <1>5 DEF GateRegistry
  <2>4. GateTree'
    BY <1>1, <1>2, <1>5 DEF GateTree, GatePhase
  <2>5. Blameless'
    BY <1>1, <1>2, <1>5 DEF Blameless
  <2> QED
    BY <1>5, <2>1, <2>2, <2>3, <2>4, <2>5 DEF GateInv
<1>6. CASE Gate!Walk
  <2>1. /\ IsVerifier' /\ verifier'.at = "read" /\ verifier'.ran = verifier.ran
        /\ verifier'.parsed = verifier.parsed /\ verifier'.bound = verifier.bound
        /\ verifier'.exit = verifier.exit /\ verifier'.exact = verifier.exact
        /\ verifier'.names = Gate!Inventory(gateTree) /\ verifier.at = "walk"
        /\ child' = child /\ blame' = blame
    BY <1>1, <1>6 DEF Gate!Walk, IsVerifier
  <2> QED
    BY <1>1, <1>4, <1>5, <2>1
    DEF GateTyped, GatePhase, Blameless, GateVerdict, Digesting, Finishing
<1>7. CASE Gate!ReadEntries
  <2>0. verifier.at = "read" /\ child' = child /\ blame' = blame
    BY <1>7 DEF Gate!ReadEntries
  <2>1. CASE ~(verifier.names \subseteq Gate!Inventory(gateTree))
    <3>1. blame # {}
      BY <1>1, <1>4, <2>0, <2>1 DEF Blameless
    <3> QED
      BY <1>3, <1>7, <2>0, <2>1, <3>1 DEF Gate!ReadEntries
  <2>2. CASE verifier.names \subseteq Gate!Inventory(gateTree)
    <3>1. /\ IsVerifier' /\ verifier'.at = "rewalk" /\ verifier'.ran = verifier.ran
          /\ verifier'.parsed = verifier.parsed /\ verifier'.bound = verifier.bound
          /\ verifier'.exit = verifier.exit /\ verifier'.exact = verifier.exact
          /\ verifier'.names = verifier.names
          /\ verifier'.read = Gate!Digest(gateTree, verifier.names)
      BY <1>1, <1>7, <2>2 DEF Gate!ReadEntries, IsVerifier
    <3>2. verifier'.read = verifier.bound => harm \subseteq {"root"}
      <4> SUFFICES ASSUME verifier'.read = verifier.bound PROVE harm \subseteq {"root"}
        OBVIOUS
      <4>1. Gate!Digest(gateTree, verifier.names) = Gate!Digest(Gate!NewTree, Entries)
        BY <1>1, <2>0, <3>1 DEF GateTree, Digesting
      <4>2. \A x \in Entries \ {"root"} : gateTree.stamp[x] = 0
        BY <1>1, <4>1, BoundEntries
      <4> QED
        BY <1>1, <4>2 DEF GateTree, GateTyped
    <3>3. blame = {} => verifier'.read = Gate!Digest(Gate!NewTree, Entries)
      BY <1>1, <1>4, <2>0, <3>1 DEF Blameless
    <3> QED
      BY <1>1, <1>5, <2>0, <3>1, <3>2, <3>3
      DEF GateTyped, GatePhase, Blameless, GateVerdict, Digesting, Finishing
  <2> QED
    BY <2>1, <2>2
<1>8. CASE Gate!WalkAgain
  <2>0. verifier.at = "rewalk" /\ child' = child /\ blame' = blame
    BY <1>8 DEF Gate!WalkAgain
  <2> DEFINE holds == /\ verifier.names = Gate!Inventory(gateTree) /\ verifier.read = verifier.bound
                      /\ Gate!DirectoriesAreTrusted
             s == IF verifier.ran THEN "settle" ELSE "start"
  <2>1. CASE ~holds
    <3>1. blame # {}
      BY <1>1, <1>4, <2>0, <2>1 DEF Blameless, GateTree, Digesting, Gate!DirectoriesAreTrusted
    <3> QED
      BY <1>3, <1>8, <2>0, <2>1, <3>1 DEF Gate!WalkAgain
  <2>2. CASE holds
    <3>1. verifier' = [verifier EXCEPT !.at = s] /\ s \in {"settle", "start"}
      BY <1>8, <2>2 DEF Gate!WalkAgain
    <3>2. s = "settle" <=> verifier.ran
      OBVIOUS
    <3>3. verifier.ran => harm \subseteq {"root"}
      BY <1>1, <2>0, <2>2 DEF GateTree
    <3> HIDE DEF s
    <3>4. /\ IsVerifier' /\ verifier'.at = s /\ verifier'.ran = verifier.ran
          /\ verifier'.parsed = verifier.parsed /\ verifier'.bound = verifier.bound
          /\ verifier'.exit = verifier.exit /\ verifier'.exact = verifier.exact
      BY <1>1, <3>1, GoFields
    <3> QED
      BY <1>1, <1>5, <2>0, <3>1, <3>2, <3>3, <3>4
      DEF GateTyped, GatePhase, Blameless, GateVerdict, Digesting, Finishing
  <2> QED
    BY <2>1, <2>2
<1>9. ASSUME NEW code \in {0, 1}, Gate!Exit(code) PROVE GateInv'
  <2>1. /\ IsVerifier' /\ verifier'.at = "report" /\ verifier'.ran = verifier.ran
        /\ verifier'.parsed = verifier.parsed /\ verifier'.bound = verifier.bound
        /\ verifier'.exit = code /\ verifier'.exact = verifier.exact /\ verifier.at = "wait"
        /\ child' \in {"left", "gone"} /\ blame \subseteq blame'
        /\ blame' = {} => code = 0 /\ gateTree.report # "absent"
    BY <1>1, <1>9 DEF Gate!Exit, IsVerifier
  <2> QED
    BY <1>1, <1>5, <2>1
    DEF GateTyped, GatePhase, Blameless, GateVerdict, Digesting, Finishing
<1>10. CASE Gate!Timeout
  BY <1>1, <1>2, <1>10, GoFields, RefuseGate DEF Gate!Timeout, GatePhase, Finishing
<1>11. CASE Gate!ReadReport
  <2>1. /\ IsVerifier' /\ verifier'.at = "walk" /\ verifier'.ran = verifier.ran
        /\ verifier'.parsed = verifier.parsed /\ verifier'.bound = verifier.bound
        /\ verifier'.exit = verifier.exit /\ verifier'.exact = (gateTree.report = "exact")
        /\ verifier.at = "report" /\ child' = child /\ blame' = blame
    BY <1>1, <1>11 DEF Gate!ReadReport, IsVerifier
  <2> QED
    BY <1>1, <1>5, <2>1
    DEF GateTyped, GatePhase, Blameless, GateVerdict, Digesting, Finishing
<1>12. CASE Gate!Settle
  <2>0. verifier.at = "settle" /\ child' = child /\ blame' = blame
    BY <1>12 DEF Gate!Settle
  <2>1. CASE Gate!SetHashNow = verifier.parsed.set /\ registry = Gate!Historical
    BY <1>1, <1>5, <1>12, <2>0, <2>1, GoFields
    DEF Gate!Settle, GateTyped, GatePhase, GateTree, Blameless, GateVerdict, Digesting, Finishing
  <2>2. CASE ~(Gate!SetHashNow = verifier.parsed.set /\ registry = Gate!Historical)
    <3>1. blame # {}
      <4> SUFFICES ASSUME blame = {} PROVE FALSE
        OBVIOUS
      <4>1. registry = Gate!Historical
        BY <1>1 DEF GateRegistry
      <4>2. Gate!SetHashNow = verifier.parsed.set
        BY <1>1, <1>4, <2>0 DEF GateRegistry, Finishing, Gate!SetHashNow
      <4> QED
        BY <2>2, <4>1, <4>2
    <3> QED
      BY <1>3, <1>12, <2>0, <2>2, <3>1 DEF Gate!Settle
  <2> QED
    BY <2>1, <2>2
<1>13. CASE Gate!Judge
  <2>0. verifier.at = "judge" /\ child' = child /\ blame' = blame
    BY <1>13 DEF Gate!Judge
  <2>1. verifier.parsed.set = Gate!SetHash(verifier.parsed.controls, Gate!Frozen)
    BY <1>1, <2>0 DEF GateRegistry, Finishing
  <2>2. verifier.exit = 0 /\ verifier.exact =>
          Gate!Outcome = Gate!Passing(verifier.parsed.controls,
                                      Gate!SetHash(verifier.parsed.controls, Gate!Frozen))
    BY <1>1, <2>1 DEF Gate!Outcome, Gate!Passing, GateTyped
  <2>3. CASE verifier.exit = 0 /\ verifier.exact /\ verifier.parsed.result = Gate!Outcome
    <3>1. /\ IsVerifier' /\ verifier'.at = "passed" /\ verifier'.ran = verifier.ran
          /\ verifier'.parsed = verifier.parsed /\ verifier'.bound = verifier.bound
          /\ verifier'.exit = verifier.exit /\ verifier'.exact = verifier.exact
      BY <1>1, <1>13, <2>3, GoFields DEF Gate!Judge
    <3>2. GateVerdict'
      BY <2>2, <2>3, <3>1 DEF GateVerdict
    <3> QED
      BY <1>1, <1>5, <2>0, <3>1, <3>2
      DEF GateTyped, GatePhase, GateTree, Blameless, Digesting, Finishing
  <2>4. CASE ~(verifier.exit = 0 /\ verifier.exact /\ verifier.parsed.result = Gate!Outcome)
    <3>1. blame # {}
      <4> SUFFICES ASSUME blame = {} PROVE FALSE
        OBVIOUS
      <4>1. verifier.parsed = Gate!Historical
        BY <1>1, <2>0 DEF GateRegistry
      <4>2. verifier.exit = 0 /\ verifier.exact
        BY <1>1, <2>0 DEF Blameless, GatePhase, Finishing
      <4> QED
        BY <2>2, <2>4, <4>1, <4>2, RegistryFacts
    <3> QED
      BY <1>3, <1>13, <2>0, <2>4, <3>1 DEF Gate!Judge
  <2> QED
    BY <2>3, <2>4
<1> QED
  BY <1>6, <1>7, <1>8, <1>9, <1>10, <1>11, <1>12, <1>13

LEMMA NextGate == GateInv /\ [PartsNext]_partsVars => GateInv'
<1> SUFFICES ASSUME GateInv, [PartsNext]_partsVars, part' = "gate" PROVE GateInv'
  BY DEF GateInv
<1>0. part = "gate" /\ part' = part
  BY DEF PartsNext, partsVars, DossierStep, AuditStep, TreeStep, ControlStep, GateStep,
         RunnerStep, ClosureStep
<1>1. CASE UNCHANGED partsVars
  BY <1>0, <1>1
  DEF partsVars, gateVars, GateInv, GateTyped, IsVerifier, GatePhase, GateRegistry, GateTree,
      Blameless, GateVerdict
<1>2. CASE Gate!Next
  BY <1>0, <1>2, EditGate, ChildGate, PreparingGate, JudgingGate DEF Gate!Next
<1> QED
  BY <1>0, <1>1, <1>2
  DEF PartsNext, DossierStep, AuditStep, TreeStep, ControlStep, GateStep, RunnerStep, ClosureStep

(* VerdictIsExact for any bounds on the child's writes and the edits of the  *)
(* registry.                                                                 *)
THEOREM GateVerdictsAreExact == PartsSpec => []VerdictIsExact
<1>1. GateInv => VerdictIsExact
  BY DEF GateInv, GateRegistry, GateTree, GateVerdict, Blameless, VerdictIsExact,
         Gate!VerdictIsExact, Gate!Mutable, Finishing
<1> QED
  BY InitGate, NextGate, <1>1, PTL DEF PartsSpec

(***************************************************************************)
(* RunnerPreparation.                                                      *)
(***************************************************************************)

(* The pinned bytes of both artifacts. *)
Pinned == {<<"wheel", "good">>, <<"python", "good">>}

BeforeFetch == {"stage", "lock"}
Fetching == {"look", "settle", "download", "temp", "replace", "look again", "settle again"}
Installing == {"install", "installing"}
Installed == {"installed", "extract", "probe", "bind"}
Ended == {"idle", "dead", "distrusted", "unavailable"}
Places == BeforeFetch \cup Fetching \cup Installing \cup Installed \cup Ended \cup {"done"}

Preparation ==
  [at : Places, art : {"wheel", "python"}, look : Nat, got : SUBSET Pinned,
   uv : Nat, bound : {0}, ran : Int]

Cached == [{"wheel", "python"} -> [content : {"good", "other", "none"}, stamp : Nat]]

RunnerTyped ==
  /\ cache \in Cached
  /\ stamp \in Nat
  /\ prep \in [Preparers -> Preparation]

(* What a preparer has in hand, and what its uv was, by where it is. *)
Gathered(p) ==
  /\ p.at \in BeforeFetch \cup Fetching /\ p.art = "wheel" => p.got = {}
  /\ p.at \in BeforeFetch => p.art = "wheel"
  /\ p.at \in Fetching /\ p.art = "python" => p.got = {<<"wheel", "good">>}
  /\ p.at \in Installing \cup Installed \cup {"done"} => p.got = Pinned
  /\ p.at \in Installed /\ p.uv = 0 => p.ran = 0
  /\ p.at = "done" => p.ran = 0

RunnerInv == part = "runner" => RunnerTyped /\ \A p \in Preparers : Gathered(prep[p])

(* The record of a preparer, and the same with one field or two changed. *)
LEMMA PreparationFields ==
  ASSUME NEW r \in Preparation
  PROVE  /\ r.at \in Places /\ r.art \in {"wheel", "python"} /\ r.look \in Nat
         /\ r.got \subseteq Pinned /\ r.uv \in Nat /\ r.bound = 0 /\ r.ran \in Int
  BY DEF Preparation

LEMMA MovedPreparation ==
  ASSUME NEW r \in Preparation, NEW s \in Places
  PROVE  LET m == [r EXCEPT !.at = s]
         IN  /\ m \in Preparation /\ m.at = s /\ m.art = r.art /\ m.got = r.got
             /\ m.uv = r.uv /\ m.ran = r.ran
  BY DEF Preparation

(* The steps between two program points that change nothing else. *)
Advances ==
  {<<"stage", "lock">>, <<"lock", "look">>, <<"settle", "download">>, <<"download", "temp">>,
   <<"temp", "replace">>, <<"replace", "look again">>, <<"install", "installing">>,
   <<"extract", "probe">>, <<"probe", "bind">>}

LEMMA AdvanceGathered ==
  ASSUME NEW r \in Preparation, Gathered(r), NEW s \in Places,
         <<r.at, s>> \in Advances \/ s \in Ended
  PROVE  Gathered([r EXCEPT !.at = s])
<1> DEFINE m == [r EXCEPT !.at = s]
<1>1. m.at = s /\ m.art = r.art /\ m.got = r.got /\ m.uv = r.uv /\ m.ran = r.ran
  BY MovedPreparation
<1> HIDE DEF m
<1>2. Gathered(m)
  BY <1>1 DEF Gathered, Advances, Ended, BeforeFetch, Fetching, Installing, Installed
<1> QED
  BY <1>2 DEF m

LEMMA InitRunner == PartsInit => RunnerInv
<1> SUFFICES ASSUME PartsInit, part = "runner" PROVE RunnerTyped /\ \A p \in Preparers : Gathered(prep[p])
  BY DEF RunnerInv
<1>1. Runner!Init
  BY DEF PartsInit
<1>2. {Runner!Absent, [content |-> "good", stamp |-> 0], [content |-> "other", stamp |-> 0]}
        \subseteq [content : {"good", "other", "none"}, stamp : Nat]
  BY DEF Runner!Absent
<1>3. Runner!Idle \in Preparation /\ Runner!Idle.at = "idle"
  BY DEF Runner!Idle, Preparation, Places, Ended, BeforeFetch
<1>4. RunnerTyped
  BY <1>1, <1>2, <1>3 DEF RunnerTyped, Runner!Init, Runner!Artifacts, Cached
<1>5. \A p \in Preparers : prep[p].at = "idle"
  BY <1>1, <1>3 DEF Runner!Init
<1> QED
  BY <1>4, <1>5 DEF Gathered, BeforeFetch, Fetching, Installing, Installed

(* A step that changes the record of one preparer into another that fits. *)
LEMMA OnePreparer ==
  ASSUME RunnerInv, part = "runner", part' = part, NEW p \in Preparers,
         cache' \in Cached, stamp' \in Nat,
         NEW r \in Preparation, prep' = [prep EXCEPT ![p] = r], Gathered(r)
  PROVE  RunnerInv'
<1>1. prep \in [Preparers -> Preparation] /\ \A q \in Preparers : Gathered(prep[q])
  BY DEF RunnerInv, RunnerTyped
<1>2. prep' \in [Preparers -> Preparation] /\ \A q \in Preparers : prep'[q] = IF q = p THEN r ELSE prep[q]
  BY <1>1
<1>3. \A q \in Preparers : Gathered(prep'[q])
  BY <1>1, <1>2
<1> QED
  BY <1>2, <1>3 DEF RunnerInv, RunnerTyped

LEMMA AdvanceRunner ==
  ASSUME RunnerInv, part = "runner", part' = part, NEW p \in Preparers, NEW s \in Places,
         <<prep[p].at, s>> \in Advances \/ s \in Ended,
         cache' \in Cached, stamp' \in Nat, prep' = [prep EXCEPT ![p].at = s]
  PROVE  RunnerInv'
<1> DEFINE m == [prep[p] EXCEPT !.at = s]
<1>1. prep \in [Preparers -> Preparation] /\ prep[p] \in Preparation /\ Gathered(prep[p])
  BY DEF RunnerInv, RunnerTyped
<1>2. m \in Preparation
  BY <1>1, MovedPreparation
<1>3. Gathered(m)
  BY <1>1, AdvanceGathered
<1>4. prep' = [prep EXCEPT ![p] = m]
  BY <1>1
<1> HIDE DEF m
<1> QED
  BY <1>2, <1>3, <1>4, OnePreparer

LEMMA NextRunner == RunnerInv /\ [PartsNext]_partsVars => RunnerInv'
<1> SUFFICES ASSUME RunnerInv, [PartsNext]_partsVars, part' = "runner" PROVE RunnerInv'
  BY DEF RunnerInv
<1>0. part = "runner" /\ part' = part
  BY DEF PartsNext, partsVars, DossierStep, AuditStep, TreeStep, ControlStep, GateStep,
         RunnerStep, ClosureStep
<1>1. /\ cache \in Cached /\ stamp \in Nat /\ prep \in [Preparers -> Preparation]
      /\ \A p \in Preparers : Gathered(prep[p]) /\ prep[p] \in Preparation
  BY <1>0 DEF RunnerInv, RunnerTyped
<1>2. CASE UNCHANGED partsVars
  BY <1>0, <1>1, <1>2 DEF partsVars, runnerVars, RunnerInv, RunnerTyped
<1> SUFFICES ASSUME Runner!Next PROVE RunnerInv'
  BY <1>0, <1>2 DEF PartsNext, DossierStep, AuditStep, TreeStep, ControlStep, GateStep,
         RunnerStep, ClosureStep
<1>3. ASSUME NEW a \in {"wheel", "python"}, NEW content \in {"good", "other", "none"}
      PROVE  [cache EXCEPT ![a] = [content |-> content, stamp |-> stamp + 1]] \in Cached
  BY <1>1 DEF Cached
<1>4. ASSUME NEW a \in Runner!Artifacts, Runner!Tamper(a) PROVE RunnerInv'
  <2>1. cache' \in Cached
    BY <1>3, <1>4 DEF Runner!Tamper, Runner!Artifacts
  <2> QED
    BY <1>0, <1>1, <1>4, <2>1 DEF Runner!Tamper, RunnerInv, RunnerTyped
<1>5. ASSUME NEW p \in Preparers, Runner!Alter(p) PROVE RunnerInv'
  <2> DEFINE r == [prep[p] EXCEPT !.uv = stamp + 1]
  <2>1. r \in Preparation /\ r.at = prep[p].at /\ r.art = prep[p].art /\ r.got = prep[p].got
        /\ r.uv # 0 /\ r.ran = prep[p].ran
    BY <1>1 DEF Preparation, Places, Installed
  <2>2. prep[p].at # "done" /\ prep' = [prep EXCEPT ![p] = r] /\ cache' = cache /\ stamp' \in Nat
    BY <1>1, <1>5 DEF Runner!Alter, Runner!Done
  <2> HIDE DEF r
  <2>3. Gathered(r)
    BY <1>1, <2>1, <2>2 DEF Gathered, Installed
  <2> QED
    BY <1>0, <1>1, <2>1, <2>2, <2>3, OnePreparer
<1>6. ASSUME NEW p \in Preparers, Runner!Crash(p) PROVE RunnerInv'
  BY <1>0, <1>1, <1>6, AdvanceRunner DEF Runner!Crash, Ended, Places
<1>7. ASSUME NEW p \in Preparers, Runner!Begin(p) PROVE RunnerInv'
  <2> DEFINE r == [Runner!Idle EXCEPT !.at = "stage"]
  <2>1. r \in Preparation /\ r.at = "stage" /\ r.art = "wheel" /\ r.got = {}
    BY DEF Runner!Idle, Preparation, Places, Ended, BeforeFetch
  <2>2. prep' = [prep EXCEPT ![p] = r] /\ cache' = cache /\ stamp' = stamp
    BY <1>7 DEF Runner!Begin, Runner!World
  <2> HIDE DEF r
  <2>3. Gathered(r)
    BY <2>1 DEF Gathered, BeforeFetch, Fetching, Installing, Installed
  <2> QED
    BY <1>0, <1>1, <2>1, <2>2, <2>3, OnePreparer
<1>8. ASSUME NEW p \in Preparers,
             \/ Runner!StageUv(p) \/ Runner!ReadLock(p) \/ Runner!Download(p)
             \/ Runner!WriteTemp(p) \/ Runner!WriteFails(p)
             \/ Runner!StartInstall(p) \/ Runner!InstallFails(p)
             \/ Runner!Extract(p) \/ Runner!Probe(p)
      PROVE RunnerInv'
  <2>1. cache' = cache /\ stamp' = stamp
    BY <1>8 DEF Runner!StageUv, Runner!ReadLock, Runner!Download, Runner!WriteTemp, Runner!WriteFails,
       Runner!StartInstall, Runner!InstallFails, Runner!Extract, Runner!Probe, Runner!World
  <2>2. \E s \in Places : /\ prep' = [prep EXCEPT ![p].at = s]
                          /\ <<prep[p].at, s>> \in Advances \/ s \in Ended
    <3> USE DEF Runner!Go, Runner!At, Runner!Distrust, Advances, Ended, Places, BeforeFetch, Fetching, Installing, Installed
    <3>1. CASE Runner!StageUv(p) \/ Runner!ReadLock(p)
      BY <3>1 DEF Runner!StageUv, Runner!ReadLock
    <3>2. CASE Runner!Download(p)
      BY <3>2 DEF Runner!Download
    <3>3. CASE Runner!WriteTemp(p) \/ Runner!WriteFails(p)
      BY <3>3 DEF Runner!WriteTemp, Runner!WriteFails
    <3>4. CASE Runner!StartInstall(p) \/ Runner!InstallFails(p)
      BY <3>4 DEF Runner!StartInstall, Runner!InstallFails
    <3>5. CASE Runner!Extract(p) \/ Runner!Probe(p)
      BY <3>5 DEF Runner!Extract, Runner!Probe
    <3> QED
      BY <1>8, <3>1, <3>2, <3>3, <3>4, <3>5
  <2> QED
    BY <1>0, <1>1, <2>1, <2>2, AdvanceRunner
<1>9. ASSUME NEW p \in Preparers, Runner!Look(p) PROVE RunnerInv'
  <2> DEFINE s == IF prep[p].at = "look" THEN "settle" ELSE "settle again"
             r == [prep[p] EXCEPT !.look = cache[prep[p].art].stamp, !.at = s]
  <2>1. prep' = [prep EXCEPT ![p] = r] /\ cache' = cache /\ stamp' = stamp
        /\ prep[p].at \in {"look", "look again"}
    BY <1>1, <1>9 DEF Runner!Look, Runner!World
  <2>2. cache[prep[p].art].stamp \in Nat /\ s \in {"settle", "settle again"}
    BY <1>1, PreparationFields DEF Cached
  <2> HIDE DEF s
  <2>3. r \in Preparation /\ r.at = s /\ r.art = prep[p].art /\ r.got = prep[p].got
    BY <1>1, <2>2 DEF Preparation, Places, Fetching, Installing
  <2> HIDE DEF r
  <2>4. Gathered(r)
    BY <1>1, <2>1, <2>2, <2>3 DEF Gathered, BeforeFetch, Fetching, Installing, Installed
  <2> QED
    BY <1>0, <1>1, <2>1, <2>3, <2>4, OnePreparer
<1>10. ASSUME NEW p \in Preparers, Runner!Take(p, "good"), prep[p].at \in Fetching,
              cache' = cache, stamp' = stamp
       PROVE RunnerInv'
  <2> DEFINE s == IF prep[p].art = "wheel" THEN "look" ELSE "install"
             r == [prep[p] EXCEPT !.got = prep[p].got \cup {<<prep[p].art, "good">>},
                                  !.at = s, !.art = "python"]
  <2>1. prep' = [prep EXCEPT ![p] = r]
    BY <1>1, <1>10 DEF Runner!Take
  <2>2. prep[p].art \in {"wheel", "python"} /\ prep[p].got \subseteq Pinned
        /\ <<prep[p].art, "good">> \in Pinned
    BY <1>1, PreparationFields DEF Pinned
  <2>3. r \in Preparation /\ r.at = s /\ r.art = "python"
        /\ r.got = prep[p].got \cup {<<prep[p].art, "good">>}
    BY <1>1, <2>2 DEF Preparation, Places, Fetching, Installing
  <2> HIDE DEF r
  <2>4. Gathered(r)
    BY <1>1, <1>10, <2>2, <2>3 DEF Gathered, BeforeFetch, Fetching, Installing, Installed, Pinned
  <2> QED
    BY <1>0, <1>1, <1>10, <2>1, <2>3, <2>4, OnePreparer
<1>11. ASSUME NEW p \in Preparers, Runner!UseCache(p) PROVE RunnerInv'
  <2>1. CASE Runner!Authentic(Runner!StableBytes(p))
    BY <1>10, <1>11, <2>1 DEF Runner!UseCache, Runner!Authentic, Runner!At, Runner!World, Fetching
  <2>2. CASE ~Runner!Authentic(Runner!StableBytes(p))
    BY <1>0, <1>1, <1>11, <2>2, AdvanceRunner
    DEF Runner!UseCache, Runner!At, Runner!Go, Runner!World, Advances, Places, BeforeFetch, Fetching, Installing, Installed
  <2> QED
    BY <2>1, <2>2
<1>12. ASSUME NEW p \in Preparers, Runner!UsePersisted(p) PROVE RunnerInv'
  <2>1. CASE Runner!Authentic(Runner!StableBytes(p))
    BY <1>10, <1>12, <2>1 DEF Runner!UsePersisted, Runner!Authentic, Runner!At, Runner!World, Fetching
  <2>2. CASE ~Runner!Authentic(Runner!StableBytes(p))
    BY <1>0, <1>1, <1>12, <2>2, AdvanceRunner
    DEF Runner!UsePersisted, Runner!Distrust, Runner!Go, Runner!World, Ended, Places
  <2> QED
    BY <2>1, <2>2
<1>13. ASSUME NEW p \in Preparers, Runner!Replace(p) PROVE RunnerInv'
  <2>0. prep[p].art \in {"wheel", "python"}
    BY <1>1, PreparationFields
  <2>1. cache' = [cache EXCEPT ![prep[p].art] = [content |-> "good", stamp |-> stamp + 1]]
        /\ stamp' = stamp + 1
    BY <1>13 DEF Runner!Replace
  <2>2. cache' \in Cached
    BY <1>3, <2>0, <2>1
  <2>3. stamp' \in Nat
    BY <1>1, <2>1
  <2> QED
    BY <1>0, <1>1, <1>13, <2>2, <2>3, AdvanceRunner DEF Runner!Replace, Runner!At, Runner!Go, Advances, Places, BeforeFetch, Fetching, Installing, Installed
<1>14. ASSUME NEW p \in Preparers, Runner!RunUv(p) PROVE RunnerInv'
  <2> DEFINE r == [prep[p] EXCEPT !.at = "installed", !.ran = prep[p].uv]
  <2>1. prep' = [prep EXCEPT ![p] = r] /\ prep[p].at = "installing" /\ cache' = cache /\ stamp' = stamp
    BY <1>1, <1>14 DEF Runner!RunUv, Runner!At, Runner!World
  <2>0. prep[p].uv \in Int /\ "installed" \in Places
    BY <1>1, PreparationFields DEF Places, Installed
  <2>2. r \in Preparation /\ r.at = "installed" /\ r.got = prep[p].got /\ r.ran = r.uv
    BY <1>1, <2>0 DEF Preparation
  <2> HIDE DEF r
  <2>3. Gathered(r)
    BY <1>1, <2>1, <2>2 DEF Gathered, BeforeFetch, Fetching, Installing, Installed
  <2> QED
    BY <1>0, <1>1, <2>1, <2>2, <2>3, OnePreparer
<1>15. ASSUME NEW p \in Preparers, Runner!CheckInstall(p) \/ Runner!Bind(p) PROVE RunnerInv'
  <2>0. /\ prep[p].at \in {"installed", "bind"} /\ cache' = cache /\ stamp' = stamp
        /\ \/ prep' = [prep EXCEPT ![p].at = "distrusted"]
           \/ /\ prep[p].uv = 0
              /\ prep' = [prep EXCEPT ![p].at = IF prep[p].at = "bind" THEN "done" ELSE "extract"]
    BY <1>1, <1>15, PreparationFields
    DEF Runner!CheckInstall, Runner!Bind, Runner!SameUv, Runner!Binding, Runner!At, Runner!Go,
        Runner!Distrust, Runner!World
  <2>1. CASE prep' = [prep EXCEPT ![p].at = "distrusted"]
    BY <1>0, <1>1, <2>0, <2>1, AdvanceRunner DEF Ended, Places
  <2>2. CASE prep' # [prep EXCEPT ![p].at = "distrusted"]
    <3> DEFINE t == IF prep[p].at = "bind" THEN "done" ELSE "extract"
               r == [prep[p] EXCEPT !.at = t]
    <3>1. prep' = [prep EXCEPT ![p] = r] /\ t \in {"done", "extract"}
      BY <1>1, <2>0, <2>2
    <3> HIDE DEF t
    <3>2. r \in Preparation /\ r.at = t /\ r.got = prep[p].got /\ r.uv = 0 /\ r.ran = prep[p].ran
      BY <1>1, <2>0, <2>2, <3>1, MovedPreparation DEF Places, Installed
    <3> HIDE DEF r
    <3>3. Gathered(r)
      BY <1>1, <2>0, <2>2, <3>1, <3>2 DEF Gathered, BeforeFetch, Fetching, Installing, Installed
    <3> QED
      BY <1>0, <1>1, <2>0, <3>1, <3>2, <3>3, OnePreparer
  <2> QED
    BY <2>1, <2>2
<1> QED
  BY <1>4, <1>5, <1>6, <1>7, <1>8, <1>9, <1>11, <1>12, <1>13, <1>14, <1>15 DEF Runner!Next

(* RunnerIsAuthentic for every number of preparers, runs and changes. *)
THEOREM RunnersAreAuthentic == PartsSpec => []RunnerIsAuthentic
<1>1. RunnerInv => RunnerIsAuthentic
  BY DEF RunnerInv, RunnerIsAuthentic, Runner!RunnerIsAuthentic, Runner!At, Gathered, Pinned,
         Runner!Artifacts
<1> QED
  BY InitRunner, NextRunner, <1>1, PTL DEF PartsSpec

(***************************************************************************)
(* LockedClosure.                                                          *)
(***************************************************************************)

Elements(s) == {s[i] : i \in 1..Len(s)}

(* The resolution's state, and what holds of it at each stage. *)
ClosureTyped ==
  /\ pins \in Closure!Locks /\ roots \subseteq Names
  /\ pending \in Seq(Names) /\ selected \subseteq Names /\ DOMAIN wheels \subseteq selected
  /\ outcome \in {"packages", "wheels", "resolved", "refused"}

(* What is selected or still to be looked at is needed, and contains the     *)
(* roots and what the selected packages depend on.                           *)
Frontier ==
  LET reached == selected \cup Elements(pending)
  IN  /\ roots \subseteq reached /\ reached \subseteq Closure!Needed
      /\ \A n \in selected, m \in Names : Closure!DependsOn(n, m) => m \in reached

Chosen ==
  /\ \A n \in selected : pins.copies[n] = 1
  /\ Cardinality(selected) <= Limit
  /\ \A n \in DOMAIN wheels : Closure!Best(pins.fits[n]) = {wheels[n]}

Complete ==
  /\ outcome \in {"wheels", "resolved"} => selected = Closure!Needed
  /\ outcome = "resolved" => DOMAIN wheels = selected

Refusable ==
  \/ \E n \in Closure!Needed : pins.copies[n] # 1 \/ Cardinality(Closure!Best(pins.fits[n])) # 1
  \/ Cardinality(Closure!Needed) > Limit

ClosureInv ==
  part = "closure" =>
    /\ ClosureTyped /\ Frontier /\ Chosen /\ Complete
    /\ outcome = "refused" => Refusable

(* The operators of the modules that LockedClosure extends are those of this *)
(* one.                                                                      *)
LEMMA SameOperators ==
  /\ \A s : Closure!Front(s) = Front(s) /\ Closure!Last(s) = Last(s)
  /\ \A S : Closure!Cardinality(S) = Cardinality(S) /\ Closure!SetToSeqs(S) = SetToSeqs(S)
<1>1. \A s : Closure!Front(s) = Front(s) /\ Closure!Last(s) = Last(s)
  BY DEF Closure!Front, Closure!Last, Front, Last
<1>2. \A S : Closure!IsFiniteSet(S) = IsFiniteSet(S)
  BY DEF Closure!IsFiniteSet, IsFiniteSet
<1>3. \A S : Closure!Cardinality(S) = Cardinality(S)
  BY DEF Closure!Cardinality, Cardinality
<1>4. \A S : Closure!SetToSeqs(S) = SetToSeqs(S)
  BY <1>3 DEF Closure!SetToSeqs, SetToSeqs
<1> QED
  BY <1>1, <1>3, <1>4

(* Every order of a finite set has all of its elements, and no other. *)
LEMMA ListedElements ==
  ASSUME NEW S, IsFiniteSet(S), NEW s \in SetToSeqs(S)
  PROVE  s \in Seq(S) /\ Elements(s) = S
<1> DEFINE n == Cardinality(S)
<1>1. n \in Nat /\ IsFiniteSet(1..n) /\ Cardinality(1..n) = n
  BY FS_CardinalityType, FS_Interval
<1>2. s \in [1..n -> S] /\ \A i, j \in 1..n : i # j => s[i] # s[j]
  BY DEF SetToSeqs
<1>3. s \in Injection(1..n, S)
  BY <1>2 DEF Injection, IsInjective
<1>4. s \in Surjection(1..n, S)
  BY <1>1, <1>3, FS_Injection
<1>5. s \in Seq(S) /\ Len(s) = n
  BY <1>1, <1>2
<1> QED
  BY <1>4, <1>5 DEF Elements, Surjection

(* The elements of a sequence, its front, and its front with more after it. *)
LEMMA FrontElements ==
  ASSUME NEW S, NEW s \in Seq(S), s # <<>>
  PROVE  /\ Front(s) \in Seq(S) /\ Last(s) \in S
         /\ Elements(s) = Elements(Front(s)) \cup {Last(s)}
<1>1. Len(s) \in Nat /\ Len(s) # 0 /\ \A i \in 1..Len(s) : s[i] \in S
  OBVIOUS
<1>2. PICK n \in Nat : Len(s) = n + 1
  <2>1. Len(s) - 1 \in Nat /\ Len(s) = (Len(s) - 1) + 1
    BY <1>1
  <2> QED
    BY <2>1
<1>3. Front(s) = SubSeq(s, 1, n)
  BY <1>2 DEF Front
<1>4. /\ SubSeq(s, 1, n) \in Seq(S) /\ Len(SubSeq(s, 1, n)) = n
      /\ \A i \in 1..n : SubSeq(s, 1, n)[i] = s[i]
  BY <1>1, <1>2
<1>5. Elements(s) = {s[i] : i \in 1..n} \cup {s[n + 1]}
  BY <1>1, <1>2 DEF Elements
<1>6. Elements(Front(s)) = {s[i] : i \in 1..n}
  BY <1>3, <1>4 DEF Elements
<1> QED
  BY <1>1, <1>2, <1>3, <1>4, <1>5, <1>6 DEF Last

LEMMA ConcatElements ==
  ASSUME NEW S, NEW s \in Seq(S), NEW t \in Seq(S)
  PROVE  s \o t \in Seq(S) /\ Elements(s \o t) = Elements(s) \cup Elements(t)
<1>1. s \o t \in Seq(S) /\ Len(s \o t) = Len(s) + Len(t) /\ Len(s) \in Nat /\ Len(t) \in Nat
  OBVIOUS
<1>2. ASSUME NEW i \in 1..Len(s \o t) PROVE (s \o t)[i] \in Elements(s) \cup Elements(t)
  <2>1. CASE i <= Len(s)
    BY <1>1, <2>1 DEF Elements
  <2>2. CASE i > Len(s)
    <3>1. i - Len(s) \in 1..Len(t) /\ (s \o t)[i] = t[i - Len(s)]
      BY <1>1, <2>2
    <3> QED
      BY <3>1 DEF Elements
  <2> QED
    BY <1>1, <2>1, <2>2
<1>3. ASSUME NEW i \in 1..Len(s) PROVE s[i] \in Elements(s \o t)
  <2>1. (s \o t)[i] = s[i] /\ i \in 1..Len(s \o t)
    BY <1>1
  <2> QED
    BY <2>1 DEF Elements
<1>4. ASSUME NEW i \in 1..Len(t) PROVE t[i] \in Elements(s \o t)
  <2>1. (s \o t)[i + Len(s)] = t[i] /\ i + Len(s) \in 1..Len(s \o t)
    BY <1>1
  <2> QED
    BY <2>1 DEF Elements
<1> QED
  BY <1>1, <1>2, <1>3, <1>4 DEF Elements

(* What is needed is closed, and is in every closed set with the roots. *)
LEMMA NeededFacts ==
  ASSUME roots \subseteq Names
  PROVE  /\ Closure!Needed \subseteq Names /\ roots \subseteq Closure!Needed
         /\ IsFiniteSet(Closure!Needed)
         /\ \A n \in Closure!Needed, m \in Names : Closure!DependsOn(n, m) => m \in Closure!Needed
         /\ \A S \in SUBSET Names :
              roots \subseteq S /\ (\A n \in S, m \in Names : Closure!DependsOn(n, m) => m \in S)
                => Closure!Needed \subseteq S
<1>1. Closure!Needed \subseteq Names /\ roots \subseteq Closure!Needed
  BY DEF Closure!Needed
<1>2. IsFiniteSet(Closure!Needed)
  BY <1>1, NamesAssumption, FS_Subset
<1> QED
  BY <1>1, <1>2 DEF Closure!Needed

(* Every lock offers finitely many wheels for a name. *)
LEMMA FiniteFits ==
  ASSUME pins \in Closure!Locks, NEW n \in Names
  PROVE  IsFiniteSet(Closure!Best(pins.fits[n]))
<1>1. \A a, b, c, d : /\ IsFiniteSet({}) /\ IsFiniteSet({a}) /\ IsFiniteSet({a, b})
                      /\ IsFiniteSet({a, b, c, d})
  <2> TAKE a, b, c, d
  <2>1. IsFiniteSet({}) /\ IsFiniteSet({a})
    BY FS_EmptySet, FS_Singleton
  <2>2. IsFiniteSet({a} \cup {b})
    BY <2>1, FS_AddElement
  <2>3. IsFiniteSet(({a} \cup {b}) \cup {c})
    BY <2>2, FS_AddElement
  <2>4. IsFiniteSet((({a} \cup {b}) \cup {c}) \cup {d})
    BY <2>3, FS_AddElement
  <2>5. {a, b} = {a} \cup {b} /\ {a, b, c, d} = (({a} \cup {b}) \cup {c}) \cup {d}
    OBVIOUS
  <2> QED
    BY <2>1, <2>2, <2>4, <2>5
<1>2. pins.fits[n] \in Closure!WheelSets \cup {Closure!OneWheel}
  BY DEF Closure!Locks, Closure!Oddities
<1>3. IsFiniteSet(pins.fits[n])
  <2>1. \A set \in Closure!WheelSets \cup {Closure!OneWheel} : IsFiniteSet(set)
    <3> TAKE set \in Closure!WheelSets \cup {Closure!OneWheel}
    <3>1. \E a, b, c, d : set \in {{}, {a}, {a, b}, {a, b, c, d}}
      BY Zenon DEF Closure!WheelSets, Closure!OneWheel
    <3>2. PICK a, b, c, d : set \in {{}, {a}, {a, b}, {a, b, c, d}}
      BY <3>1
    <3>3. set = {} \/ set = {a} \/ set = {a, b} \/ set = {a, b, c, d}
      BY <3>2
    <3>4. /\ IsFiniteSet({}) /\ IsFiniteSet({a}) /\ IsFiniteSet({a, b})
          /\ IsFiniteSet({a, b, c, d})
      BY <1>1, Zenon
    <3> QED
      BY <3>3, <3>4
  <2> QED
    BY <1>2, <2>1
<1>4. Closure!Best(pins.fits[n]) \subseteq pins.fits[n]
  BY DEF Closure!Best
<1> QED
  BY <1>3, <1>4, FS_Subset

(* A set of numbers that is not empty has a least one. *)
LEMMA HasLeast ==
  ASSUME NEW T \in SUBSET Nat, T # {}
  PROVE  \E t \in T : \A u \in T : t <= u
<1> DEFINE R == OpToRel(<, Nat)
<1>1. IsWellFoundedOn(R, Nat)
  BY NatLessThanWellFounded
<1>2. \A x, y \in Nat : y < x => <<y, x>> \in R
  BY DEF OpToRel
<1> HIDE DEF R
<1>3. PICK t \in T : \A y \in T : ~ (<<y, t>> \in R)
  BY <1>1, WFMin
<1>4. ASSUME NEW u \in T PROVE t <= u
  <2>1. u \in Nat /\ t \in Nat /\ ~(u < t)
    BY <1>2, <1>3
  <2> QED
    BY <2>1
<1> QED
  BY <1>4

LEMMA InitClosure == PartsInit => ClosureInv
<1> SUFFICES ASSUME part = "closure", PartsInit PROVE ClosureInv
  BY DEF ClosureInv
<1>1. Closure!Init
  BY DEF PartsInit
<1>2. roots \subseteq Names /\ IsFiniteSet(roots)
  BY <1>1, NamesAssumption, FS_Subset DEF Closure!Init
<1>3. pending \in Seq(Names) /\ Elements(pending) = roots
  BY <1>1, <1>2, ListedElements, SameOperators DEF Closure!Init
<1>4. selected = {} /\ DOMAIN wheels = {} /\ outcome = "packages"
  BY <1>1 DEF Closure!Init
<1>5. ClosureTyped
  BY <1>1, <1>2, <1>3, <1>4 DEF ClosureTyped, Closure!Init
<1>6. Frontier
  BY <1>2, <1>3, <1>4, NeededFacts DEF Frontier
<1>7. Cardinality(selected) <= Limit
  BY <1>4, FS_EmptySet, NamesAssumption
<1> QED
  BY <1>4, <1>5, <1>6, <1>7 DEF ClosureInv, Chosen, Complete

LEMMA PopClosure ==
  ASSUME ClosureTyped, Frontier, Chosen, Complete, Closure!Pop
  PROVE  /\ ClosureTyped' /\ Frontier' /\ Chosen' /\ Complete'
         /\ outcome' = "refused" => Refusable'
<1> DEFINE name == Last(pending)
<1>0. /\ outcome = "packages" /\ pending # <<>> /\ pins' = pins /\ roots' = roots /\ wheels' = wheels
      /\ pending \in Seq(Names) /\ selected \subseteq Names
  BY DEF Closure!Pop, Closure!Refuse, Closure!Select, Closure!Skip, ClosureTyped
<1>1. /\ Closure!Needed' = Closure!Needed
      /\ \A n, m : Closure!DependsOn(n, m)' = Closure!DependsOn(n, m)
  BY <1>0 DEF Closure!Needed, Closure!DependsOn
<1>2. /\ Front(pending) \in Seq(Names) /\ name \in Names
      /\ Elements(pending) = Elements(Front(pending)) \cup {name}
  BY <1>0, FrontElements
<1>3. name \in Closure!Needed
  BY <1>2 DEF Frontier
<1>4. IsFiniteSet(selected) /\ IsFiniteSet(Closure!Needed) /\ selected \subseteq Closure!Needed
      /\ Cardinality(selected) \in Nat /\ Limit \in Nat
  BY NeededFacts, FS_Subset, NamesAssumption, FS_CardinalityType DEF Frontier, ClosureTyped
<1> HIDE DEF name
<1>5. CASE name \in selected
  <2>1. pending' = Front(pending) /\ selected' = selected /\ outcome' = outcome
    BY <1>0, <1>5, SameOperators DEF Closure!Pop, Closure!Skip, name
  <2>2. selected' \cup Elements(pending') = selected \cup Elements(pending)
    BY <1>2, <1>5, <2>1
  <2> QED
    BY <1>0, <1>1, <1>2, <2>1, <2>2 DEF ClosureTyped, Frontier, Chosen, Complete
<1>6. CASE name \notin selected /\ (pins.copies[name] # 1 \/ Cardinality(selected) >= Limit)
  <2>1. outcome' = "refused" /\ UNCHANGED <<pending, selected, wheels>>
    BY <1>0, <1>6, SameOperators DEF Closure!Pop, Closure!Refuse, name
  <2>2. Cardinality(selected) >= Limit => Cardinality(Closure!Needed) > Limit
    <3>1. Cardinality(selected \cup {name}) = Cardinality(selected) + 1
      BY <1>4, <1>6, FS_AddElement
    <3>2. selected \cup {name} \subseteq Closure!Needed
      BY <1>3, <1>4
    <3>3. Cardinality(selected \cup {name}) <= Cardinality(Closure!Needed)
          /\ Cardinality(Closure!Needed) \in Nat
      BY <1>4, <3>2, FS_Subset, FS_CardinalityType
    <3> QED
      BY <1>4, <3>1, <3>3
  <2>3. Refusable
    BY <1>3, <1>6, <2>2 DEF Refusable
  <2>4. Refusable'
    BY <1>0, <1>1, <2>3 DEF Refusable, Closure!Best
  <2> QED
    BY <1>0, <1>1, <2>1, <2>4 DEF ClosureTyped, Frontier, Chosen, Complete
<1>7. CASE name \notin selected /\ ~(pins.copies[name] # 1 \/ Cardinality(selected) >= Limit)
  <2> DEFINE needs == {m \in Names : Closure!DependsOn(name, m)}
  <2>1. PICK listed \in Closure!Dependencies(name) :
          /\ selected' = selected \cup {name} /\ pending' = Front(pending) \o listed
          /\ UNCHANGED <<wheels, outcome>>
    BY <1>0, <1>7, SameOperators DEF Closure!Pop, Closure!Select, name
  <2>2. listed \in Seq(needs) /\ Elements(listed) = needs
    <3>1. IsFiniteSet(needs)
      BY NamesAssumption, FS_Subset
    <3> QED
      BY <2>1, <3>1, ListedElements, SameOperators DEF Closure!Dependencies
  <2>3. listed \in Seq(Names) /\ needs \subseteq Closure!Needed
    BY <1>3, <2>2, NeededFacts DEF ClosureTyped
  <2>4. pending' \in Seq(Names) /\ Elements(pending') = Elements(Front(pending)) \cup needs
    BY <1>2, <2>1, <2>2, <2>3, ConcatElements
  <2>5. selected' \cup Elements(pending') = selected \cup Elements(pending) \cup needs
    BY <1>2, <2>1, <2>4
  <2>6. Frontier'
    BY <1>0, <1>1, <2>1, <2>3, <2>5 DEF Frontier
  <2>7. Cardinality(selected') <= Limit
    <3>1. Cardinality(selected \cup {name}) = Cardinality(selected) + 1
      BY <1>4, <1>7, FS_AddElement
    <3> QED
      BY <1>4, <1>7, <2>1, <3>1
  <2> QED
    BY <1>0, <1>1, <1>2, <1>7, <2>1, <2>4, <2>6, <2>7 DEF ClosureTyped, Chosen, Complete, Closure!Best
<1> QED
  BY <1>5, <1>6, <1>7

LEMMA WheelsClosure ==
  ASSUME ClosureTyped, Frontier, Chosen, Complete,
         Closure!AllSelected \/ Closure!ChooseWheel \/ Closure!Resolve
  PROVE  /\ ClosureTyped' /\ Frontier' /\ Chosen' /\ Complete'
         /\ outcome' = "refused" => Refusable'
<1>0. pins' = pins /\ roots' = roots /\ pending' = pending /\ selected' = selected
  BY DEF Closure!AllSelected, Closure!ChooseWheel, Closure!Resolve, Closure!Refuse
<1>1. /\ Closure!Needed' = Closure!Needed
      /\ \A n, m : Closure!DependsOn(n, m)' = Closure!DependsOn(n, m)
      /\ Frontier'
  <2>1. /\ Closure!Needed' = Closure!Needed
        /\ \A n, m : Closure!DependsOn(n, m)' = Closure!DependsOn(n, m)
    BY <1>0 DEF Closure!Needed, Closure!DependsOn
  <2> QED
    BY <1>0, <2>1 DEF Frontier
<1>2. CASE Closure!AllSelected
  <2>1. Elements(pending) = {}
    BY <1>2 DEF Elements, Closure!AllSelected
  <2>2. selected = Closure!Needed
    BY <2>1, NeededFacts DEF Frontier, ClosureTyped
  <2> QED
    BY <1>0, <1>1, <1>2, <2>2 DEF Closure!AllSelected, ClosureTyped, Chosen, Complete, Closure!Best
<1>3. CASE Closure!Resolve
  BY <1>0, <1>1, <1>3 DEF Closure!Resolve, ClosureTyped, Chosen, Complete, Closure!Best
<1>4. CASE Closure!ChooseWheel
  <2> DEFINE rest == selected \ DOMAIN wheels
             name == CHOOSE n \in rest : \A m \in rest : n <= m
             best == Closure!Best(pins.fits[name])
  <2>1. name \in rest
    <3>1. rest \subseteq Nat /\ rest # {}
      BY <1>4, NamesAssumption DEF ClosureTyped, Closure!ChooseWheel
    <3> HIDE DEF rest
    <3>2. \E n \in rest : \A m \in rest : n <= m
      BY <3>1, HasLeast
    <3> QED
      BY <3>2
  <2>2. IsFiniteSet(best) /\ name \in Closure!Needed /\ selected = Closure!Needed
    BY <1>4, <2>1, FiniteFits DEF ClosureTyped, Complete, Closure!ChooseWheel
  <2>3. CASE Cardinality(best) # 1
    <3>1. outcome' = "refused" /\ wheels' = wheels
      BY <1>4, <2>3, SameOperators DEF Closure!ChooseWheel, Closure!Refuse
    <3>2. Refusable
      BY <2>2, <2>3 DEF Refusable
    <3>3. Refusable'
      BY <1>0, <1>1, <3>2 DEF Refusable, Closure!Best
    <3> QED
      BY <1>0, <1>1, <3>1, <3>3 DEF ClosureTyped, Chosen, Complete, Closure!Best
  <2>4. CASE Cardinality(best) = 1
    <3>1. /\ outcome' = "wheels"
          /\ wheels' = [n \in DOMAIN wheels \cup {name} |->
                          IF n = name THEN CHOOSE w \in best : TRUE ELSE wheels[n]]
      BY <1>4, <2>4, SameOperators DEF Closure!ChooseWheel
    <3>2. PICK w : best = {w}
      BY <2>2, <2>4, FS_Singleton
    <3>3. best = {CHOOSE v \in best : TRUE}
      BY <3>2
    <3> HIDE DEF name
    <3>4. \A n \in DOMAIN wheels' : Closure!Best(pins.fits[n]) = {wheels'[n]}
      BY <3>1, <3>3 DEF Chosen
    <3>5. DOMAIN wheels' \subseteq selected
      BY <2>1, <3>1 DEF ClosureTyped
    <3> QED
      BY <1>0, <1>1, <2>2, <3>1, <3>4, <3>5 DEF ClosureTyped, Chosen, Complete, Closure!Best
  <2> QED
    BY <2>3, <2>4
<1> QED
  BY <1>2, <1>3, <1>4

LEMMA NextClosure == ClosureInv /\ [PartsNext]_partsVars => ClosureInv'
<1> SUFFICES ASSUME ClosureInv, [PartsNext]_partsVars, part' = "closure" PROVE ClosureInv'
  BY DEF ClosureInv
<1>0. part = "closure" /\ part' = part
  BY DEF PartsNext, partsVars, DossierStep, AuditStep, TreeStep, ControlStep, GateStep,
         RunnerStep, ClosureStep
<1>1. CASE UNCHANGED partsVars
  <2>1. UNCHANGED <<pins, roots, pending, selected, wheels, outcome>>
    BY <1>1 DEF partsVars, closureVars
  <2>2. /\ Closure!Needed' = Closure!Needed
        /\ \A n, m : Closure!DependsOn(n, m)' = Closure!DependsOn(n, m)
        /\ \A set : Closure!Best(set)' = Closure!Best(set)
    BY <2>1 DEF Closure!Needed, Closure!DependsOn, Closure!Best
  <2>3. ClosureTyped' /\ Frontier'
    BY <1>0, <2>1, <2>2 DEF ClosureInv, ClosureTyped, Frontier
  <2>4. Chosen' /\ Complete'
    BY <1>0, <2>1, <2>2 DEF ClosureInv, Chosen, Complete, Closure!Best
  <2>5. outcome' = "refused" => Refusable'
    BY <1>0, <2>1, <2>2 DEF ClosureInv, Refusable, Closure!Best
  <2> QED
    BY <1>0, <2>3, <2>4, <2>5 DEF ClosureInv
<1>2. CASE Closure!Next
  BY <1>0, <1>2, PopClosure, WheelsClosure DEF Closure!Next, ClosureInv
<1> QED
  BY <1>0, <1>1, <1>2
  DEF PartsNext, DossierStep, AuditStep, TreeStep, ControlStep, GateStep, RunnerStep, ClosureStep

(* ClosureIsExact for every finite set of names and every limit. *)
THEOREM ClosuresAreExact == PartsSpec => []ClosureIsExact
<1>1. ClosureInv => ClosureIsExact
  BY SameOperators
  DEF ClosureInv, ClosureTyped, Chosen, Complete, Refusable, ClosureIsExact,
         Closure!ClosureIsExact
<1> QED
  BY InitClosure, NextClosure, <1>1, PTL DEF PartsSpec
==============================================================================
