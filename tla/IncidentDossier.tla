-------------------------- MODULE IncidentDossier --------------------------
(***************************************************************************)
(* One physical incident, from the rights approval of its source to the    *)
(* audit of its dossier (src/fieldtrue/acquisition.py).  People in named   *)
(* roles perform acts and sign them; afterwards somebody compiles a        *)
(* dossier and _verify_dossier decides from the signed statements alone    *)
(* whether the incident counts.                                            *)
(*                                                                         *)
(* The people are outside the code.  They sign honestly: a statement       *)
(* carries the time of its act and the content that existed then.  What    *)
(* they may do is act in the wrong order, repeat an act and so replace     *)
(* what others relied on, or share an independence group.  Each of these   *)
(* is a slip, and there are at most MaxSlips.  Whoever compiles the        *)
(* dossier is not trusted: it chooses which statements go in and fills in  *)
(* the times nobody signs.                                                 *)
(*                                                                         *)
(* The clock counts acts, so the time of an act also identifies what the   *)
(* act produced: equal times stand for equal content hashes.               *)
(***************************************************************************)
EXTENDS Integers, Sequences, FiniteSets, SequencesExt

CONSTANTS
    MaxSlips,      \* bound on deviations from the intended course
    ApprovalLife   \* clock ticks for which an approval stays valid

ASSUME DossierAssumption == MaxSlips \in Nat /\ ApprovalLife \in Nat \ {0}

(* The roles of a dossier. *)
Roles == {"source_steward", "rights_reviewer", "evidence_curator",
          "truth_producer", "mechanism_reviewer", "hypothesis_proposer",
          "test_proposer", "safety_reviewer", "test_selector",
          "test_executor", "recovery_proposer", "recovery_executor",
          "outcome_verifier", "statistician"}

(* The intended course of an incident. *)
Course == <<"rights", "acquire", "truth", "reviewTruth", "seal", "project",
            "hypothesize", "reviewHypotheses", "design", "approveTest",
            "reviewTest", "execute", "plan", "approvePlan", "reviewPlan",
            "recover", "settle", "unseal", "verify", "reviewOutcome">>

Acts == ToSet(Course)

(* The content an act is about, and the approval it cites. *)
Subject ==
    [reviewTruth |-> "truth", seal |-> "truth",
     project |-> "truth", reviewHypotheses |-> "hypothesize",
     approveTest |-> "design", reviewTest |-> "design", execute |-> "design",
     approvePlan |-> "plan", reviewPlan |-> "plan", recover |-> "plan",
     settle |-> "recover", unseal |-> "seal", verify |-> "recover",
     reviewOutcome |-> "verify"]

Authority ==
    [reviewTest |-> "approveTest", execute |-> "approveTest",
     reviewPlan |-> "approvePlan", recover |-> "approvePlan",
     verify |-> "execute"]

VARIABLES
    group,    \* the independence group of each role
    agenda,   \* the acts still to be performed, in order
    now,      \* number of acts performed
    log,      \* the statements each act has left
    slips,    \* deviations so far
    dossier   \* what the audit made of the incident

vars == <<group, agenda, now, log, slips, dossier>>

Latest(a) ==
    LET times == {e.at : e \in log[a]}
    IN  CHOOSE t \in times : \A u \in times : u <= t

Done(a) == log[a] # {}

(***************************************************************************)
(* The campaign.                                                           *)
(***************************************************************************)

(* An actor knows the mechanism once it exists, if its group made or       *)
(* reviewed it, and everybody knows it once it is unsealed.                *)
Knows(role) ==
    \/ Done("unseal")
    \/ Done("truth") /\ group[role] \in {group["truth_producer"],
                                         group["mechanism_reviewer"]}

Author ==
    [project |-> "evidence_curator", hypothesize |-> "hypothesis_proposer",
     design |-> "test_proposer"]

(* What is signed.  The custodian's receipt also reports whether anybody   *)
(* had opened the mechanism before.                                        *)
Statement(a) ==
    [at     |-> now + 1,
     on     |-> IF a \in DOMAIN Subject THEN Latest(Subject[a]) ELSE 0,
     under  |-> IF a \in DOMAIN Authority THEN Latest(Authority[a]) ELSE 0,
     blind  |-> a \in DOMAIN Author => ~Knows(Author[a]),
     opened |-> a = "unseal" /\ Done("unseal")]

(* A statement needs its subject and the approval it cites. *)
Possible(a) ==
    /\ a \in DOMAIN Subject => Done(Subject[a])
    /\ a \in DOMAIN Authority => Done(Authority[a])

(* Rights reviewer and steward are checked by SourceManifest, every other  *)
(* pair only by the audit; one pair at most shares a group.                *)
Init ==
    /\ \/ group = [r \in Roles |-> r] /\ slips = 0
       \/ MaxSlips > 0 /\ slips = 1
            /\ \E a, b \in Roles :
                  a # b /\ group = [[r \in Roles |-> r] EXCEPT ![b] = a]
    /\ agenda = Course
    /\ now = 0
    /\ log = [a \in Acts |-> {}]
    /\ dossier = [verdict |-> "open"]

Perform ==
    /\ agenda # <<>> /\ Possible(agenda[1])
    /\ log' = [log EXCEPT ![agenda[1]] = @ \cup {Statement(agenda[1])}]
    /\ now' = now + 1
    /\ agenda' = Tail(agenda)
    /\ UNCHANGED <<group, slips, dossier>>

(* The next act waits until the one in place i has been performed. *)
Postpone(i) ==
    /\ slips < MaxSlips
    /\ agenda' = SubSeq(agenda, 2, i) \o <<agenda[1]>>
                    \o SubSeq(agenda, i + 1, Len(agenda))
    /\ slips' = slips + 1
    /\ UNCHANGED <<group, now, log, dossier>>

(* An act is performed again, on whatever its subject has become. *)
Repeat(a) ==
    /\ slips < MaxSlips /\ Done(a)
    /\ agenda' = <<a>> \o agenda
    /\ slips' = slips + 1
    /\ UNCHANGED <<group, now, log, dossier>>

(***************************************************************************)
(* The audit.  d is the compiled dossier: one statement for every act,     *)
(* and t the unsigned times cutoff, hypothesized and planned.              *)
(***************************************************************************)

Independent(a, b) == group[a] # group[b]

(* The source manifest's own validation, and its place in time.  The       *)
(* steward's provenance names the source, not the manifest.                *)
SourceBound(d) ==
    /\ Independent("source_steward", "rights_reviewer")
    /\ d.rights.at <= d.acquire.at

CustodyHolds(d) ==
    /\ d.seal.on = d.truth.at
    /\ d.unseal.on = d.seal.at
    /\ d.seal.at < d.unseal.at
    /\ ~d.unseal.opened

(* The evidence bundle names the truth it is sealed against. *)
ProjectionHolds(d, t) ==
    /\ d.project.on = d.truth.at
    /\ d.acquire.at <= d.project.at
    /\ d.project.at <= t.cutoff

(* verify_approval at the moment of the action it covers. *)
ApprovalCovers(approval, subject, action) ==
    /\ approval.on = subject.at
    /\ approval.at <= action.at
    /\ action.at < approval.at + ApprovalLife

TestHolds(d) ==
    /\ ApprovalCovers(d.approveTest, d.design, d.execute)
    /\ d.execute.on = d.design.at
    /\ d.execute.under = d.approveTest.at

(* A review is about exactly this content, by somebody from another group  *)
(* than its producer.                                                      *)
Reviewed(review, subject, producer, reviewer) ==
    /\ review.on = subject.at
    /\ Independent(producer, reviewer)

(* Mutant for RanAsApproved: the review need not cover the approval. *)
ReviewsContentOnly(d) ==
    /\ Reviewed(d.reviewTruth, d.truth, "truth_producer", "mechanism_reviewer")
    /\ Reviewed(d.reviewHypotheses, d.hypothesize,
                "hypothesis_proposer", "mechanism_reviewer")
    /\ Reviewed(d.reviewTest, d.design, "test_proposer", "safety_reviewer")
    /\ Reviewed(d.reviewPlan, d.plan, "recovery_proposer", "safety_reviewer")
    /\ d.reviewPlan.under = d.approvePlan.at
    /\ Reviewed(d.reviewOutcome, d.verify, "recovery_executor",
                "outcome_verifier")

ReviewsHold(d) ==
    /\ Reviewed(d.reviewTruth, d.truth, "truth_producer", "mechanism_reviewer")
    /\ Reviewed(d.reviewHypotheses, d.hypothesize,
                "hypothesis_proposer", "mechanism_reviewer")
    /\ Reviewed(d.reviewTest, d.design, "test_proposer", "safety_reviewer")
    /\ d.reviewTest.under = d.approveTest.at
    /\ Reviewed(d.reviewPlan, d.plan, "recovery_proposer", "safety_reviewer")
    /\ d.reviewPlan.under = d.approvePlan.at
    /\ Reviewed(d.reviewOutcome, d.verify, "recovery_executor",
                "outcome_verifier")

ForbiddenPairs ==
    ({"evidence_curator"} \X {"truth_producer", "mechanism_reviewer",
                              "outcome_verifier"})
      \cup {<<"truth_producer", "mechanism_reviewer">>}
      \cup ({"hypothesis_proposer", "statistician"}
               \X {"truth_producer", "mechanism_reviewer"})
      \cup ({"test_proposer", "test_selector"}
               \X {"truth_producer", "mechanism_reviewer", "safety_reviewer"})
      \cup {<<"test_executor", "safety_reviewer">>}
      \cup ({"hypothesis_proposer", "test_selector", "test_executor",
             "recovery_proposer", "recovery_executor"}
               \X {"outcome_verifier"})

RolesIndependent == \A p \in ForbiddenPairs : Independent(p[1], p[2])

RecoveryHolds(d) ==
    /\ ApprovalCovers(d.approvePlan, d.plan, d.recover)
    /\ d.recover.on = d.plan.at
    /\ d.recover.under = d.approvePlan.at
    /\ d.verify.on = d.recover.at
    /\ d.verify.under = d.execute.at

TimelineOrdered(d, t) ==
    LET order == <<d.acquire.at, d.seal.at, t.cutoff, t.hypothesized,
                   d.reviewTest.at, d.execute.at, t.planned, d.recover.at,
                   d.settle.at, d.verify.at>>
    IN  /\ \A i \in 1..(Len(order) - 1) : order[i] <= order[i + 1]
        /\ d.settle.at <= d.unseal.at

(* Mutant for CountedIsBlind: nothing holds the hypotheses' review before  *)
(* the test's.                                                             *)
TimesMatchAnyReview(d, t) ==
    /\ d.reviewTruth.at <= d.seal.at
    /\ t.hypothesized <= d.reviewHypotheses.at
    /\ d.reviewTest.at < d.execute.at
    /\ d.reviewPlan.at < d.recover.at
    /\ t.planned <= d.reviewPlan.at
    /\ d.settle.at <= d.reviewOutcome.at

TimesMatch(d, t) ==
    /\ d.reviewTruth.at <= d.seal.at
    /\ t.hypothesized <= d.reviewHypotheses.at
    /\ d.reviewHypotheses.at <= d.reviewTest.at
    /\ d.reviewTest.at < d.execute.at
    /\ d.reviewPlan.at < d.recover.at
    /\ t.planned <= d.reviewPlan.at
    /\ d.settle.at <= d.reviewOutcome.at

Eligible(d) ==
    /\ SourceBound(d) /\ CustodyHolds(d) /\ TestHolds(d)
    /\ ReviewsHold(d) /\ RolesIndependent /\ RecoveryHolds(d)

Dated(d, t) ==
    ProjectionHolds(d, t) /\ TimelineOrdered(d, t) /\ TimesMatch(d, t)

(* Whoever compiles the dossier picks one statement of every act, and the  *)
(* times that are in no signed statement.                                  *)
Compilations ==
    LET Repeated == {a \in Acts : Cardinality(log[a]) > 1}
        Picks == {f \in [Repeated -> UNION {log[a] : a \in Repeated}] :
                     \A a \in Repeated : f[a] \in log[a]}
    IN  {[a \in Acts |-> IF a \in Repeated THEN f[a]
                         ELSE CHOOSE e \in log[a] : TRUE] : f \in Picks}

(* The true moments, or false ones as late as the next signed statement.   *)
Times(d) ==
    [cutoff       : {d.project.at, d.reviewHypotheses.at},
     hypothesized : {d.hypothesize.at, d.reviewHypotheses.at, d.reviewTest.at},
     planned      : {d.plan.at, d.reviewPlan.at, d.recover.at}]

Passes(d) == Eligible(d) /\ \E t \in Times(d) : Dated(d, t)

Compilable == agenda = <<>> /\ dossier.verdict = "open"

Admit ==
    /\ Compilable
    /\ \E d \in {c \in Compilations : Passes(c)} :
          dossier' = [verdict |-> "eligible", has |-> d]
    /\ UNCHANGED <<group, agenda, now, log, slips>>

Refuse ==
    /\ Compilable
    /\ \E d \in Compilations : ~Passes(d)
    /\ dossier' = [verdict |-> "refused"]
    /\ UNCHANGED <<group, agenda, now, log, slips>>

Next ==
    \/ dossier.verdict = "open"
         /\ \/ Perform
            \/ \E i \in 2..Len(agenda) : Postpone(i)
            \/ \E a \in Acts : Repeat(a)
    \/ Admit
    \/ Refuse

Spec == Init /\ [][Next]_vars

(***************************************************************************)
(* Properties.                                                             *)
(***************************************************************************)

(* Agenda, clock, statements and slips stay in their bounds; a statement   *)
(* is never about, or under, something that came after it.                 *)
TypeOK ==
    /\ group \in [Roles -> Roles]
    /\ ToSet(agenda) \subseteq Acts
    /\ now \in 0..(Len(Course) + MaxSlips) /\ slips \in 0..MaxSlips
    /\ \A a \in Acts : \A e \in log[a] :
          e.at \in 1..now /\ e.on < e.at /\ e.under < e.at /\ {e.blind, e.opened} \subseteq BOOLEAN
    /\ dossier.verdict \in {"open", "eligible", "refused"}

(* Outcome-blindness (acquisition.py, chronology_is_outcome_blind and the  *)
(* forbidden role pairs): in a dossier that counts, the hypotheses, the    *)
(* test and the visible evidence were made by people who did not know the  *)
(* mechanism when they made them, the hypotheses were fixed before the     *)
(* test gave its answer, and the mechanism itself was recorded before any  *)
(* outcome and stayed sealed until recovery had settled.                   *)
CountedIsBlind ==
    dossier.verdict = "eligible" =>
        LET d == dossier.has
        IN  /\ d.hypothesize.blind /\ d.design.blind /\ d.project.blind
            /\ d.hypothesize.at < d.execute.at
            /\ d.truth.at < d.execute.at
            /\ d.settle.at < d.unseal.at
            /\ d.settle.at < d.verify.at

(* Nothing ran that was not reviewed and approved as it was: the test and  *)
(* the recovery that ran are, to the byte, the ones the safety reviewer    *)
(* had approved and then reviewed, each under an approval that had not     *)
(* expired, and the recovery was reviewed when the test's answer was       *)
(* known (acquisition.py, _verify_dossier).                                *)
RanAsApproved ==
    dossier.verdict = "eligible" =>
        LET d == dossier.has
            Ran(action, review, approval, what) ==
                /\ what.at < approval.at /\ approval.at < review.at
                /\ review.at < action.at
                /\ action.at < approval.at + ApprovalLife
                /\ review.on = what.at /\ action.on = what.at
        IN  /\ Ran(d.execute, d.reviewTest, d.approveTest, d.design)
            /\ Ran(d.recover, d.reviewPlan, d.approvePlan, d.plan)
            /\ d.execute.at < d.reviewPlan.at
            /\ group["test_proposer"] # group["safety_reviewer"]
            /\ group["recovery_proposer"] # group["safety_reviewer"]
            /\ group["recovery_executor"] # group["outcome_verifier"]
=============================================================================
