-------------------------- MODULE AcquisitionAudit --------------------------
(***************************************************************************)
(* The admission audit of Iteration 001 (acquisition.py,                   *)
(* audit_acquisition): a whole input tree is judged once, gate after gate, *)
(* and the verdict is derived from the gates.  A failed check is noted and *)
(* the audit goes on with the dossiers it still holds eligible.            *)
(*                                                                         *)
(* The input is a good corpus spoiled by at most two slips.  What one      *)
(* dossier's own verification takes is module IncidentDossier's subject;   *)
(* here a dossier is sound or it is not.                                   *)
(***************************************************************************)
EXTENDS Integers, FiniteSets

CONSTANTS
    Floor        \* the counts of AcquisitionContract, scaled down

Dossiers == 1..4

(* What one physical event should share with no other.  The first is the   *)
(* name a dossier is registered under.                                     *)
OwnIdentity == {"incident", "root", "group", "session", "lineage", "capture", "sample"}

(* Two families of two machines, two faults seen in each family, and a     *)
(* family of each of the domains that are required.                        *)
Design ==
    [family |-> <<"f1", "f1", "f2", "f2">>, machine |-> <<1, 2, 3, 4>>,
     fault |-> <<"x", "y", "x", "y">>,
     domain |-> <<"robotics", "robotics", "aerospace", "aerospace">>]

RequiredDomains == {"robotics", "aerospace"}

Aspects == OwnIdentity \cup DOMAIN Design

(* Slips of one dossier, of a pair (the second takes an aspect of the      *)
(* first), and of the inputs the dossiers share.                           *)
OwnSlips == {"unsound", "unregistered", "missing", "sourceless"}
SharedSlips == {"unreadable", "trust", "sourceRoles", "rights", "unstaged",
                "locks", "shortcut", "resolves", "comparators", "reviews",
                "late", "usage", "ceiling"}
Slips == (OwnSlips \X Dossiers)
         \cup {s \in Aspects \X Dossiers \X Dossiers : s[2] < s[3]}
         \cup {<<s>> : s \in SharedSlips}

VARIABLES
    slips,       \* what is wrong with the input
    stage,       \* the check that comes next
    eligible,    \* the dossiers that verified
    failures,    \* integrity failures noted
    gates,       \* the gates that are not "pass"
    axes,        \* whether the split locks of all three axes were accepted
    kill,        \* whether an accepted shortcut resolves the mechanism
    verdict      \* the verdict, or how else the audit ended

vars == <<slips, stage, eligible, failures, gates, axes, kill, verdict>>

Slip(s) == <<s>> \in slips
Spoiled(s) == {d \in Dossiers : <<s, d>> \in slips}
Submitted == Dossiers \ Spoiled("missing")

(* The value of aspect a of dossier d. *)
Value(a, d) ==
    LET own == IF a \in DOMAIN Design THEN Design[a][d] ELSE d
        lent == {c \in Dossiers : <<a, c, d>> \in slips}
    IN  IF lent = {} THEN own
        ELSE LET c == CHOOSE c \in lent : TRUE
             IN  IF a \in DOMAIN Design THEN Design[a][c] ELSE c

Values(a, S) == {Value(a, d) : d \in S}
Unique(a, S) == Cardinality(Values(a, S)) = Cardinality(S)
Having(a, v, S) == {d \in S : Value(a, d) = v}

Registered(d) == <<"unregistered", d>> \notin slips

Noted(set) == failures' = failures \cup set
When(condition, name) == IF condition THEN {name} ELSE {}
Go(next) == stage' = next

(***************************************************************************)
(* The audit.                                                              *)
(***************************************************************************)

Refuse ==
    /\ Go("done") /\ verdict' = "refused"
    /\ UNCHANGED <<eligible, failures, gates, axes, kill>>

(* The manifests are read, and the registry of actors, the control suite   *)
(* and the candidate registry are verified: here a failure ends the audit. *)
Load ==
    /\ stage = "load"
    /\ IF Slip("unreadable") \/ Slip("trust") THEN Refuse
       ELSE /\ Go("sources")
            /\ Noted(When(\E d \in Submitted :
                             \/ d \in Spoiled("sourceless")
                             \/ ~Registered(Value("incident", d))
                             \/ Value("root", d) # Value("incident", d),
                          "registry"))
            /\ UNCHANGED <<eligible, gates, axes, kill, verdict>>
    /\ UNCHANGED slips

(* Rights come before the staging times they would excuse. *)
Sources ==
    /\ stage = "sources"
    /\ gates' = gates \cup When(~Slip("sourceRoles") /\ Slip("rights"), "source-rights")
    /\ Noted(When(Slip("sourceRoles") \/ (~Slip("rights") /\ Slip("unstaged")), "source"))
    /\ Go("dossiers")
    /\ UNCHANGED <<slips, eligible, axes, kill, verdict>>

(* A dossier must itself say that its incident is its own root event. *)
Verified == {d \in Submitted \ (Spoiled("unsound") \cup Spoiled("sourceless")) :
                 Value("incident", d) = Value("root", d)}

VerifyDossiers ==
    /\ stage = "dossiers"
    /\ eligible' = Verified
    /\ Noted(When(Submitted # eligible', "dossier"))
    /\ Go("identity")
    /\ UNCHANGED <<slips, gates, axes, kill, verdict>>

(* Mutant for PassIsEarned: root groups are all that is compared. *)
IndependentRoots(S) == Unique("root", S)

(* No two events share what is theirs.  A session has one group, a machine *)
(* one family of one domain.                                               *)
Independent(S) ==
    /\ \A a \in {"root", "group", "lineage", "capture", "sample"} : Unique(a, S)
    /\ \A v \in Values("session", S) :
          Cardinality(Values("group", Having("session", v, S))) = 1
    /\ \A v \in Values("machine", S), b \in {"family", "domain"} :
          Cardinality(Values(b, Having("machine", v, S))) = 1

CompareIdentities ==
    /\ stage = "identity"
    /\ Noted(When(~Independent(eligible), "identity"))
    /\ Go("shared")
    /\ UNCHANGED <<slips, eligible, gates, axes, kill, verdict>>

(* The incidents the shortcut report and the comparators were made for:    *)
(* the whole corpus, as it was submitted.                                  *)
Covered == eligible = Submitted

(* Split locks, shortcut baseline, comparators, protocol reviews and       *)
(* resource usage are each signed.  A lock covers the eligible corpus.     *)
SharedInputs ==
    /\ stage = "shared"
    /\ axes' = (Covered /\ ~Slip("locks"))
    /\ LET shortcut == ~Covered \/ Slip("shortcut")
       IN  /\ kill' = (~shortcut /\ Slip("resolves"))
           /\ Noted(When(~axes', "locks")
                    \cup When(shortcut, "shortcut")
                    \cup When(~Covered \/ Slip("comparators"), "comparators")
                    \cup When(Slip("reviews") \/ (Submitted # {} /\ Slip("late")), "reviews")
                    \cup When(Slip("usage"), "usage")
                    \cup When(Slip("ceiling"), "ceiling"))
    /\ Go("gates")
    /\ UNCHANGED <<slips, eligible, gates, verdict>>

(***************************************************************************)
(* The gates and the verdict.                                              *)
(***************************************************************************)

(* Every value of aspect a has at least n values of aspect b. *)
Spread(a, b, n) ==
    /\ eligible # {}
    /\ \A v \in Values(a, eligible) : Cardinality(Values(b, Having(a, v, eligible))) >= n

(* Every value of aspect a is that of at least n dossiers. *)
Seen(a, n) ==
    /\ eligible # {}
    /\ \A v \in Values(a, eligible) : Cardinality(Having(a, v, eligible)) >= n

Covers ==
    /\ Cardinality(eligible) >= Floor.incidents
    /\ \A a \in {"family", "machine", "fault"} :
          Cardinality(Values(a, eligible)) >= Floor[a]
    /\ Seen("family", Floor.perFamily) /\ Seen("fault", Floor.perFault)
    /\ Seen("machine", Floor.perMachine)
    /\ Spread("family", "machine", Floor.machinesPerFamily)
    /\ \A a \in {"family", "fault"} : \A v \in Values(a, eligible) :
          2 * Cardinality(Having(a, v, eligible)) <= Cardinality(eligible)
    /\ Spread("family", "fault", Floor.faultsPerFamily)
    /\ Spread("fault", "machine", 2)
    /\ Spread("fault", "family", Floor.familiesPerFault)
    /\ RequiredDomains \subseteq Values("domain", eligible)
    /\ axes

JudgeGates ==
    /\ stage = "gates"
    /\ gates' = gates \cup When(failures # {}, "artifact-integrity")
                      \cup When(Slip("ceiling"), "resource-ceiling")
                      \cup When(~Covers, "conjunctive-coverage")
                      \cup When(kill, "shortcut-baseline")
    /\ Go("verdict")
    /\ UNCHANGED <<slips, eligible, failures, axes, kill, verdict>>

Verdict ==
    IF {"artifact-integrity", "resource-ceiling"} \cap gates # {} THEN "INVALID"
    ELSE IF "source-rights" \in gates THEN "BLOCKED_RIGHTS"
    ELSE IF "conjunctive-coverage" \in gates THEN "BLOCKED_ACQUISITION"
    ELSE IF "shortcut-baseline" \in gates THEN "KILL_CONSTRUCT"
    ELSE "PASS_PILOT"

(* The report validates itself: an eligible incident that is not in the    *)
(* candidate registry, or is there twice, raises a validation error, which *)
(* the command line does not handle.                                       *)
ReportIsValid ==
    /\ \A d \in eligible : \E c \in Dossiers : Registered(c) /\ Value("incident", d) = c
    /\ Unique("incident", eligible)
    /\ Verdict \in {"PASS_PILOT", "KILL_CONSTRUCT"} =>
          Cardinality(eligible) >= Floor.incidents

Report ==
    /\ stage = "verdict" /\ Go("done")
    /\ verdict' = IF ReportIsValid THEN Verdict ELSE "raised"
    /\ UNCHANGED <<slips, eligible, failures, gates, axes, kill>>

Init ==
    /\ slips \in {{}} \cup {{s, t} : s, t \in Slips}
    /\ stage = "load"
    /\ eligible = {} /\ failures = {} /\ gates = {}
    /\ axes = FALSE /\ kill = FALSE
    /\ verdict = "none"

Next == \/ Load \/ Sources \/ VerifyDossiers \/ CompareIdentities \/ SharedInputs
        \/ JudgeGates \/ Report

Spec == Init /\ [][Next]_vars

(***************************************************************************)
(* What a positive outcome is worth, whatever order the checks come in:    *)
(* behind PASS_PILOT and KILL_CONSTRUCT no two submitted dossiers have     *)
(* anything in common that is one event's own, so that each is a separate  *)
(* event; there are as many as are asked for; each verified; every fault   *)
(* was seen on two machines of two families; and no input that they share  *)
(* was at fault.                                                           *)
(***************************************************************************)
PassIsEarned ==
    verdict \in {"PASS_PILOT", "KILL_CONSTRUCT"} =>
        /\ \A d, e \in Submitted :
              d # e => \A a \in OwnIdentity : Value(a, d) # Value(a, e)
        /\ Cardinality(Submitted) >= Floor.incidents
        /\ \A s \in {"unsound", "unregistered", "sourceless"} :
              Spoiled(s) \cap Submitted = {}
        /\ \A d \in Submitted : \E e \in Submitted :
              /\ Value("fault", e) = Value("fault", d)
              /\ Value("family", e) # Value("family", d)
              /\ Value("machine", e) # Value("machine", d)
        /\ \A s \in SharedSlips \ {"resolves"} : ~Slip(s)

(***************************************************************************)
(* What experiments/iter001_physical_causal_evidence_acquisition/          *)
(* HYPOTHESIS.md says at line 276: when source integrity or proof          *)
(* reconstruction fails the outcome is INVALID.  (acquisition.py notes the *)
(* failure and then cannot build the report.)                              *)
(***************************************************************************)
FailureIsInvalid == verdict \in {"none", "refused", "INVALID"} \/ failures = {}
=============================================================================
