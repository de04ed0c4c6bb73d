--------------------------- MODULE CensusScreening ---------------------------
(***************************************************************************)
(* The report of a source census (census.py): candidates are screened gate *)
(* by gate on facts bound to retrieved bytes, and a passing candidate is   *)
(* nominated.  An author of reports, who may err in everything, writes one *)
(* screening after the other; the models' validators refuse what they      *)
(* refuse, and verify_census_report checks the whole.                      *)
(*                                                                         *)
(* The twelve gates of GATE_ORDER are scaled down to two.  That a          *)
(* chronology's conditions c1 to c5 hold is left out: no check asks.       *)
(***************************************************************************)
EXTENDS Integers, Sequences, FiniteSets

GateOrder == <<"rights", "chronology">>
Gates == {GateOrder[i] : i \in DOMAIN GateOrder}
Sources == {"s1", "s2"}

(* A fact is about one source, and rests on frozen bytes or a mutable page. *)
Facts == [source : Sources, frozen : BOOLEAN]

VARIABLES
    filed,       \* the screenings that were constructed, by source
    draft,       \* the screening being written
    report,      \* the census report, once it was constructed
    accepted     \* whether verify_census_report returned it

vars == <<filed, draft, report, accepted>>

None == [kind |-> "none"]
Blank(s) == [kind |-> "screening", source |-> s, results |-> <<>>, chronology |-> None]

Passed(x) == Len(x.results) = Len(GateOrder)
             /\ \A i \in DOMAIN x.results : x.results[i].status = "passed"

(***************************************************************************)
(* One screening.                                                          *)
(***************************************************************************)

Begin(s) ==
    /\ draft = None /\ report = None /\ s \notin DOMAIN filed
    /\ draft' = Blank(s)
    /\ UNCHANGED <<filed, report, accepted>>

Position(g) == CHOOSE i \in DOMAIN GateOrder : GateOrder[i] = g

(* Mutant for NominationIsBacked: any fact decides a gate. *)
SupportedByAny(status, facts) ==
    IF status = "not_screened" THEN facts = {} ELSE facts # {}

(* A decided gate binds at least one content-frozen fact. *)
Supported(status, facts) ==
    IF status = "not_screened" THEN facts = {} ELSE \E f \in facts : f.frozen

(* Gates follow the frozen order, each at most once, and none is decided   *)
(* after a failure.                                                        *)
Decide(g, status, facts) ==
    /\ draft # None
    /\ Supported(status, facts)
    /\ \A i \in DOMAIN draft.results :
          /\ Position(draft.results[i].gate) < Position(g)
          /\ draft.results[i].status = "failed" => status = "not_screened"
    /\ draft' = [draft EXCEPT !.results = Append(@, [gate |-> g, status |-> status,
                                                     facts |-> facts])]
    /\ UNCHANGED <<filed, report, accepted>>

(* The hypothesis and determination artifacts of a chronology are two, and *)
(* frozen.  Its condition c6: the reviewer was not exposed to the outcome. *)
Chronology(artifacts, c6) ==
    /\ draft # None /\ draft.chronology = None
    /\ \A f \in artifacts : f.frozen
    /\ draft' = [draft EXCEPT !.chronology =
                    [kind |-> "chronology", artifacts |-> artifacts,
                     contaminated |-> ~c6]]
    /\ UNCHANGED <<filed, report, accepted>>

File ==
    /\ draft # None
    /\ filed' = [s \in DOMAIN filed \cup {draft.source} |->
                   IF s = draft.source THEN draft ELSE filed[s]]
    /\ draft' = None
    /\ UNCHANGED <<report, accepted>>

(***************************************************************************)
(* The report and its verification.                                        *)
(***************************************************************************)

Nominations(r) == {s \in DOMAIN r.screenings : Passed(r.screenings[s])}

VerdictFollows(verdict, screenings) ==
    LET any == \E s \in DOMAIN screenings : Passed(screenings[s])
    IN  (verdict = "QUALIFYING" => any) /\ (verdict = "NULL" => ~any)

Conclude(verdict, breach) ==
    /\ draft = None /\ report = None
    /\ VerdictFollows(verdict, filed)
    /\ report' = [kind |-> "report", verdict |-> verdict, screenings |-> filed,
                  breach |-> breach]
    /\ UNCHANGED <<filed, draft, accepted>>

(* The facts verify_census_report looks at: those of the gates. *)
GateFacts(x) == UNION {x.results[i].facts : i \in DOMAIN x.results}

OwnFacts(x) == \A f \in GateFacts(x) : f.source = x.source

Verify ==
    /\ report # None /\ ~accepted
    /\ report.verdict # "KILL_PUBLIC_SUBSTRATE" /\ ~report.breach
    /\ \A s \in DOMAIN report.screenings :
          LET x == report.screenings[s]
          IN  /\ OwnFacts(x)
              /\ ~(x.chronology # None /\ Passed(x) /\ x.chronology.contaminated)
    /\ accepted' = TRUE
    /\ UNCHANGED <<filed, draft, report>>

Init ==
    /\ filed = [s \in {} |-> None]
    /\ draft = None /\ report = None /\ accepted = FALSE

(* The author binds at most one fact to a gate. *)
Next ==
    \/ \E s \in Sources : Begin(s)
    \/ \E g \in Gates, status \in {"passed", "failed", "not_screened"},
          facts \in {{}} \cup {{f} : f \in Facts} : Decide(g, status, facts)
    \/ \E artifacts \in {{h, d} : h, d \in Facts}, c6 \in BOOLEAN : Chronology(artifacts, c6)
    \/ File
    \/ \E verdict \in {"QUALIFYING", "NULL", "BLOCKED_RIGHTS"}, breach \in BOOLEAN :
          Conclude(verdict, breach)
    \/ Verify

Spec == Init /\ [][Next]_vars

(***************************************************************************)
(* A census that is accepted nominates only candidates every gate of which *)
(* was passed on bytes that can be checked again, of the candidate's own   *)
(* source, by a reviewer who had not seen the outcome if there is a        *)
(* chronology at all; it says "qualifying" only if there is such a         *)
(* candidate, and "null" only if there is none.  (It may say that rights   *)
(* block it whether there is one or not.)                                  *)
(***************************************************************************)
NominationIsBacked ==
    accepted =>
        /\ \A s \in Nominations(report) :
              LET x == report.screenings[s]
              IN  /\ \A g \in Gates : \E i \in DOMAIN x.results :
                        /\ x.results[i].gate = g
                        /\ \E f \in x.results[i].facts : f.frozen /\ f.source = s
                  /\ x.chronology # None => ~x.chronology.contaminated
        /\ report.verdict = "QUALIFYING" => Nominations(report) # {}
        /\ report.verdict = "NULL" => Nominations(report) = {}

(***************************************************************************)
(* What census.py says at lines 604 to 606: "Every locator bound by a      *)
(* screening must name that screening's own source."                       *)
(***************************************************************************)
NoFieldBorrowing ==
    accepted =>
        \A s \in DOMAIN report.screenings :
            LET x == report.screenings[s]
                chronology == IF x.chronology = None THEN {} ELSE x.chronology.artifacts
            IN  \A f \in GateFacts(x) \cup chronology : f.source = s
=============================================================================
