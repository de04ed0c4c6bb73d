----------------------------- MODULE ControlRun -----------------------------
(***************************************************************************)
(* One admission control (control_authority.py _run_control with the       *)
(* pytest plugin control_observation.py): a bounded process collects       *)
(* tests, runs each through setup, call and teardown, may record one       *)
(* observation of an audit, writes its lifecycle and exits; the producer   *)
(* then decides whether the control was demonstrated.                      *)
(*                                                                         *)
(* pytest is modelled from how the plugin and the judgement use it: which  *)
(* tests it collects and how each phase ends is free.  An audit's report   *)
(* is its verdict and the failures its gates show.                         *)
(***************************************************************************)
EXTENDS Naturals, Sequences, FiniteSets

VARIABLES
  required,     \* what the control under execution must show
  collected,    \* the tests pytest collected
  at,           \* the test and the phase under way, or the end of the process
  phases,       \* the phases logged for the requested test
  observation,  \* the observation file: Absent, or a report
  lifecycle,    \* the lifecycle file: Absent, or what was written
  exit,         \* the exit status
  remains,      \* does a descendant of the process outlive it
  judgement,    \* "pending", "accepted" or "rejected"
  calls         \* the requested test's calls: did each see what is required (history)

vars == <<required, collected, at, phases, observation, lifecycle, exit, remains,
          judgement, calls>>

Absent == [verdict |-> "absent", failures |-> {}]
NoLifecycle == [collected |-> <<>>, phases |-> <<>>, exit |-> 99]
Tests == {"requested", "another"}

\* _CONTROL_REQUIREMENTS: the one control that passes, and those that must fail a gate
\* with one failure code.
Requirements == {[verdict |-> "PASS", failure |-> "none"],
                 [verdict |-> "INVALID", failure |-> "code"]}

Reports == [verdict : {"PASS", "INVALID"}, failures : SUBSET {"code", "else"}]

\* What the frozen registry asks of a report (for the history only).
Shows(report) ==
  /\ report.verdict = required.verdict
  /\ required.verdict = "PASS" => report.failures = {}
  /\ required.verdict = "INVALID" => required.failure \in report.failures

Init ==
  /\ required \in Requirements
  /\ collected \in {<<"requested">>, <<"another">>, <<"requested", "another">>,
                    <<"another", "requested">>, <<>>}
  /\ at = [test |-> 0, phase |-> "teardown", passed |-> TRUE]
  /\ phases = <<>>
  /\ observation = Absent
  /\ lifecycle = NoLifecycle
  /\ exit = 0
  /\ remains = FALSE
  /\ judgement = "pending"
  /\ calls = <<>>

Running == at.phase # "ended"

\* pytest_runtest_logreport keeps the phases of the requested test only.
Log(phase, outcome, xfail) ==
  phases' = IF collected[at.test] = "requested"
              THEN Append(phases, [when |-> phase, outcome |-> outcome, xfail |-> xfail])
              ELSE phases

\* The next phase of a test; a failing or skipping setup has no call.
Enter(test, phase) ==
  /\ at' = [test |-> test, phase |-> phase, passed |-> TRUE]
  /\ calls' = IF phase = "call" /\ collected[test] = "requested"
                THEN Append(calls, FALSE) ELSE calls

Following(outcome) ==
  CASE at.phase = "setup" /\ outcome = "passed" -> "call"
    [] OTHER -> "teardown"

EndPhase(outcome, xfail) ==
  /\ Running /\ at.phase \in {"setup", "call"}
  /\ outcome = "passed" => at.passed
  /\ xfail => at.phase = "call" /\ outcome # "failed"
  /\ Log(at.phase, outcome, xfail)
  /\ Enter(at.test, Following(outcome))
  /\ exit' = IF outcome = "failed" THEN 1 ELSE exit
  /\ UNCHANGED <<required, collected, observation, lifecycle, remains, judgement>>

\* A teardown, and the setup of the next test.
NextTest(outcome) ==
  /\ Running /\ at.phase = "teardown" /\ at.test < Len(collected)
  /\ IF at.test = 0 THEN UNCHANGED phases ELSE Log("teardown", outcome, FALSE)
  /\ Enter(at.test + 1, "setup")
  /\ exit' = IF outcome = "failed" THEN 1 ELSE exit
  /\ UNCHANGED <<required, collected, observation, lifecycle, remains, judgement>>

\* Mutant: any failing gate supports any failure code.
SupportsSomeFailure(report) ==
  (required.failure = "none") <=> (report.failures = {})

\* _supports_failure_code, or the tokens of an exception's message.
Supports(report) ==
  IF required.failure = "none" THEN report.failures = {}
                               ELSE required.failure \in report.failures

\* record_control_observation, record_control_exception: in whatever test makes the
\* call, an unexpected report raises, and so does a second observation.
Observe(report) ==
  /\ Running /\ at.phase = "call"
  /\ IF report.verdict = required.verdict /\ Supports(report) /\ observation = Absent
       THEN observation' = report /\ at' = at
       ELSE \* the test fails, unless it expects the exception
            /\ observation' = observation
            /\ at' \in {at, [at EXCEPT !.passed = FALSE]}
  /\ calls' = IF collected[at.test] = "requested"
                THEN [calls EXCEPT ![Len(calls)] = @ \/ Shows(report)] ELSE calls
  /\ UNCHANGED <<required, collected, phases, lifecycle, exit, remains, judgement>>

\* pytest_sessionfinish writes the lifecycle, and the process exits.
Finish(outcome, left) ==
  /\ Running /\ at.phase = "teardown" /\ at.test = Len(collected)
  /\ IF at.test = 0 THEN UNCHANGED phases ELSE Log("teardown", outcome, FALSE)
  /\ exit' = IF collected = <<>> THEN 5 ELSE IF outcome = "failed" THEN 1 ELSE exit
  /\ lifecycle' = [collected |-> collected, phases |-> phases', exit |-> exit']
  /\ at' = [at EXCEPT !.phase = "ended"]
  /\ remains' = left
  /\ UNCHANGED <<required, collected, observation, judgement, calls>>

\* The deadline or the capture bound is passed, or the process dies: no lifecycle.
Cut ==
  /\ Running
  /\ exit' \in {1, 0}
  /\ at' = [at EXCEPT !.phase = "ended"]
  /\ UNCHANGED <<required, collected, phases, observation, lifecycle, remains, judgement, calls>>

\* Mutant: the phases are not looked at; the exit status is believed.
LifecycleExits(l) == l.collected = <<"requested">> /\ l.exit = 0 /\ l.phases # <<>>

\* _validate_lifecycle: pytest also exits with 0 when the test was skipped or was
\* expected to fail.
LifecycleIsClean(l) ==
  /\ l.collected = <<"requested">>
  /\ l.exit = 0
  /\ l.phases # <<>>
  /\ \A i \in DOMAIN l.phases : l.phases[i].outcome = "passed" /\ ~l.phases[i].xfail
  /\ Cardinality({i \in DOMAIN l.phases : l.phases[i].when = "call"}) = 1

\* _run_control, after the process: nothing of it is left, the lifecycle is clean, it
\* exited with 0 and the observation is the required one.
Judge ==
  /\ at.phase = "ended" /\ judgement = "pending"
  /\ judgement' =
       IF /\ ~remains
          /\ lifecycle # NoLifecycle /\ LifecycleIsClean(lifecycle)
          /\ exit = 0
          /\ observation # Absent /\ observation.verdict = required.verdict
       THEN "accepted" ELSE "rejected"
  /\ UNCHANGED <<required, collected, at, phases, observation, lifecycle, exit, remains, calls>>

Next ==
  \/ \E outcome \in {"passed", "failed", "skipped"} :
       \/ \E xfail \in BOOLEAN : EndPhase(outcome, xfail)
       \/ outcome # "skipped" /\ NextTest(outcome)
       \/ outcome # "skipped" /\ \E left \in BOOLEAN : Finish(outcome, left)
  \/ \E report \in Reports : Observe(report)
  \/ Cut \/ Judge

Spec == Init /\ [][Next]_vars
----------------------------------------------------------------------------
\* An accepted control is one the requested test alone was collected for, called
\* once, and passed in every phase, and during that call an audit gave the required
\* verdict for the required reason, whatever pytest calls a success.
AcceptedIsDemonstrated ==
  judgement = "accepted" =>
    /\ collected = <<"requested">> /\ Len(calls) = 1
    /\ \A i \in DOMAIN phases : phases[i].outcome = "passed" /\ ~phases[i].xfail
    /\ calls[1]
=============================================================================
