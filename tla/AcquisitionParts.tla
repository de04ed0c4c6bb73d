--------------------------- MODULE AcquisitionParts ---------------------------
(* How an incident comes to be counted: one dossier, or the audit of all of  *)
(* them, or the reading of the tree they lie in, or the run of one control;  *)
(* or what that rests on: the controls of the gate before it, the runner     *)
(* they are given, and the closure of the runner's lock.  A behaviour is of  *)
(* one part throughout; the variables of the others rest.                    *)
EXTENDS IncidentDossier

CONSTANTS
    Floor,               \* the audit's counts
    MaxTreeChanges,      \* bound on the changes to the tree that is read
    MaxWrites, MaxEdits, \* bounds on what happens around the gate's controls
    Preparers,           \* processes that prepare a runner
    MaxRunnerChanges, MaxRuns,
    Names, Limit         \* distributions, and how many may be selected

(* AcquisitionContract wants every fault in two families at least. *)
ASSUME FloorAssumption == Floor.familiesPerFault \in Nat /\ Floor.familiesPerFault >= 2

(* The names of distributions are numbers, and there are finitely many in a lock. *)
ASSUME NamesAssumption == Names \subseteq Nat /\ IsFiniteSet(Names) /\ Limit \in Nat

DossierRests ==
  /\ group = [r \in Roles |-> r] /\ slips = 0
  /\ agenda = Course /\ now = 0
  /\ log = [a \in Acts |-> {}]
  /\ dossier = [verdict |-> "open"]

VARIABLES
    part,
    auditSlips, stage, eligible, failures, gates, axes, kill, verdict,
    objects, entry, stamps, changes, history, reader,
    required, collected, at, phases, observation, lifecycle, exit, remains,
    judgement, calls,
    registry, edits, gateTree, writes, child, blame, harm, verifier,
    cache, stamp, runnerChanges, runs, prep,
    pins, roots, pending, selected, wheels, outcome

auditVars == <<auditSlips, stage, eligible, failures, gates, axes, kill, verdict>>
treeVars == <<objects, entry, stamps, changes, history, reader>>
controlVars == <<required, collected, at, phases, observation, lifecycle, exit, remains, judgement, calls>>
gateVars == <<registry, edits, gateTree, writes, child, blame, harm, verifier>>
runnerVars == <<cache, stamp, runnerChanges, runs, prep>>
closureVars == <<pins, roots, pending, selected, wheels, outcome>>

Audit == INSTANCE AcquisitionAudit WITH slips <- auditSlips
Tree == INSTANCE TreeCensus WITH MaxChanges <- MaxTreeChanges
Control == INSTANCE ControlRun
Gate == INSTANCE GateControl WITH tree <- gateTree
Runner == INSTANCE RunnerPreparation WITH
                MaxChanges <- MaxRunnerChanges, changes <- runnerChanges
Closure == INSTANCE LockedClosure WITH lock <- pins

AuditRests ==
  /\ auditSlips = "rests" /\ stage = "rests" /\ eligible = "rests"
  /\ failures = "rests" /\ gates = "rests" /\ axes = "rests"
  /\ kill = "rests" /\ verdict = "rests"

TreeRests ==
  /\ objects = "rests" /\ entry = "rests" /\ stamps = "rests"
  /\ changes = "rests" /\ history = "rests" /\ reader = "rests"

ControlRests ==
  /\ required = "rests" /\ collected = "rests" /\ at = "rests"
  /\ phases = "rests" /\ observation = "rests" /\ lifecycle = "rests"
  /\ exit = "rests" /\ remains = "rests" /\ judgement = "rests"
  /\ calls = "rests"

GateRests ==
  /\ registry = "rests" /\ edits = "rests" /\ gateTree = "rests"
  /\ writes = "rests" /\ child = "rests" /\ blame = "rests" /\ harm = "rests"
  /\ verifier = "rests"

RunnerRests ==
  /\ cache = "rests" /\ stamp = "rests" /\ runnerChanges = "rests"
  /\ runs = "rests" /\ prep = "rests"

ClosureRests ==
  /\ pins = "rests" /\ roots = "rests" /\ pending = "rests"
  /\ selected = "rests" /\ wheels = "rests" /\ outcome = "rests"

PartsInit ==
  \/ part = "dossier" /\ Init /\ AuditRests /\ TreeRests /\ ControlRests /\ GateRests /\ RunnerRests /\ ClosureRests
  \/ part = "audit" /\ Audit!Init /\ DossierRests
       /\ TreeRests /\ ControlRests /\ GateRests /\ RunnerRests /\ ClosureRests
  \/ part = "tree" /\ Tree!Init /\ DossierRests
       /\ AuditRests /\ ControlRests /\ GateRests /\ RunnerRests /\ ClosureRests
  \/ part = "control" /\ Control!Init /\ DossierRests
       /\ AuditRests /\ TreeRests /\ GateRests /\ RunnerRests /\ ClosureRests
  \/ part = "gate" /\ Gate!Init /\ DossierRests
       /\ AuditRests /\ TreeRests /\ ControlRests /\ RunnerRests /\ ClosureRests
  \/ part = "runner" /\ Runner!Init /\ DossierRests
       /\ AuditRests /\ TreeRests /\ ControlRests /\ GateRests /\ ClosureRests
  \/ part = "closure" /\ Closure!Init /\ DossierRests
       /\ AuditRests /\ TreeRests /\ ControlRests /\ GateRests /\ RunnerRests

partsVars == <<part, vars, auditVars, treeVars, controlVars, gateVars, runnerVars, closureVars>>

DossierStep ==
  part = "dossier" /\ Next
    /\ UNCHANGED <<part, auditVars, treeVars, controlVars, gateVars, runnerVars, closureVars>>

AuditStep ==
  part = "audit" /\ Audit!Next
    /\ UNCHANGED <<part, vars, treeVars, controlVars, gateVars, runnerVars, closureVars>>

TreeStep ==
  part = "tree" /\ Tree!Next
    /\ UNCHANGED <<part, vars, auditVars, controlVars, gateVars, runnerVars, closureVars>>

ControlStep ==
  part = "control" /\ Control!Next
    /\ UNCHANGED <<part, vars, auditVars, treeVars, gateVars, runnerVars, closureVars>>

GateStep ==
  part = "gate" /\ Gate!Next
    /\ UNCHANGED <<part, vars, auditVars, treeVars, controlVars, runnerVars, closureVars>>

RunnerStep ==
  part = "runner" /\ Runner!Next
    /\ UNCHANGED <<part, vars, auditVars, treeVars, controlVars, gateVars, closureVars>>

ClosureStep ==
  part = "closure" /\ Closure!Next
    /\ UNCHANGED <<part, vars, auditVars, treeVars, controlVars, gateVars, runnerVars>>

PartsNext ==
  \/ DossierStep
  \/ AuditStep
  \/ TreeStep
  \/ ControlStep
  \/ GateStep
  \/ RunnerStep
  \/ ClosureStep

PartsSpec == PartsInit /\ [][PartsNext]_partsVars

(* AcquisitionAudit: a positive outcome has as many separate and verified    *)
(* incidents behind it as the preregistration asks for (acquisition.py).     *)
PassIsEarned == part = "audit" => Audit!PassIsEarned

(* AcquisitionAudit: what HYPOTHESIS.md of the acquisition experiment says   *)
(* at line 276, that a failure of integrity makes the outcome INVALID.       *)
FailureIsInvalid == part = "audit" => Audit!FailureIsInvalid

(* TreeCensus: no entry of an accepted tree is a mixture, and a census or a  *)
(* replayed snapshot is of one moment (terminal_authority.py).               *)
AcceptedTreeExisted == part = "tree" => Tree!AcceptedTreeExisted

(* ControlRun: an accepted control was run, and showed what it is required   *)
(* to show (control_observation.py, control_authority.py).                   *)
AcceptedIsDemonstrated == part = "control" => Control!AcceptedIsDemonstrated

(* GateControl: controls that pass were run by the bound tree, and a refusal *)
(* has a cause, whatever the tests write or leave running (mission.py).      *)
VerdictIsExact == part = "gate" => Gate!VerdictIsExact

(* RunnerPreparation: a runner that is given out has only pinned bytes in    *)
(* it, whoever prepares one beside it or damages the cache (runner_trust.py).*)
RunnerIsAuthentic == part = "runner" => Runner!RunnerIsAuthentic

(* LockedClosure: the resolution succeeds exactly when it can, and selects   *)
(* just what the roots need (runner_trust.py).                               *)
ClosureIsExact == part = "closure" => Closure!ClosureIsExact
================================================================================
