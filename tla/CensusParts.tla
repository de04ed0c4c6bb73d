----------------------------- MODULE CensusParts -----------------------------
(* How the incidents come to be chosen: the sessions of a census, or its     *)
(* screening, or the split of the corpus, or the folds of its baselines.  A  *)
(* behaviour is of one part throughout; the variables of the others rest.    *)
EXTENDS CensusSession

CONSTANTS
    N, Corpora,             \* incidents to split, and the values they can have
    Incidents, Censuses     \* incidents to predict, and their groups

VARIABLES
    part,
    filed, draft, report, accepted,
    corpus, holdout, step, root, todo, waiting, lock, outcome,
    census, truth, selector, registry, at, state, predicted

screeningVars == <<filed, draft, report, accepted>>
splitVars == <<corpus, holdout, step, root, todo, waiting, lock, outcome>>
foldsVars == <<census, truth, selector, registry, at, state, predicted>>

Screening == INSTANCE CensusScreening
Split == INSTANCE SplitLock
Folds == INSTANCE CrossFit WITH manifest <- predicted

(* A corpus has finitely many incidents, numbered in the one case.           *)
ASSUME CensusAssumption == N \in Nat /\ IsFiniteSet(Incidents)

ScreeningRests ==
  /\ filed = "rests" /\ draft = "rests" /\ report = "rests"
  /\ accepted = "rests"

SplitRests ==
  /\ corpus = "rests" /\ holdout = "rests" /\ step = "rests"
  /\ root = "rests" /\ todo = "rests" /\ waiting = "rests" /\ lock = "rests"
  /\ outcome = "rests"

FoldsRests ==
  /\ census = "rests" /\ truth = "rests" /\ selector = "rests"
  /\ registry = "rests" /\ at = "rests" /\ state = "rests"
  /\ predicted = "rests"

PartsInit ==
  /\ Init
  /\ \/ part = "session" /\ ScreeningRests /\ SplitRests /\ FoldsRests
     \/ part = "screening" /\ Screening!Init /\ SplitRests /\ FoldsRests
     \/ part = "split" /\ Split!Init /\ ScreeningRests /\ FoldsRests
     \/ part = "folds" /\ Folds!Init /\ ScreeningRests /\ SplitRests

partsVars == <<part, vars, screeningVars, splitVars, foldsVars>>

SessionStep ==
  part = "session" /\ Next
    /\ UNCHANGED <<part, screeningVars, splitVars, foldsVars>>

ScreeningStep ==
  part = "screening" /\ Screening!Next
    /\ UNCHANGED <<part, vars, splitVars, foldsVars>>

SplitStep ==
  part = "split" /\ Split!Next
    /\ UNCHANGED <<part, vars, screeningVars, foldsVars>>

FoldsStep ==
  part = "folds" /\ Folds!Next
    /\ UNCHANGED <<part, vars, screeningVars, splitVars>>

PartsNext ==
  \/ SessionStep
  \/ ScreeningStep
  \/ SplitStep
  \/ FoldsStep

PartsSpec == PartsInit /\ [][PartsNext]_partsVars

(* CensusScreening: an accepted census nominates only candidates whose every *)
(* gate was passed on bytes that can be checked again (census.py).           *)
NominationIsBacked == part = "screening" => Screening!NominationIsBacked

(* CensusScreening: what census.py says at line 604, that a screening's      *)
(* locators name the screening's own source.                                 *)
NoFieldBorrowing == part = "screening" => Screening!NoFieldBorrowing

(* SplitLock: no group of an axis is on both sides of a lock that verifies   *)
(* (splits.py).                                                              *)
SplitsDoNotLeak == part = "split" => Split!SplitsDoNotLeak

(* CrossFit: an accepted prediction owes nothing to the truth about the      *)
(* incidents it is for (shortcut_v2_crossfit.py).                            *)
NoOwnTruth == part = "folds" => Folds!NoOwnTruth
================================================================================
