-------------------------------- MODULE CrossFit --------------------------------
(***************************************************************************)
(* The diagnostic baselines of iteration 001 (shortcut_v2_crossfit.py):    *)
(* the incidents are split along every axis, each group is held out once,  *)
(* a mode is fitted to the others and predicts the held-out incidents, and *)
(* the manifests of all folds are validated together.  The functions take  *)
(* whatever fold their caller brings: the canonical one, or one of the     *)
(* same name with other incidents in it.                                   *)
(*                                                                         *)
(* One fold is followed; the validation compares each with its own.        *)
(***************************************************************************)
EXTENDS Integers, FiniteSets

CONSTANTS
    Incidents,    \* the incidents of the census, as integers
    Censuses      \* the groups of the incidents along each axis

Keys == {"k1", "k2"}            \* prediction keys
Selectors == {"x", "y"}         \* what a rule sees of an incident

VARIABLES
    census,      \* the groups along each axis
    truth,       \* the target of each incident
    selector,    \* the selector of each incident
    registry,    \* the canonical folds
    at,          \* the step
    state,       \* the fitted state
    manifest     \* the predictions, and the fold they are for

vars == <<census, truth, selector, registry, at, state, manifest>>

(***************************************************************************)
(* Folds.                                                                  *)
(***************************************************************************)

Fold(axis, group, train, holdout) ==
    [axis |-> axis, group |-> group, train |-> train, holdout |-> holdout]

Groups(axis) == {census[axis][i] : i \in Incidents}
Holdout(axis, group) == {i \in Incidents : census[axis][i] = group}

Folds ==
    UNION {{Fold(axis, group, Incidents \ Holdout(axis, group), Holdout(axis, group)) :
              group \in Groups(axis)} : axis \in DOMAIN census}

WellFormed(fold) ==
    fold.train # {} /\ fold.holdout # {} /\ fold.train \cap fold.holdout = {}

(* Folds of the same name that a caller can bring in place of a fold.      *)
Brought(fold) ==
    {f \in {fold}
           \cup {[fold EXCEPT !.train = g.train, !.holdout = g.holdout] : g \in registry}
           \cup {[fold EXCEPT !.train = @ \ {i}] : i \in Incidents}
           \cup {[fold EXCEPT !.train = @ \cup {i}, !.holdout = @ \ {i}] : i \in Incidents} :
       WellFormed(f)}

Derive ==
    /\ at = "derive"
    /\ IF \A axis \in DOMAIN census : Cardinality(Groups(axis)) >= 2
       THEN registry' = Folds /\ at' = "fit"
       ELSE at' = "refused" /\ UNCHANGED registry
    /\ UNCHANGED <<census, truth, selector, state, manifest>>

(***************************************************************************)
(* Fitting: for each selector the key most often seen with it, if one is.  *)
(***************************************************************************)

Records(expected) == {expected} \cup {expected \cup {i} : i \in Incidents}
                       \cup {expected \ {i} : i \in Incidents}

Exact(records, expected) == records = expected

Count(train, s, key) == Cardinality({i \in train : selector[i] = s /\ truth[i] = key})

Winners(train, s) ==
    {key \in Keys : /\ Count(train, s, key) > 0
                    /\ \A other \in Keys : Count(train, s, other) <= Count(train, s, key)}

Mode(train, s) ==
    LET winners == Winners(train, s)
    IN  IF Cardinality(winners) = 1 THEN CHOOSE key \in winners : TRUE
        ELSE "class_tie"

Modes(train) == [s \in {selector[i] : i \in train} |-> Mode(train, s)]

Fit ==
    /\ at = "fit"
    /\ \E fold \in registry : \E brought \in Brought(fold) :
         \E records \in Records(brought.train) :
           IF Exact(records, brought.train)
           THEN /\ state' = [axis |-> fold.axis, group |-> fold.group,
                             train |-> brought.train, modes |-> Modes(brought.train)]
                /\ at' = "predict"
           ELSE at' = "refused" /\ UNCHANGED state
    /\ UNCHANGED <<census, truth, selector, registry, manifest>>

(***************************************************************************)
(* Predicting: with the local hypotheses of each held-out incident.        *)
(***************************************************************************)

(* Mutant for NoOwnTruth: the name of the fold is taken for the fold. *)
BoundByName(fold) == state.axis = fold.axis /\ state.group = fold.group

Bound(fold) ==
    state.axis = fold.axis /\ state.group = fold.group /\ state.train = fold.train

Prediction(i, local) ==
    IF selector[i] \notin DOMAIN state.modes
    THEN [proposed |-> "none", selected |-> "none", reason |-> "unseen_selector"]
    ELSE IF state.modes[selector[i]] = "class_tie"
    THEN [proposed |-> "none", selected |-> "none", reason |-> "class_tie"]
    ELSE LET key == state.modes[selector[i]]
         IN  IF key \in local
             THEN [proposed |-> key, selected |-> key, reason |-> "none"]
             ELSE [proposed |-> key, selected |-> "none", reason |-> "key_unavailable"]

Predict ==
    /\ at = "predict"
    /\ \E fold \in registry : \E brought \in Brought(fold), local \in SUBSET Keys :
         \E inputs \in Records(brought.holdout) :
           IF Bound(brought) /\ Exact(inputs, brought.holdout)
           THEN /\ manifest' = [axis |-> fold.axis, group |-> fold.group, local |-> local,
                                predictions |-> [i \in inputs |-> Prediction(i, local)]]
                /\ at' = "validate"
           ELSE at' = "refused" /\ UNCHANGED manifest
    /\ UNCHANGED <<census, truth, selector, registry, state>>

(* The manifest of each fold must be for the incidents that it holds out. *)
Complete(fold) ==
    fold.axis = manifest.axis /\ fold.group = manifest.group =>
       DOMAIN manifest.predictions = fold.holdout

Validate ==
    /\ at = "validate"
    /\ at' = IF \A fold \in registry : Complete(fold) THEN "accepted" ELSE "refused"
    /\ UNCHANGED <<census, truth, selector, registry, state, manifest>>

Init ==
    /\ census \in Censuses
    /\ truth \in [Incidents -> Keys]
    /\ selector \in [Incidents -> Selectors]
    /\ registry = {}
    /\ at = "derive"
    /\ state = [axis |-> "none", group |-> "none", train |-> {}, modes |-> <<>>]
    /\ manifest = [axis |-> "none", group |-> "none", local |-> {}, predictions |-> <<>>]

Next == Derive \/ Fit \/ Predict \/ Validate

Spec == Init /\ [][Next]_vars

(***************************************************************************)
(* Whatever fold the caller brought, an accepted prediction owes nothing   *)
(* to the truth about the incidents of its group: were that truth another, *)
(* the same would have been predicted.  And it is what the other incidents *)
(* show: a key is proposed only when strictly more of those with the same  *)
(* selector have it than have any other.                                   *)
(***************************************************************************)
NoOwnTruth ==
    at = "accepted" =>
      LET held == {i \in Incidents : census[manifest.axis][i] = manifest.group}
          seen == {i \in Incidents \ held : i \in state.train}
          With(s, key) == {i \in seen : selector[i] = s /\ truth[i] = key}
      IN  /\ DOMAIN manifest.predictions = held
          /\ \A i \in held, key \in Keys :
               LET p == manifest.predictions[i]
               IN  /\ p.proposed = key <=>
                        \A other \in Keys \ {key} :
                          Cardinality(With(selector[i], key))
                            > Cardinality(With(selector[i], other))
                   /\ p.selected = key => p.proposed = key /\ key \in manifest.local
=============================================================================
