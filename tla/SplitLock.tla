------------------------------ MODULE SplitLock ------------------------------
(***************************************************************************)
(* Group splits that must not leak (splits.py).  Incidents that share a    *)
(* value in a holdout dimension, directly or through others, form one      *)
(* component, and a component goes to one split as a whole.  A lock is     *)
(* frozen by freeze_group_split, or comes from somewhere else; either way  *)
(* validate_split_lock decides.                                            *)
(***************************************************************************)
EXTENDS Integers, FiniteSets

CONSTANTS
    Corpora,     \* corpora: functions from dimension and unit to a value
    N            \* how many incidents a corpus has

Units == 1..N
SplitNames == <<"train", "validation", "test">>
Splits == {SplitNames[i] : i \in DOMAIN SplitNames}
Weight == [train |-> 3, validation |-> 1, test |-> 1]    \* 0.6, 0.2, 0.2

VARIABLES
    corpus, holdout,     \* the values, and the dimensions held out
    step,                \* what comes next
    root,                \* the representative of each incident's component
    todo,                \* <<dimension, unit>> pairs not yet united
    waiting,             \* components not yet assigned
    lock,                \* incident -> split, and whether freeze made it
    outcome

vars == <<corpus, holdout, step, root, todo, waiting, lock, outcome>>

(***************************************************************************)
(* The components, by union and find.                                      *)
(***************************************************************************)

(* The first unit that has the same value. *)
Previous(d, u) ==
    CHOOSE p \in Units :
        /\ corpus[d][p] = corpus[d][u]
        /\ \A q \in Units : corpus[d][q] = corpus[d][u] => p <= q

(* Mutant for SplitsDoNotLeak: the incident moves, its component does not. *)
UnionOne(left, right) ==
    root' = [root EXCEPT ![right] = root[left]]

Union(left, right) ==
    root' = [u \in Units |-> IF root[u] = root[right] THEN root[left] ELSE root[u]]

Unite ==
    /\ step = "unite" /\ todo # {}
    /\ LET pair == CHOOSE p \in todo : \A q \in todo : p = q \/ p[2] <= q[2]
       IN  /\ Union(Previous(pair[1], pair[2]), pair[2])
           /\ todo' = todo \ {pair}
    /\ UNCHANGED <<corpus, holdout, step, waiting, lock, outcome>>

Components == {{u \in Units : root[u] = root[v]} : v \in Units}

(***************************************************************************)
(* Freezing a lock.                                                        *)
(***************************************************************************)

(* Two components cannot populate three splits. *)
Freeze ==
    /\ step = "unite" /\ todo = {}
    /\ IF Cardinality(Components) < 3
       THEN step' = "done" /\ outcome' = "infeasible" /\ UNCHANGED waiting
       ELSE step' = "assign" /\ waiting' = Components /\ UNCHANGED outcome
    /\ UNCHANGED <<corpus, holdout, root, todo, lock>>

Count(s) == Cardinality({u \in DOMAIN lock.split : lock.split[u] = s})

(* The splits that are filled least, relative to their share.  Empty ones  *)
(* tie exactly and the first is taken; a tie of other ratios depends on    *)
(* how the division of floating point numbers rounds.                      *)
LeastFilled ==
    LET least == {s \in Splits : \A t \in Splits :
                     Count(s) * Weight[t] <= Count(t) * Weight[s]}
        empty == {i \in DOMAIN SplitNames : Count(SplitNames[i]) = 0}
    IN  IF empty = {} THEN least
        ELSE {SplitNames[CHOOSE i \in empty : \A j \in empty : i <= j]}

(* Components come in the order of their hashes with the seed: any order. *)
Assign ==
    /\ step = "assign" /\ waiting # {}
    /\ \E c \in waiting, s \in LeastFilled :
          /\ lock' = [lock EXCEPT !.split =
                         [u \in DOMAIN @ \cup c |-> IF u \in c THEN s ELSE @[u]]]
          /\ waiting' = waiting \ {c}
    /\ UNCHANGED <<corpus, holdout, step, root, todo, outcome>>

Lock ==
    /\ step = "assign" /\ waiting = {}
    /\ step' = "validate"
    /\ UNCHANGED <<corpus, holdout, root, todo, waiting, lock, outcome>>

(* A lock that was made elsewhere, perhaps for other units or by somebody  *)
(* who named the components wrongly.                                       *)
Receive ==
    /\ step = "unite" /\ todo = {}
    /\ \E S \in {Units, Units \ {1}}, named \in BOOLEAN : \E split \in [S -> Splits] :
          lock' = [frozen |-> FALSE, split |-> split, named |-> named]
    /\ step' = "validate"
    /\ UNCHANGED <<corpus, holdout, root, todo, waiting, outcome>>

(***************************************************************************)
(* Validation.                                                             *)
(***************************************************************************)

Disjoint(d) ==
    \A u, v \in Units : corpus[d][u] = corpus[d][v] => lock.split[u] = lock.split[v]

Valid ==
    /\ DOMAIN lock.split = Units
    /\ Cardinality(Components) >= 3
    /\ \A c \in Components : \A u, v \in c : lock.split[u] = lock.split[v]
    /\ lock.named
    /\ \A s \in Splits : Count(s) > 0
    /\ \A d \in holdout : Disjoint(d)

Validate ==
    /\ step = "validate"
    /\ step' = "done"
    /\ outcome' = IF Valid THEN "accepted" ELSE "refused"
    /\ UNCHANGED <<corpus, holdout, root, todo, waiting, lock>>

Init ==
    /\ corpus \in Corpora
    /\ holdout \in SUBSET DOMAIN corpus \ {{}}
    /\ step = "unite"
    /\ root = [u \in Units |-> u]
    /\ todo = holdout \X Units
    /\ waiting = {}
    /\ lock = [frozen |-> TRUE, split |-> [u \in {} |-> "train"], named |-> TRUE]
    /\ outcome = "none"

Next == Unite \/ Freeze \/ Assign \/ Lock \/ Receive \/ Validate

Spec == Init /\ [][Next]_vars

(***************************************************************************)
(* An accepted lock separates: between incidents of different splits there *)
(* is no chain of shared values, however long, and no split is empty.      *)
(* Whatever freeze_group_split makes is accepted, in any order of the      *)
(* components and with any rounding; it refuses only what nobody could     *)
(* split in three.                                                         *)
(***************************************************************************)
Closed(S) ==
    \A d \in holdout : \A u, v \in Units :
        u \in S /\ corpus[d][u] = corpus[d][v] => v \in S

Linked(u, v) == \A S \in SUBSET Units : u \in S /\ Closed(S) => v \in S

Separates(split) ==
    /\ \A u, v \in Units : Linked(u, v) => split[u] = split[v]
    /\ {split[u] : u \in Units} = Splits

SplitsDoNotLeak ==
    /\ outcome = "accepted" => Separates(lock.split)
    /\ lock.frozen /\ step = "done" => outcome # "refused"
    /\ outcome = "infeasible" => ~\E split \in [Units -> Splits] : Separates(split)
=============================================================================
