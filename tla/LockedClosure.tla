----------------------------- MODULE LockedClosure -----------------------------
(***************************************************************************)
(* Which distributions and wheels a runner is made of (runner_trust.py,    *)
(* resolve_locked_packages and resolve_locked_wheels): the packages of the *)
(* dependency lock that the roots need on this platform, worked off a      *)
(* stack, and for each the one wheel that fits the platform best.          *)
(***************************************************************************)
EXTENDS Integers, Sequences, FiniteSets, SequencesExt

CONSTANTS
    Names,       \* names of distributions, as numbers
    Limit        \* most distributions that may be selected

VARIABLES
    lock,        \* the parsed lock
    roots,       \* the distributions asked for
    pending,     \* the stack of names to look at
    selected,    \* names selected
    wheels,      \* the wheel chosen for each
    outcome      \* "packages", "wheels", "resolved" or "refused"

vars == <<lock, roots, pending, selected, wheels, outcome>>

(***************************************************************************)
(* Locks: how many packages have a name, what each depends on ("marked" if *)
(* the marker does not apply here), and the wheels that fit, each with the *)
(* rank of its best tag.                                                   *)
(***************************************************************************)

Wheel(rank, url) == [rank |-> rank, url |-> url]
OneWheel == {Wheel(1, "a")}
WheelSets == {{}, {Wheel(1, "a"), Wheel(1, "b")},
              {Wheel(2, "a"), Wheel(2, "b"), Wheel(3, "c"), Wheel(1, "d")}}

Edges == {e \in Names \X Names : e[1] # e[2]}

(* At most one name is out of the ordinary. *)
Oddities ==
    {[copies |-> [n \in Names |-> 1], fits |-> [n \in Names |-> OneWheel]]}
       \cup {[copies |-> [n \in Names |-> IF n = odd THEN count ELSE 1],
              fits |-> [n \in Names |-> OneWheel]] : odd \in Names, count \in {0, 2}}
       \cup {[copies |-> [n \in Names |-> 1],
              fits |-> [n \in Names |-> IF n = odd THEN set ELSE OneWheel]] :
                 odd \in Names, set \in WheelSets}

Locks == {[edge |-> edge, copies |-> odd.copies, fits |-> odd.fits] :
             edge \in [Edges -> {"no", "yes", "marked"}], odd \in Oddities}

DependsOn(n, m) == <<n, m>> \in Edges /\ lock.edge[<<n, m>>] = "yes"

(* The dependencies of a package, in whatever order the lock lists them. *)
Dependencies(n) == SetToSeqs({m \in Names : DependsOn(n, m)})

(***************************************************************************)
(* The work.                                                               *)
(***************************************************************************)

Refuse ==
    /\ outcome' = "refused"
    /\ UNCHANGED <<pending, selected, wheels>>

Select(name) ==
    /\ selected' = selected \cup {name}
    /\ \E listed \in Dependencies(name) : pending' = Front(pending) \o listed
    /\ UNCHANGED <<wheels, outcome>>

Skip ==
    /\ pending' = Front(pending)
    /\ UNCHANGED <<selected, wheels, outcome>>

(* Mutant for ClosureIsExact: the count is checked before the name. *)
PopCounted ==
    /\ outcome = "packages" /\ pending # <<>>
    /\ LET name == Last(pending)
       IN  IF lock.copies[name] # 1 \/ Cardinality(selected) >= Limit THEN Refuse
           ELSE IF name \in selected THEN Skip
           ELSE Select(name)
    /\ UNCHANGED <<lock, roots>>

Pop ==
    /\ outcome = "packages" /\ pending # <<>>
    /\ LET name == Last(pending)
       IN  IF name \in selected THEN Skip
           ELSE IF lock.copies[name] # 1 \/ Cardinality(selected) >= Limit THEN Refuse
           ELSE Select(name)
    /\ UNCHANGED <<lock, roots>>

AllSelected ==
    /\ outcome = "packages" /\ pending = <<>>
    /\ outcome' = "wheels"
    /\ UNCHANGED <<lock, roots, pending, selected, wheels>>

Best(set) == {w \in set : \A x \in set : w.rank <= x.rank}

(* One wheel must fit better than all others. *)
ChooseWheel ==
    /\ outcome = "wheels" /\ selected # DOMAIN wheels
    /\ LET name == CHOOSE n \in selected \ DOMAIN wheels :
                      \A m \in selected \ DOMAIN wheels : n <= m
           best == Best(lock.fits[name])
       IN  IF Cardinality(best) # 1 THEN Refuse
           ELSE /\ wheels' = [n \in DOMAIN wheels \cup {name} |->
                                IF n = name THEN CHOOSE w \in best : TRUE ELSE wheels[n]]
                /\ UNCHANGED <<pending, selected, outcome>>
    /\ UNCHANGED <<lock, roots>>

Resolve ==
    /\ outcome = "wheels" /\ selected = DOMAIN wheels
    /\ outcome' = "resolved"
    /\ UNCHANGED <<lock, roots, pending, selected, wheels>>

Init ==
    /\ lock \in Locks
    /\ roots \in (SUBSET Names) \ {{}}
    /\ pending \in SetToSeqs(roots)
    /\ selected = {}
    /\ wheels = [n \in {} |-> {}]
    /\ outcome = "packages"

Next == Pop \/ AllSelected \/ ChooseWheel \/ Resolve

Spec == Init /\ [][Next]_vars

(***************************************************************************)
(* What the roots need: the least set that has them and, with a name, what *)
(* the package of that name depends on.                                    *)
(***************************************************************************)
Needed ==
    LET Closed(S) == \A n \in S, m \in Names : DependsOn(n, m) => m \in S
    IN  {n \in Names : \A S \in SUBSET Names : roots \subseteq S /\ Closed(S) => n \in S}

(***************************************************************************)
(* The resolution succeeds exactly when it can: it selects just what the   *)
(* roots need, however the dependencies are listed, shared or circular,    *)
(* each name with its one best wheel; and it refuses only if something     *)
(* that is needed is missing, is there twice, has no best wheel, or is one *)
(* too many.                                                               *)
(***************************************************************************)
ClosureIsExact ==
    /\ outcome = "resolved" =>
         /\ selected = Needed
         /\ \A n \in selected : lock.copies[n] = 1 /\ Best(lock.fits[n]) = {wheels[n]}
         /\ Cardinality(selected) <= Limit
    /\ outcome = "refused" =>
         \/ \E n \in Needed : lock.copies[n] # 1 \/ Cardinality(Best(lock.fits[n])) # 1
         \/ Cardinality(Needed) > Limit
=============================================================================
