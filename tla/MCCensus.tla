------------------------------- MODULE MCCensus -------------------------------
(* Two processes open sessions, with two candidates and two bodies of        *)
(* different lengths that together exceed the ceiling when one of them is    *)
(* retrieved twice; four incidents are split and predicted.                  *)
EXTENDS CensusParts, TLC

CONSTANTS o1, o2, c1, c2, small, large

MCOpeners == {o1, o2}
MCCandidates == {c1, c2}
MCBodies == {small, large}
MCSize == small :> 1 @@ large :> 2
MCSymmetry == Permutations(MCOpeners)

(* Every partition of four units, each class named by its first unit. *)
MCPartitions == {f \in [1..4 -> 1..4] : \A u \in 1..4 : f[u] <= u /\ f[f[u]] = f[u]}
MCCorpora == [{"hardware", "fault"} -> MCPartitions]

(* Four incidents in two groups of faults, and one or two of hardware. *)
MCIncidents == 1..4
MCGroups(first) == [i \in MCIncidents |-> IF i \in first THEN "a" ELSE "b"]
MCCensuses ==
  {[hardware |-> MCGroups(h), fault |-> MCGroups({1, 3})] : h \in {{1}, MCIncidents}}
================================================================================
