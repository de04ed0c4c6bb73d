--------------------------- MODULE MCHandoffCycle ---------------------------
\* Small instances of HandoffCycle: two cycles alone, one cycle beside one
\* append_memory and a person who edits and commits, or two beside an append.
EXTENDS HandoffCycle, TLC

CONSTANTS c1, c2, a1, s1, s2

MCCycles == {c1, c2}
MCOneCycle == {c1}
MCAppenders == {a1}
MCSources == {s1, s2}

\* Of what a cycle appends (a finding, a resource, an execution checkpoint and a
\* handoff), the two events the renderer looks at.
MCShortEvents == <<"execution", "handoff">>

MCSymmetry == Permutations(MCCycles)
=============================================================================
