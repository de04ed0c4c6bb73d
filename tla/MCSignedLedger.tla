--------------------------- MODULE MCSignedLedger ---------------------------
\* A small instance of SignedLedger: two processes of the pinned run, one with
\* another key, and one reader.
EXTENDS SignedLedger

CONSTANTS w1, w2, w3, r1, pinned, other

MCWriters == {w1, w2, w3}
MCReaders == {r1}
MCOrigins == {pinned, other}
MCOriginOf == [w \in MCWriters |-> IF w = w3 THEN other ELSE pinned]
MCTimes == {1, 2}
MCFragments == {"fragment"}
MCAnyRemains == {"fragment", "unterminated"}
=============================================================================
