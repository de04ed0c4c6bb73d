---------------------------- MODULE MCIter000Run ----------------------------
\* A small instance of Iter000Run: two processes race and retry both attempts.
EXTENDS Iter000Run

CONSTANTS p1, p2

MCRunners == {p1, p2}
=============================================================================
