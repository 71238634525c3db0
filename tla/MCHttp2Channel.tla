--------------------------- MODULE MCHttp2Channel ---------------------------
EXTENDS Http2Channel, TLC

CONSTANTS o1, o2, o3

\* Without deadlines the RPCs are interchangeable.
Symmetry == Permutations(Ops)
=============================================================================
