---------------------------- MODULE MCClientBase ----------------------------
EXTENDS QmlClient, TLC

MCCallbacks == {{"message", "finish", "error"}, {"finish"}}

\* Which of the channels is attached first makes no difference.
MCSymmetry == Permutations(Channels)
=============================================================================
