-------------------------- MODULE MCInputRecording --------------------------
EXTENDS InputRecording, TLC

CONSTANTS c1, c2
MCClients == {c1, c2}
Symmetry == Permutations(MCClients)
=============================================================================
