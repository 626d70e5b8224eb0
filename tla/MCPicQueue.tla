----------------------------- MODULE MCPicQueue -----------------------------
EXTENDS PicQueue, TLC

CONSTANTS e1, e2, e3
MCEntries == {e1, e2, e3}
Symmetry == Permutations(MCEntries)
=============================================================================
