-------------------------- MODULE MCSocksListeners --------------------------
EXTENDS SocksListeners, TLC

OnePort == {1}
TwoPorts == {1, 2}

TokenSymmetry == Permutations(Tokens)
=============================================================================
