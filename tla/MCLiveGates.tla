---------------------------- MODULE MCLiveGates ----------------------------
\* LiveGates for TLC: campaigns and wallets are interchangeable.
EXTENDS LiveGates, TLC

GateSymmetry == Permutations(Campaigns) \union Permutations(Wallets)
=============================================================================
