---------------------------- MODULE MCHostAgent ----------------------------
EXTENDS HostAgent, TLC

MCSymmetry == Permutations(Executors)
=============================================================================
