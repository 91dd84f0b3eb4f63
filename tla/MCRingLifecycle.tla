---------------------------- MODULE MCRingLifecycle ----------------------------
EXTENDS RingLifecycle, TLC

CONSTANTS c1, c2

MCCtls == {c1, c2}
MCSymmetry == Permutations(MCCtls)
================================================================================
