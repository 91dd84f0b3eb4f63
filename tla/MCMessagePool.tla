----------------------------- MODULE MCMessagePool -----------------------------
EXTENDS MessagePool, TLC

CONSTANTS t1, t2, t3, t4

MCThreads == {t1, t2, t3, t4}
MCSymmetry == Permutations(MCThreads)
================================================================================
