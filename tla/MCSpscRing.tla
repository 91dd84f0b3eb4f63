------------------------------ MODULE MCSpscRing ------------------------------
EXTENDS SpscRing, TLC

CONSTANTS w1, w2, m1, m2

MCWords == {w1, w2}
MCMsgs == {m1, m2}
================================================================================
