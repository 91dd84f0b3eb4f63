----------------------------- MODULE MCRingMonitor -----------------------------
EXTENDS RingMonitor, TLC

CONSTANTS w1, m1

MCWords == {w1}
MCMsgs == {m1}
================================================================================
