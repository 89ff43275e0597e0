------------------------------- MODULE MCPool -------------------------------
\* A small instance of WorkerPool for TLC.
EXTENDS WorkerPool

CONSTANTS j1, x, w1, w2

NoFloor == [j \in Projects |-> 0]
OneEach == [j \in Projects |-> 1]
=============================================================================
