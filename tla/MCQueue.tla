------------------------------ MODULE MCQueue ------------------------------
\* Small instances of WorkItemQueue for TLC.
EXTENDS WorkItemRefinement

CONSTANTS r1, a, b, d, f, w1, w2, op1

\* w1 takes every item, w2 carries the label of a only.
ServesAll  == [w \in Workers |-> Items]
ServesSome == [w \in Workers |-> IF w = w1 THEN Items ELSE {a}]

\* One run: a and b are independent, d depends on both; f is the follow-up of
\* a steer.
DiamondRunOf   == [i \in Items |-> r1]
DiamondPrereqs == [i \in Items |-> IF i = d THEN {a, b} ELSE {}]
=============================================================================
