----------------------------- MODULE MCDecisions -----------------------------
\* A small instance of RunDecisions for TLC: b depends on a, f is a follow-up.
EXTENDS RunDecisions

CONSTANTS r1, a, b, f, w1, w2, op1

ChainRunOf   == [i \in Items |-> r1]
ChainPrereqs == [i \in Items |-> IF i = b THEN {a} ELSE {}]
ServesAll    == [w \in Workers |-> Items]
=============================================================================
