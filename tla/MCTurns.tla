------------------------------ MODULE MCTurns ------------------------------
(***************************************************************************)
(* Instances of ClientTurns.  Command ids are fresh UUIDs, so it is enough *)
(* to follow the behaviours that draw them in one order; this takes the    *)
(* place of symmetry, which is unsound with liveness properties.           *)
(***************************************************************************)
EXTENDS ClientTurns

CONSTANTS t1, t2, c1, c2, c3, d1, d2

DrawnInOrder(ids) ==
    \A i \in DOMAIN ids : \A j \in 1..i :
        {ids[i], ids[j]} \subseteq Requests /\ outbound[ids[i]] # None => outbound[ids[j]] # None

IdsInOrder == DrawnInOrder(<<c1, c2, c3>>) /\ DrawnInOrder(<<d1, d2>>)

\* Three messages and a decision, or two messages and two decisions.
FourRequests == IdsInOrder /\ Cardinality({r \in Requests : outbound[r] # None}) <= 4
=============================================================================
