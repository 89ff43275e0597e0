---------------------------- MODULE MCWorkspace ----------------------------
(* Instances of ClientWorkspace: the sessions are interchangeable. *)
EXTENDS ClientWorkspace, TLC

CONSTANTS x, y, z

TabSymmetry == Permutations(Tabs)
=============================================================================
