------------------------------- MODULE MCFeed -------------------------------
(* Instances of ClientFeed. *)
EXTENDS ClientFeed

CONSTANTS x, y
=============================================================================
