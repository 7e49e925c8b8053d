--------------------------- MODULE MCDrainEvents ---------------------------
(***************************************************************************)
(* An instance of DrainEvents: two events about one endpoint, each of      *)
(* which may or may not come.                                              *)
(***************************************************************************)
EXTENDS DrainEvents

CONSTANTS e1, e2, tA

SameTarget == [e \in Events |-> tA]
=============================================================================
