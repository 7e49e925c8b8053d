------------------------- MODULE MCDrainCompletion -------------------------
(***************************************************************************)
(* An instance of DrainCompletion: two events about one endpoint with one  *)
(* session, of which the second has a timeout that cannot be parsed, and   *)
(* two processes of HAProxy, so that a drain may begin with an older       *)
(* process around or see a reload.                                         *)
(***************************************************************************)
EXTENDS DrainCompletion

CONSTANTS e1, e2, s1, tA

SameTarget == [e \in Events |-> tA]
SameEndpoint == [s \in Sessions |-> tA]
=============================================================================
