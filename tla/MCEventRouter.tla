--------------------------- MODULE MCEventRouter ---------------------------
(***************************************************************************)
(* An instance of EventRouter: a pool of one worker and two events are     *)
(* enough to fill it; with two connections, goroutines of the first may    *)
(* still be there when the second is made.                                 *)
(***************************************************************************)
EXTENDS EventRouter
=============================================================================
