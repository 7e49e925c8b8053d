-------------------------- MODULE MCControllerSync --------------------------
(***************************************************************************)
(* An instance of ControllerSync.  A goroutine that retries is reused when *)
(* it has ended; while it sleeps no other reconciliation fails.            *)
(***************************************************************************)
EXTENDS ControllerSync

CONSTANT r1

OneRetrier == {"metadata", "certs", r1}
=============================================================================
