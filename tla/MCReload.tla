------------------------------ MODULE MCReload ------------------------------
(***************************************************************************)
(* An instance of Reload: one configuration that HAProxy accepts, one that *)
(* it refuses, and a certificate that either may go with.                  *)
(***************************************************************************)
EXTENDS Reload

CONSTANTS good, bad, x, pem

MCInputs == [cfg : Configs, certs : SUBSET Certs]
MCAccepted == {f \in MCInputs : f.cfg = good}
=============================================================================
