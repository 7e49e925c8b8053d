----------------------- MODULE MCCertificateDelivery -----------------------
(***************************************************************************)
(* An instance of CertificateDelivery: one certificate, one default        *)
(* certificate, two issues of each, and rules with which HAProxy uses the  *)
(* certificates, with which it does not, and which it refuses.             *)
(***************************************************************************)
EXTENDS CertificateDelivery

CONSTANTS http, https, bad, s, d

MCPems == [Files -> Issues]
MCConfigs == [rules : Rules, default : DefaultSubdirs \cup {Missing}]
MCInputs == [cfg : MCConfigs, certs : SUBSET Certs]

\* A key belongs to the certificate of the same issue.
MCAccepted ==
  {f \in MCInputs :
     \/ f.cfg.rules = http
     \/ f.cfg.rules = https /\ \A x \in f.certs : x.pem["cert"] = x.pem["key"]}

\* Both certificates are there when the controller is first started.
MCInit == DeliveryInit /\ rules = https /\ disk = [e \in Subdirs |-> [f \in Files |-> 1]]
MCSpec == MCInit /\ [][DeliveryNext]_deliveryVars /\ DeliveryFairness
=============================================================================
