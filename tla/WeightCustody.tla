---------------------------- MODULE WeightCustody ----------------------------
(***************************************************************************)
(* What draining promises about the weights of HAProxy's servers.  A       *)
(* server is set to zero only while its endpoint is drained, and its       *)
(* weight is taken into custody then: the weight the drain found, or the   *)
(* one an earlier drain did, if that is still kept.  As long as the zero   *)
(* is the controller's, custody ends only when nobody wants a weight of    *)
(* the controller any more.  A weight is given back after the drain, over  *)
(* what was found to be a zero or the weight the process started with, and *)
(* is the one in custody, or the one asked for now if that was edited.     *)
(***************************************************************************)
CONSTANTS Backends, Endpoints, Weights, None

Keys == Backends \X Endpoints

\* barred: not there, or under an operator's maintenance.
States == [weight : Weights, initial : Weights, barred : BOOLEAN]

VARIABLES
  server,    \* the servers of the running process
  asked,     \* weights of the latest configuration; 0: none for now, None: none
  draining,  \* endpoints being drained
  found,     \* what an operation has read and not acted on yet, or None
  custody,   \* weight and initial weight when it was taken, or None
  zeros      \* servers whose weight is a zero of the controller

wcVars == <<server, asked, draining, found, custody, zeros>>

Nothing == [k \in Keys |-> None]

WCInit ==
  /\ server \in [Keys -> States]
  /\ asked = Nothing
  /\ draining = {}
  /\ found = Nothing
  /\ custody = Nothing
  /\ zeros = {}

-----------------------------------------------------------------------------
(* The environment.                                                        *)

\* An operator, a health check or the resolver changes a server.
ServerChanges(k) ==
  /\ UNCHANGED <<asked, draining, found, custody>>
  /\ LET s == server'[k] IN
     /\ s \in States
     /\ s.initial = server[k].initial
     /\ server' = [server EXCEPT ![k] = s]
  /\ zeros' = IF server'[k].weight = server[k].weight THEN zeros ELSE zeros \ {k}

NewProcess ==
  /\ zeros' = {}
  /\ server' \in [Keys -> States]

Reload == NewProcess /\ UNCHANGED <<asked, draining, found, custody>>

\* Controller and HAProxy start again, and nothing is known of custody.
Restart ==
  /\ NewProcess
  /\ asked' = Nothing
  /\ draining' = {}
  /\ found' = Nothing
  /\ custody' = Nothing

Ask ==
  /\ asked' \in [Keys -> Weights \cup {None}]
  /\ UNCHANGED <<server, draining, found, custody, zeros>>

-----------------------------------------------------------------------------
(* Drains and recoveries.                                                  *)

Look(ks) == found' = [k \in Keys |-> IF k \in ks THEN server[k] ELSE None]

BeginDrain(e) ==
  /\ e \notin draining
  /\ draining' = draining \cup {e}
  /\ \E ks \in SUBSET {k \in Keys : k[2] = e /\ server[k].weight # 0 /\ ~server[k].barred} :
       Look(ks)
  /\ UNCHANGED <<server, asked, custody, zeros>>

EndDrain(e) ==
  /\ e \in draining
  /\ draining' = draining \ {e}
  /\ UNCHANGED <<server, asked, found, custody, zeros>>

BeginRecovery ==
  /\ Look({k \in Keys : custody[k] # None})
  /\ UNCHANGED <<server, asked, draining, custody, zeros>>

Held(k) == custody[k] # None
Draining(k) == k[2] \in draining
PutAside(k) == found' = [found EXCEPT ![k] = None]

PassBy(k) ==
  /\ found[k] # None
  /\ PutAside(k)
  /\ UNCHANGED <<server, asked, draining, custody, zeros>>

\* The command may be lost; when it is answered it is still to be verified.
Take(k) ==
  /\ found[k] # None
  /\ Draining(k)
  /\ custody' =
       [custody EXCEPT ![k] =
          IF @ = None THEN [weight |-> found[k].weight, initial |-> found[k].initial] ELSE @]
  /\ \/ server' = [server EXCEPT ![k].weight = 0] /\ zeros' = zeros \cup {k}
     \/ UNCHANGED <<server, zeros>>
  /\ PutAside(k) \/ UNCHANGED found
  /\ UNCHANGED <<asked, draining>>

\* An edit of the configured weight supersedes the weight in custody.
Due(k) == IF asked[k] # custody[k].initial THEN asked[k] ELSE custody[k].weight

GiveBack(k) ==
  /\ found[k] # None /\ ~found[k].barred
  /\ Held(k) /\ ~Draining(k)
  /\ asked[k] \notin {0, None}
  /\ found[k].weight \in {0, found[k].initial}
  /\ server' = [server EXCEPT ![k].weight = Due(k)]
  /\ zeros' = zeros \ {k}
  /\ PutAside(k) \/ UNCHANGED found
  /\ UNCHANGED <<asked, draining, custody>>

\* There is no zero of the controller, or none any more.
LetGo(k) ==
  /\ found[k] # None
  /\ k \notin zeros
  /\ custody' = [custody EXCEPT ![k] = None]
  /\ PutAside(k)
  /\ UNCHANGED <<server, asked, draining, zeros>>

\* A zero that is there stays, as the configuration's or the operator's.
Forfeit(k) ==
  /\ found[k] # None
  /\ asked[k] = None \/ found[k].barred
  /\ custody' = [custody EXCEPT ![k] = None]
  /\ zeros' = zeros \ {k}
  /\ PutAside(k)
  /\ UNCHANGED <<server, asked, draining>>

WCNext ==
  \/ Reload \/ Restart \/ Ask \/ BeginRecovery
  \/ \E e \in Endpoints : BeginDrain(e) \/ EndDrain(e)
  \/ \E k \in Keys :
       \/ ServerChanges(k)
       \/ PassBy(k) \/ Take(k) \/ GiveBack(k) \/ LetGo(k) \/ Forfeit(k)

WCSpec == WCInit /\ [][WCNext]_wcVars
=============================================================================
