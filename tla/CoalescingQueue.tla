-------------------------- MODULE CoalescingQueue --------------------------
(***************************************************************************)
(* What the task queue of the controller promises: requests for a key are  *)
(* collected until its synchronisation starts, at most one synchronisation *)
(* runs at a time, a request made while one runs is not merged into it,    *)
(* and every key asked for is synchronised unless the queue is ended.      *)
(***************************************************************************)
CONSTANTS Keys, None

VARIABLES
  wanted,    \* keys asked for whose synchronisation has not started
  running,   \* the key being synchronised, or None
  open,      \* requests are accepted
  active     \* synchronisations are started

cqVars == <<wanted, running, open, active>>

CQInit ==
  /\ wanted = {}
  /\ running = None
  /\ open = TRUE
  /\ active = TRUE

Request(k) ==
  /\ open
  /\ wanted' = wanted \cup {k}
  /\ UNCHANGED <<running, open, active>>

Start(k) ==
  /\ active
  /\ running = None
  /\ k \in wanted
  /\ wanted' = wanted \ {k}
  /\ running' = k
  /\ UNCHANGED <<open, active>>

Finish ==
  /\ running # None
  /\ running' = None
  /\ UNCHANGED <<wanted, open, active>>

Seal ==
  /\ open' = FALSE
  /\ UNCHANGED <<wanted, running, active>>

End ==
  /\ running = None
  /\ active' = FALSE
  /\ open' = FALSE
  /\ UNCHANGED <<wanted, running>>

CQNext == (\E k \in Keys : Request(k) \/ Start(k)) \/ Finish \/ Seal \/ End

CQSafeSpec == CQInit /\ [][CQNext]_cqVars

CQSpec == CQSafeSpec /\ WF_cqVars(Finish) /\ \A k \in Keys : SF_cqVars(Start(k))
=============================================================================
