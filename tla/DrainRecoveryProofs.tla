------------------------ MODULE DrainRecoveryProofs -------------------------
(***************************************************************************)
(* DrainRecovery keeps its types and never forgets a zero it wrote, for    *)
(* every set of backends, endpoints and configurations.  What a weight is  *)
(* given back over, and which weight that is, are two action properties:   *)
(* they rest on the same invariant and on two more facts, where a record's *)
(* binding to the running process comes from, and which configuration an   *)
(* unblocked recovery works with.  Together these make every step one of   *)
(* WeightCustody.                                                          *)
(***************************************************************************)
EXTENDS DrainRecovery, TLAPS

-----------------------------------------------------------------------------
(* Types, and the record of what was written.                              *)

\* What the operation that holds the lock may rely on.
OperationInv ==
  /\ holder \in {"apply", "recover"} => lbConfig # None
  /\ holder = "drain" => ep # None
  /\ holder = "reconcile" => desired # None
  /\ holder \notin {"drain", "reconcile"} =>
       cmd = None /\ \A k \in Keys : snap[k] = None
  /\ cmd # None =>
       /\ snap[cmd.key] # None
       /\ weights[cmd.key] # None
       /\ holder = "reconcile" /\ ~Active(cmd.key) => cmd.weight # 0

\* Servers still to be looked at: a drain reads only servers with a weight, a
\* reconciliation only owned ones, and a zero of the controller it finds later
\* was there when the states were read.
PendingInv(k) ==
  snap[k] # None =>
    /\ holder = "drain" => snap[k].weight # 0
    /\ holder = "reconcile" =>
         /\ weights[k] # None
         /\ (cmd = None \/ cmd.key # k) =>
              (writer[k] = "controller" /\ srv[k].weight = 0 => snap[k].weight = 0)

\* The server-wise part of ZeroIsOwned, strengthened.
OwnerInv(k) ==
  /\ weights[k] # None => weights[k].weight # 0
  /\ writer[k] = "controller" /\ srv[k].weight = 0 =>
       weights[k] # None /\ weights[k].pid = pid

IInv ==
  /\ TypeOK
  /\ OperationInv
  /\ \A k \in Keys : PendingInv(k) /\ OwnerInv(k)

\* A configuration line, or none, makes a server state (server lines of haproxy.cfg).
LEMMA ServerOfType ==
  ASSUME NEW t \in Targets \cup {None}
  PROVE  ServerOf(t) \in Servers /\ ServerOf(None) \in Servers
BY WeightAssumption DEF ServerOf, Servers, Targets, Weights

\* IInv holds when the controller starts (init of package haproxy).
LEMMA InitIInv == Init => IInv
<1> SUFFICES ASSUME Init PROVE IInv
  OBVIOUS
<1>1. ServerOf(None) \in Servers
  BY ServerOfType
<1>2. ProcessType
  <2>1. pid \in 0..MaxPid
    BY BoundAssumption DEF Init
  <2> QED
    BY <1>1, <2>1 DEF Init, ProcessType
<1>3. ManagerType
  BY DEF Init, ManagerType
<1>4. OperationType
  BY DEF Init, OperationType
<1>5. HistoryType
  BY DEF Init, HistoryType
<1>6. OperationInv
  BY DEF Init, OperationInv
<1>7. \A k \in Keys : PendingInv(k) /\ OwnerInv(k)
  BY DEF Init, PendingInv, OwnerInv
<1> QED
  BY <1>2, <1>3, <1>4, <1>5, <1>6, <1>7 DEF IInv, TypeOK

-----------------------------------------------------------------------------
(* HAProxy, its operator, its health checks and its resolver.              *)

\* Operators, health checks and the resolver keep IInv.
LEMMA EnvironmentStep ==
  ASSUME IInv, Environment
  PROVE  IInv'
<1>1. PICK k \in Keys :
        \/ \E w \in OperatorWeights : OperatorSetsWeight(k, w)
        \/ \E a \in {"none", "transient", "operator"} : AdminStateChanges(k, a)
        \/ HealthChanges(k)
  BY DEF Environment
<1>2. /\ k \in Keys /\ srv[k] \in Servers
      /\ UNCHANGED <<pid, alive, file, manager, operation, claimed>>
  BY <1>1 DEF IInv, TypeOK, ProcessType, OperatorSetsWeight, AdminStateChanges,
              HealthChanges, history
<1>3. CASE \E w \in OperatorWeights : OperatorSetsWeight(k, w)
  <2>1. PICK w \in OperatorWeights : OperatorSetsWeight(k, w)
    BY <1>3
  <2>2. /\ srv' = [srv EXCEPT ![k].weight = w]
        /\ writer' = [writer EXCEPT ![k] = "operator"]
        /\ w \in Weights
    BY <2>1, OperatorAssumption DEF OperatorSetsWeight
  <2>3. [srv[k] EXCEPT !.weight = w] \in Servers
    BY <1>2, <2>2 DEF Servers
  <2>4. ProcessType'
    BY <1>2, <2>2, <2>3 DEF IInv, TypeOK, ProcessType
  <2>5. ManagerType' /\ OperationType' /\ HistoryType'
    BY <1>2, <2>2 DEF IInv, TypeOK, ManagerType, OperationType, HistoryType,
                      manager, operation
  <2>6. OperationInv'
    BY <1>2 DEF IInv, OperationInv, Active, manager, operation
  <2>7. \A j \in Keys : PendingInv(j)' /\ OwnerInv(j)'
    BY <1>2, <2>2 DEF IInv, TypeOK, ProcessType, HistoryType, PendingInv, OwnerInv,
                      manager, operation
  <2> QED
    BY <2>4, <2>5, <2>6, <2>7 DEF IInv, TypeOK
<1>4. CASE \/ \E a \in {"none", "transient", "operator"} : AdminStateChanges(k, a)
           \/ HealthChanges(k)
  <2>1. PICK s \in Servers : s.weight = srv[k].weight /\ srv' = [srv EXCEPT ![k] = s]
    <3>1. CASE \E a \in {"none", "transient", "operator"} : AdminStateChanges(k, a)
      BY <1>2, <3>1 DEF AdminStateChanges, Servers
    <3>2. CASE HealthChanges(k)
      BY <1>2, <3>2 DEF HealthChanges, Servers
    <3> QED
      BY <1>4, <3>1, <3>2
  <2>2. writer' = writer
    BY <1>4 DEF AdminStateChanges, HealthChanges, history
  <2>3. TypeOK'
    BY <1>2, <2>1, <2>2 DEF IInv, TypeOK, ProcessType, ManagerType, OperationType,
                            HistoryType, manager, operation
  <2>4. OperationInv'
    BY <1>2 DEF IInv, OperationInv, Active, manager, operation
  <2>5. \A j \in Keys : PendingInv(j)' /\ OwnerInv(j)'
    BY <1>2, <2>1, <2>2 DEF IInv, TypeOK, ProcessType, HistoryType, PendingInv, OwnerInv,
                      manager, operation
  <2> QED
    BY <2>3, <2>4, <2>5 DEF IInv
<1> QED
  BY <1>1, <1>3, <1>4

-----------------------------------------------------------------------------
(* New HAProxy processes.                                                  *)

\* A started process has the type of a process and no zero of the controller.
LEMMA NewProcessStep ==
  ASSUME ProcessType, NEW cfg \in Configs, NewProcess(cfg)
  PROVE  /\ pid' \in 0..MaxPid /\ alive' \in BOOLEAN
         /\ srv' \in [Keys -> Servers]
         /\ HistoryType'
         /\ writer' = [k \in Keys |-> "config"]
<1>1. pid' \in 0..MaxPid
  BY BoundAssumption DEF ProcessType, NewProcess
<1>2. \A k \in Keys : ServerOf(cfg[k]) \in Servers
  BY ServerOfType, ConfigAssumption
<1>3. srv' \in [Keys -> Servers]
  BY <1>2 DEF NewProcess
<1> QED
  BY <1>1, <1>3 DEF NewProcess, HistoryType

\* A restart of the container (Run, StartHaproxy) keeps IInv.
LEMMA RestartStep ==
  ASSUME IInv, Restart
  PROVE  IInv'
<1>1. /\ pid' \in 0..MaxPid /\ alive' \in BOOLEAN
      /\ srv' \in [Keys -> Servers]
      /\ HistoryType'
      /\ writer' = [k \in Keys |-> "config"]
  <2>1. CASE file # None /\ NewProcess(file)
    BY <2>1, NewProcessStep DEF IInv, TypeOK, ProcessType
  <2>2. CASE NoProcess
    <3>1. ServerOf(None) \in Servers
      BY ServerOfType
    <3> QED
      BY <2>2, <3>1 DEF NoProcess, IInv, TypeOK, ProcessType, HistoryType
  <2> QED
    BY <2>1, <2>2 DEF Restart
<1>2. ProcessType'
  BY <1>1 DEF Restart, IInv, TypeOK, ProcessType
<1>3. ManagerType'
  BY DEF Restart, FreshController, ManagerType
<1>4. OperationType'
  BY DEF Restart, FreshController, OperationType
<1>5. OperationInv'
  BY DEF Restart, FreshController, OperationInv
<1>6. \A k \in Keys : PendingInv(k)' /\ OwnerInv(k)'
  BY <1>1 DEF Restart, FreshController, PendingInv, OwnerInv
<1> QED
  BY <1>1, <1>2, <1>3, <1>4, <1>5, <1>6 DEF IInv, TypeOK

-----------------------------------------------------------------------------
(* ApplyConfig.                                                            *)

\* Every step of applyHaproxyConfig keeps IInv.
LEMMA ApplyConfigStep ==
  ASSUME IInv, ApplyConfig
  PROVE  IInv'
<1>1. CASE \E cfg \in Configs : StartApply(cfg)
  <2>1. PICK cfg \in Configs : StartApply(cfg)
    BY <1>1
  <2>2. cfg # None
    BY ConfigAssumption, NoneAssumption
  <2>3. TypeOK'
    BY <2>1 DEF IInv, TypeOK, ProcessType, ManagerType, OperationType, HistoryType,
                StartApply, process, history
  <2>4. OperationInv'
    BY <2>1, <2>2 DEF IInv, OperationInv, StartApply
  <2>5. \A k \in Keys : PendingInv(k)' /\ OwnerInv(k)'
    BY <2>1 DEF IInv, OperationInv, PendingInv, OwnerInv, StartApply, process, history
  <2> QED
    BY <2>3, <2>4, <2>5 DEF IInv
<1>2. CASE WriteFails
  <2>1. TypeOK'
    BY <1>2 DEF IInv, TypeOK, ProcessType, ManagerType, OperationType, HistoryType,
                WriteFails, process, manager, history
  <2>2. OperationInv'
    BY <1>2 DEF IInv, OperationInv, WriteFails, manager
  <2>3. \A k \in Keys : PendingInv(k)' /\ OwnerInv(k)'
    BY <1>2 DEF IInv, OperationInv, PendingInv, OwnerInv, WriteFails, process, manager, history
  <2> QED
    BY <2>1, <2>2, <2>3 DEF IInv
<1>3. CASE ReloadFails
  <2>1. lbConfig # None
    BY <1>3 DEF IInv, OperationInv, ReloadFails
  <2>2. TypeOK'
    BY <1>3, <2>1 DEF IInv, TypeOK, ProcessType, ManagerType, OperationType, HistoryType,
                ReloadFails, manager, history
  <2>3. OperationInv'
    BY <1>3 DEF IInv, OperationInv, ReloadFails, manager
  <2>4. \A k \in Keys : PendingInv(k)' /\ OwnerInv(k)'
    BY <1>3 DEF IInv, OperationInv, PendingInv, OwnerInv, ReloadFails, manager, history
  <2> QED
    BY <2>2, <2>3, <2>4 DEF IInv
<1>4. CASE ReloadSkipped \/ ReloadStarts
  <2>1. holder = "apply" /\ lbConfig # None /\ PublishDesired
    BY <1>4 DEF IInv, OperationInv, ReloadSkipped, ReloadStarts
  <2>2. ManagerType' /\ OperationType'
    BY <2>1 DEF IInv, TypeOK, ManagerType, OperationType, PublishDesired
  <2>3. OperationInv'
    BY <2>1 DEF IInv, OperationInv, PublishDesired
  <2>4. \A k \in Keys : PendingInv(k)'
    BY <2>1 DEF IInv, OperationInv, PendingInv, PublishDesired
  <2>5. CASE ReloadSkipped
    <3>1. ProcessType' /\ HistoryType'
      BY <2>5 DEF IInv, TypeOK, ProcessType, HistoryType, ReloadSkipped, process, history
    <3>2. \A k \in Keys : OwnerInv(k)'
      BY <2>1, <2>5 DEF IInv, OwnerInv, ReloadSkipped, PublishDesired, process, history
    <3> QED
      BY <2>2, <2>3, <2>4, <3>1, <3>2 DEF IInv, TypeOK
  <2>6. CASE ReloadStarts
    <3>1. lbConfig \in Configs
      BY <2>1 DEF IInv, TypeOK, OperationType
    <3>2. /\ pid' \in 0..MaxPid /\ alive' \in BOOLEAN
          /\ srv' \in [Keys -> Servers]
          /\ HistoryType'
          /\ writer' = [k \in Keys |-> "config"]
      BY <2>6, <3>1, NewProcessStep DEF ReloadStarts, IInv, TypeOK
    <3>3. ProcessType'
      BY <2>6, <3>1, <3>2 DEF ProcessType, ReloadStarts
    <3>4. \A k \in Keys : OwnerInv(k)'
      BY <2>1, <3>2 DEF IInv, OwnerInv, PublishDesired
    <3> QED
      BY <2>2, <2>3, <2>4, <3>2, <3>3, <3>4 DEF IInv, TypeOK
  <2> QED
    BY <1>4, <2>5, <2>6
<1> QED
  BY <1>1, <1>2, <1>3, <1>4 DEF ApplyConfig

-----------------------------------------------------------------------------
(* Socket commands.                                                        *)

\* A weight change may be sent for a server that is owned with a weight to go
\* back to; a zero only for one bound to the running process.
LEMMA IssueStep ==
  ASSUME IInv, NEW k \in Keys, NEW w \in Weights, NEW o \in Ownership,
         holder \in {"drain", "reconcile"}, cmd = None, snap[k] # None,
         o.weight # 0,
         w = 0 => o.pid = pid,
         w # 0 => o = weights[k],
         holder = "reconcile" /\ ~Active(k) => w # 0,
         weights' = [weights EXCEPT ![k] = o],
         UNCHANGED <<drainList, desired, recoveryBlocked>>,
         Issue(k, w)
  PROVE  IInv'
<1> USE DEF Issue, Deliver, CommandFails, Done
<1>1. /\ UNCHANGED <<pid, alive, file, holder, lbConfig, ep>>
      /\ claimed' \subseteq Keys
  BY DEF IInv, TypeOK, HistoryType
<1>2. \/ /\ srv' = [srv EXCEPT ![k].weight = w]
         /\ writer' = [writer EXCEPT ![k] = "controller"]
      \/ UNCHANGED <<srv, writer>>
  OBVIOUS
<1>3. \/ cmd' = [key |-> k, weight |-> w] /\ snap' = snap /\ failed' = failed
      \/ cmd' = None /\ snap' = [snap EXCEPT ![k] = None] /\ failed' = (holder = "drain")
  OBVIOUS
<1> USE DEF Issue
<1>4. ProcessType' /\ HistoryType'
  <2>1. [srv[k] EXCEPT !.weight = w] \in Servers
    BY DEF IInv, TypeOK, ProcessType, Servers
  <2> QED
    BY <1>1, <1>2, <2>1 DEF IInv, TypeOK, ProcessType, HistoryType
<1>5. ManagerType'
  BY DEF IInv, TypeOK, ManagerType
<1>6. OperationType'
  <2>1. failed' \in BOOLEAN
    BY <1>3 DEF IInv, TypeOK, OperationType
  <2> QED
    BY <1>1, <1>3, <2>1 DEF IInv, TypeOK, OperationType
<1>7. OperationInv'
  <2>1. weights'[k] # None
    BY NoneAssumption DEF IInv, TypeOK, ManagerType
  <2> QED
    BY <1>1, <1>3, <2>1 DEF IInv, TypeOK, OperationType, OperationInv, Active
<1>8. ASSUME NEW j \in Keys PROVE PendingInv(j)'
  <2>1. CASE j = k
    BY <1>1, <1>3, <2>1, NoneAssumption
       DEF IInv, TypeOK, ManagerType, OperationType, PendingInv
  <2>2. CASE j # k
    BY <1>1, <1>2, <1>3, <2>2
       DEF IInv, TypeOK, ProcessType, ManagerType, OperationType, HistoryType, PendingInv
  <2> QED
    BY <2>1, <2>2
<1>9. ASSUME NEW j \in Keys PROVE OwnerInv(j)'
  <2>1. CASE j = k
    <3>1. weights'[k] = o /\ o # None
      BY NoneAssumption DEF IInv, TypeOK, ManagerType
    <3>2. CASE w = 0
      BY <1>1, <2>1, <3>1, <3>2 DEF OwnerInv
    <3>3. CASE w # 0
      BY <1>1, <1>2, <2>1, <3>1, <3>3 DEF IInv, TypeOK, ProcessType, Servers, OwnerInv
    <3> QED
      BY <3>2, <3>3
  <2>2. CASE j # k
    BY <1>1, <1>2, <2>2 DEF IInv, TypeOK, ProcessType, ManagerType, HistoryType, OwnerInv
  <2> QED
    BY <2>1, <2>2
<1> QED
  BY <1>4, <1>5, <1>6, <1>7, <1>8, <1>9 DEF IInv, TypeOK

\* The readback of setWeightVerified keeps IInv, whatever it shows.
LEMMA VerifyStep ==
  ASSUME IInv, Verify
  PROVE  IInv'
<1> DEFINE k == cmd.key
<1>1. cmd # None /\ k \in Keys /\ cmd.weight \in Weights
  BY DEF Verify, VerifySucceeds, VerifyFails, IInv, TypeOK, OperationType
<1>2. /\ holder \in {"drain", "reconcile"}
      /\ snap[k] # None /\ weights[k] \in Ownership
  BY <1>1 DEF IInv, TypeOK, OperationInv, ManagerType, OperationType
<1>3. /\ cmd' = None
      /\ snap' = [snap EXCEPT ![k] = None]
      /\ UNCHANGED <<process, drainList, desired, recoveryBlocked, holder, lbConfig, ep, history>>
  BY DEF Verify, VerifySucceeds, VerifyFails, CommandFails, Done, manager
<1>4. \/ weights' = weights
      \/ weights' = [weights EXCEPT ![k] = [weights[k] EXCEPT !.retry = FALSE]]
      \/ /\ weights' = [weights EXCEPT ![k] = None]
         /\ holder = "reconcile" /\ ~Active(k) /\ srv[k].weight = cmd.weight
  BY <1>2 DEF Verify, VerifySucceeds, VerifyFails, manager
<1>5. [weights[k] EXCEPT !.retry = FALSE] \in Ownership
  BY <1>2 DEF Ownership
<1>6. failed' \in BOOLEAN
  BY DEF Verify, VerifySucceeds, VerifyFails, CommandFails, IInv, TypeOK, OperationType
<1>7. TypeOK'
  BY <1>1, <1>3, <1>4, <1>5, <1>6
     DEF IInv, TypeOK, ProcessType, ManagerType, OperationType, HistoryType, process, history
<1>8. OperationInv'
  BY <1>2, <1>3 DEF IInv, OperationInv
<1>9. ASSUME NEW j \in Keys PROVE PendingInv(j)' /\ OwnerInv(j)'
  <2>1. CASE j = k
    <3>1. PendingInv(j)'
      BY <1>1, <1>3, <2>1 DEF IInv, TypeOK, OperationType, PendingInv
    <3>2. OwnerInv(j)'
      <4>1. CASE weights' = [weights EXCEPT ![k] = None]
                 /\ holder = "reconcile" /\ ~Active(k) /\ srv[k].weight = cmd.weight
        BY <1>1, <1>3, <2>1, <4>1
           DEF IInv, TypeOK, ManagerType, OperationInv, OwnerInv, process, history
      <4>2. CASE weights' = [weights EXCEPT ![k] = [weights[k] EXCEPT !.retry = FALSE]]
        BY <1>1, <1>2, <1>3, <1>5, <2>1, <4>2, NoneAssumption
           DEF IInv, TypeOK, ManagerType, OwnerInv, Ownership, process, history
      <4>3. CASE weights' = weights
        BY <1>3, <4>3 DEF IInv, OwnerInv, process, history
      <4> QED
        BY <1>4, <4>1, <4>2, <4>3
    <3> QED
      BY <3>1, <3>2
  <2>2. CASE j # k
    <3>1. weights'[j] = weights[j] /\ snap'[j] = snap[j]
      BY <1>1, <1>3, <1>4, <2>2 DEF IInv, TypeOK, ManagerType, OperationType
    <3> QED
      BY <1>1, <1>3, <2>2, <3>1 DEF IInv, PendingInv, OwnerInv, process, history
  <2> QED
    BY <2>1, <2>2
<1> QED
  BY <1>7, <1>8, <1>9 DEF IInv

-----------------------------------------------------------------------------
(* DrainEndpoint and RemoveEndpointFromDrain.                              *)

\* drainEndpoint records an owner before it sends its zero.
LEMMA DrainServerStep ==
  ASSUME IInv, NEW k \in Keys, DrainServer(k)
  PROVE  IInv'
<1> DEFINE o == IF weights[k] = None
                THEN [weight |-> snap[k].weight, initialWeight |-> snap[k].initial,
                      pid |-> pid, stoppingReload |-> FALSE, retry |-> FALSE]
                ELSE [weights[k] EXCEPT !.pid = pid]
<1>1. holder = "drain" /\ cmd = None /\ snap[k] # None
  BY DEF DrainServer
<1>2. snap[k] \in Servers /\ snap[k].weight # 0 /\ pid \in Nat
  BY <1>1, BoundAssumption DEF IInv, TypeOK, ProcessType, OperationType, PendingInv
<1>3. o \in Ownership /\ o.weight # 0 /\ o.pid = pid
  <2>1. CASE weights[k] = None
    BY <1>2, <2>1 DEF Ownership, Servers
  <2>2. CASE weights[k] # None
    <3>1. weights[k] \in Ownership /\ weights[k].weight # 0
      BY <2>2 DEF IInv, TypeOK, ManagerType, OwnerInv
    <3> QED
      BY <1>2, <2>2, <3>1 DEF Ownership
  <2> QED
    BY <2>1, <2>2
<1>4. /\ weights' = [weights EXCEPT ![k] = o]
      /\ UNCHANGED <<drainList, desired, recoveryBlocked>>
      /\ Issue(k, 0)
  BY DEF DrainServer
<1>5. 0 \in Weights
  BY WeightAssumption DEF Weights
<1> HIDE DEF o
<1> QED
  BY <1>1, <1>3, <1>4, <1>5, IssueStep

\* DrainEndpoint and RemoveEndpointFromDrain keep IInv.
LEMMA DrainStep ==
  ASSUME IInv, Drain
  PROVE  IInv'
<1>1. ASSUME NEW e \in Endpoints, StartDrain(e) PROVE IInv'
  <2>1. e # None
    BY NoneAssumption
  <2>2. TypeOK'
    BY <1>1 DEF IInv, TypeOK, ProcessType, ManagerType, OperationType, HistoryType,
                StartDrain, process, manager, history
  <2>3. OperationInv'
    BY <1>1, <2>1 DEF IInv, OperationInv, StartDrain, manager
  <2>4. \A k \in Keys : PendingInv(k)'
    BY <1>1 DEF StartDrain, PendingInv
  <2>5. \A k \in Keys : OwnerInv(k)'
    BY <1>1 DEF IInv, OwnerInv, StartDrain, process, manager, history
  <2> QED
    BY <2>2, <2>3, <2>4, <2>5 DEF IInv
<1>2. ASSUME NEW e \in Endpoints, RemoveEndpointFromDrain(e) PROVE IInv'
  <2>1. TypeOK'
    BY <1>2 DEF IInv, TypeOK, ProcessType, ManagerType, OperationType, HistoryType,
                RemoveEndpointFromDrain, process, operation, history
  <2>2. OperationInv'
    BY <1>2 DEF IInv, OperationInv, RemoveEndpointFromDrain, operation
  <2>3. \A k \in Keys : PendingInv(k)' /\ OwnerInv(k)'
    BY <1>2 DEF IInv, PendingInv, OwnerInv, RemoveEndpointFromDrain, process, operation, history
  <2> QED
    BY <2>1, <2>2, <2>3 DEF IInv
<1>3. CASE FinishDrain
  <2>1. drainList' \subseteq Endpoints
    BY <1>3 DEF IInv, TypeOK, ManagerType, OperationType, OperationInv, FinishDrain
  <2>2. TypeOK'
    BY <1>3, <2>1 DEF IInv, TypeOK, ProcessType, ManagerType, OperationType, HistoryType,
                FinishDrain, process, history
  <2>3. OperationInv'
    BY <1>3 DEF IInv, OperationInv, FinishDrain, Pending
  <2>4. \A k \in Keys : PendingInv(k)' /\ OwnerInv(k)'
    BY <1>3 DEF IInv, PendingInv, OwnerInv, FinishDrain, process, history
  <2> QED
    BY <2>2, <2>3, <2>4 DEF IInv
<1> QED
  BY <1>1, <1>2, <1>3, DrainServerStep DEF Drain

-----------------------------------------------------------------------------
(* reconcileDrains.                                                        *)

\* Giving up the record of a server is sound if the server does not show a
\* zero of the controller, or if the zero is released first.
LEMMA RecordStep ==
  ASSUME IInv, NEW k \in Keys, NEW o \in Ownership \cup {None}, Turn(k),
         LeaveProcess, Done(k),
         weights' = [weights EXCEPT ![k] = o],
         \/ writer' = writer
         \/ writer' = [writer EXCEPT ![k] = IF @ = "controller" THEN "released" ELSE @],
         o # None => o.weight # 0,
         writer'[k] = "controller" /\ srv[k].weight = 0 => o # None /\ o.pid = pid
  PROVE  IInv'
<1>1. /\ holder = "reconcile" /\ cmd = None
      /\ snap' = [snap EXCEPT ![k] = None]
      /\ UNCHANGED <<process, drainList, desired, recoveryBlocked, holder,
                     lbConfig, ep, cmd, failed, claimed>>
  BY DEF Turn, LeaveProcess, Done
<1>2. writer' \in [Keys -> {"config", "controller", "operator", "released"}]
  BY DEF IInv, TypeOK, HistoryType
<1>3. TypeOK'
  BY <1>1, <1>2 DEF IInv, TypeOK, ProcessType, ManagerType, OperationType, HistoryType, process
<1>4. OperationInv'
  BY <1>1 DEF IInv, OperationInv
<1>5. ASSUME NEW j \in Keys PROVE PendingInv(j)' /\ OwnerInv(j)'
  <2>1. CASE j = k
    <3>1. PendingInv(j)'
      BY <1>1, <2>1 DEF IInv, TypeOK, OperationType, PendingInv
    <3>2. OwnerInv(j)'
      BY <1>1, <2>1 DEF IInv, TypeOK, ManagerType, OwnerInv, process
    <3> QED
      BY <3>1, <3>2
  <2>2. CASE j # k
    <3>1. weights'[j] = weights[j] /\ snap'[j] = snap[j] /\ writer'[j] = writer[j]
      BY <1>1, <2>2 DEF IInv, TypeOK, ManagerType, OperationType, HistoryType
    <3> QED
      BY <1>1, <3>1 DEF IInv, PendingInv, OwnerInv, process
  <2> QED
    BY <2>1, <2>2
<1> QED
  BY <1>3, <1>4, <1>5 DEF IInv

\* What the loop of reconcileDrains knows of the server whose turn it is.
LEMMA TurnFacts ==
  ASSUME IInv, NEW k \in Keys, Turn(k)
  PROVE  /\ holder = "reconcile" /\ cmd = None /\ snap[k] # None
         /\ snap[k] \in Servers
         /\ weights[k] \in Ownership /\ weights[k].weight # 0
         /\ desired \in Configs
         /\ pid \in Nat
         /\ writer[k] = "controller" /\ srv[k].weight = 0 =>
              snap[k].weight = 0 /\ weights[k].pid = pid
<1>1. holder = "reconcile" /\ cmd = None /\ snap[k] # None
  BY DEF Turn
<1>2. weights[k] # None /\ desired # None
  BY <1>1 DEF IInv, OperationInv, PendingInv
<1>3. snap[k] \in Servers /\ weights[k] \in Ownership /\ desired \in Configs
  BY <1>1, <1>2 DEF IInv, TypeOK, ManagerType, OperationType
<1>4. pid \in Nat
  BY BoundAssumption DEF IInv, TypeOK, ProcessType
<1> QED
  BY <1>1, <1>2, <1>3, <1>4 DEF IInv, PendingInv, OwnerInv

\* reconcileDrains keeps IInv where it leaves a server alone.
LEMMA KeepStep ==
  ASSUME IInv, NEW k \in Keys, Turn(k), Keep(k)
  PROVE  IInv'
<1>1. /\ Done(k) /\ LeaveProcess
      /\ weights' = [weights EXCEPT ![k] = weights[k]]
      /\ writer' = writer
  BY DEF Keep, IInv, TypeOK, ManagerType
<1>2. /\ weights[k] \in Ownership \cup {None}
      /\ weights[k].weight # 0
      /\ writer[k] = "controller" /\ srv[k].weight = 0 =>
           weights[k] # None /\ weights[k].pid = pid
  BY TurnFacts, NoneAssumption
<1> QED
  BY <1>1, <1>2, RecordStep

\* ... where it binds a record to another process,
LEMMA RebindStep ==
  ASSUME IInv, NEW k \in Keys, NEW o \in Ownership, Turn(k), Rebind(k, o),
         o.weight = weights[k].weight, o.pid \in {pid, weights[k].pid}
  PROVE  IInv'
<1>1. /\ Done(k) /\ LeaveProcess
      /\ weights' = [weights EXCEPT ![k] = o]
      /\ writer' = writer
  BY DEF Rebind
<1>2. o # None
  BY NoneAssumption
<1> QED
  BY <1>1, <1>2, TurnFacts, RecordStep

\* ... where it drops the record of a server that shows no zero of this process,
LEMMA ForgetStep ==
  ASSUME IInv, NEW k \in Keys, Turn(k), Forget(k),
         snap[k].weight # 0 \/ weights[k].pid # pid
  PROVE  IInv'
<1>1. /\ Done(k) /\ LeaveProcess
      /\ weights' = [weights EXCEPT ![k] = None]
      /\ writer' = writer
  BY DEF Forget, Rebind
<1> QED
  BY <1>1, TurnFacts, RecordStep

\* ... and where it drops the record of a server that is no longer eligible.
LEMMA ForfeitStep ==
  ASSUME IInv, NEW k \in Keys, Forfeit(k)
  PROVE  IInv'
<1>1. /\ Turn(k) /\ Done(k) /\ LeaveProcess
      /\ weights' = [weights EXCEPT ![k] = None]
      /\ writer' = [writer EXCEPT ![k] = IF @ = "controller" THEN "released" ELSE @]
  BY DEF Forfeit
<1>2. writer'[k] # "controller"
  BY <1>1 DEF IInv, TypeOK, HistoryType
<1> QED
  BY <1>1, <1>2, RecordStep

\* The branch of reconcileDrains for active drains keeps IInv.
LEMMA FollowActiveDrainStep ==
  ASSUME IInv, NEW k \in Keys, FollowActiveDrain(k)
  PROVE  IInv'
<1> USE DEF ActiveTurn, Settled, Replaced, BornStopping, MayReapply, SameProcess
<1>1. CASE AwaitResolution(k) \/ HoldDrain(k) \/ LeaveForeignZero(k) \/ AwaitAppliedConfig(k)
  BY <1>1, KeepStep DEF AwaitResolution, HoldDrain, LeaveForeignZero, AwaitAppliedConfig
<1>2. CASE YieldToOverride(k) \/ YieldToCustomWeight(k)
  BY <1>2, ForgetStep DEF YieldToOverride, YieldToCustomWeight
<1>3. CASE FollowStoppingReload(k)
  <2>1. Turn(k)
    BY <1>3 DEF FollowStoppingReload
  <2> DEFINE o == [weights[k] EXCEPT !.pid = pid, !.retry = FALSE, !.stoppingReload = TRUE]
  <2>2. o \in Ownership /\ o.weight = weights[k].weight /\ o.pid = pid
    BY <2>1, TurnFacts DEF Ownership
  <2>3. Rebind(k, o)
    BY <1>3 DEF FollowStoppingReload
  <2> QED
    BY <2>1, <2>2, <2>3, RebindStep
<1>4. CASE ReapplyConfirmed(k)
  <2>1. Turn(k)
    BY <1>4 DEF ReapplyConfirmed
  <2> DEFINE o == [weights[k] EXCEPT !.retry = FALSE]
  <2>2. o \in Ownership /\ o.weight = weights[k].weight /\ o.pid = weights[k].pid
    BY <2>1, TurnFacts DEF Ownership
  <2>3. Rebind(k, o)
    BY <1>4 DEF ReapplyConfirmed
  <2> QED
    BY <2>1, <2>2, <2>3, RebindStep
<1>5. CASE Reapply(k)
  <2>1. Turn(k) /\ Active(k)
    BY <1>5 DEF Reapply
  <2> DEFINE o == [weights[k] EXCEPT !.pid = pid, !.retry = TRUE]
  <2>2. o \in Ownership /\ o.weight # 0 /\ o.pid = pid
    BY <2>1, TurnFacts DEF Ownership
  <2>3. /\ Issue(k, 0)
        /\ UNCHANGED <<drainList, desired, recoveryBlocked>>
        /\ weights' = [weights EXCEPT ![k] = o]
    BY <1>5 DEF Reapply, IInv, TypeOK, ManagerType
  <2>4. 0 \in Weights
    BY WeightAssumption DEF Weights
  <2> HIDE DEF o
  <2> QED
    BY <2>1, <2>2, <2>3, <2>4, TurnFacts, IssueStep
<1> QED
  BY <1>1, <1>2, <1>3, <1>4, <1>5 DEF FollowActiveDrain

\* The branch of reconcileDrains for ended drains keeps IInv.
LEMMA RecoverEndedDrainStep ==
  ASSUME IInv, NEW k \in Keys, RecoverEndedDrain(k)
  PROVE  IInv'
<1>1. Turn(k) /\ ~Active(k) /\ Eligible(k)
  BY DEF RecoverEndedDrain, YieldToStoppingOverride, KeepThroughStopping,
         YieldToRuntimeWeight, ExpireOwnership, AwaitHealth, RestoreConfirmed,
         Restore, Recoverable, EndedTurn
<1>2. desired[k] \in Targets
  BY <1>1, TurnFacts, ConfigAssumption DEF Eligible
<1>3. ~StoppingZero(k) => RestoreWeight(k) \in Weights \ {0}
  BY <1>1, <1>2, TurnFacts DEF StoppingZero, Eligible, RestoreWeight, Targets, Ownership
<1>4. CASE YieldToStoppingOverride(k) \/ YieldToRuntimeWeight(k) \/ ExpireOwnership(k)
  BY <1>1, <1>4, ForgetStep
     DEF YieldToStoppingOverride, YieldToRuntimeWeight, ExpireOwnership, SameProcess
<1>5. CASE AwaitHealth(k)
  BY <1>1, <1>5, KeepStep DEF AwaitHealth
<1>6. CASE KeepThroughStopping(k)
  <2> DEFINE o == [weights[k] EXCEPT !.pid = pid, !.stoppingReload = TRUE]
  <2>1. o \in Ownership /\ o.weight = weights[k].weight /\ o.pid = pid
    BY <1>1, TurnFacts DEF Ownership
  <2>2. Rebind(k, o) \/ Keep(k)
    BY <1>6 DEF KeepThroughStopping
  <2> QED
    BY <1>1, <2>1, <2>2, RebindStep, KeepStep
<1>7. CASE RestoreConfirmed(k)
  <2>1. snap[k].weight # 0 /\ Forget(k)
    BY <1>3, <1>7 DEF RestoreConfirmed, Recoverable
  <2> QED
    BY <1>1, <2>1, ForgetStep
<1>8. CASE Restore(k)
  <2>1. RestoreWeight(k) \in Weights /\ RestoreWeight(k) # 0
    BY <1>3, <1>8 DEF Restore, Recoverable
  <2>2. /\ Issue(k, RestoreWeight(k))
        /\ weights' = [weights EXCEPT ![k] = weights[k]]
        /\ UNCHANGED <<drainList, desired, recoveryBlocked>>
    BY <1>8 DEF Restore, manager, IInv, TypeOK, ManagerType
  <2> QED
    BY <1>1, <2>1, <2>2, TurnFacts, IssueStep
<1> QED
  BY <1>4, <1>5, <1>6, <1>7, <1>8 DEF RecoverEndedDrain

\* Every step of reconcileDrains keeps IInv.
LEMMA ReconcileDrainsStep ==
  ASSUME IInv, ReconcileDrains
  PROVE  IInv'
<1>1. CASE BeginReconcile
  <2>1. TypeOK'
    BY <1>1 DEF IInv, TypeOK, ProcessType, ManagerType, OperationType, HistoryType,
                BeginReconcile, ReadOwned, process, manager
  <2>2. OperationInv'
    BY <1>1 DEF IInv, OperationInv, BeginReconcile, manager
  <2>3. \A k \in Keys : PendingInv(k)'
    BY <1>1 DEF BeginReconcile, ReadOwned, PendingInv, Owned, process, manager
  <2>4. \A k \in Keys : OwnerInv(k)'
    BY <1>1 DEF IInv, OwnerInv, BeginReconcile, process, manager
  <2> QED
    BY <2>1, <2>2, <2>3, <2>4 DEF IInv
<1>2. CASE SkipRecovery \/ EndReconcile
  <2>1. /\ holder' = "free"
        /\ cmd = None /\ \A k \in Keys : snap[k] = None
        /\ UNCHANGED <<process, manager, lbConfig, ep, snap, cmd, failed, history>>
    BY <1>2 DEF IInv, OperationInv, SkipRecovery, EndReconcile, Pending
  <2>2. TypeOK'
    BY <2>1 DEF IInv, TypeOK, ProcessType, ManagerType, OperationType, HistoryType,
                process, manager, history
  <2>3. OperationInv'
    BY <2>1 DEF IInv, OperationInv, manager
  <2>4. \A k \in Keys : PendingInv(k)' /\ OwnerInv(k)'
    BY <2>1 DEF IInv, PendingInv, OwnerInv, process, manager, history
  <2> QED
    BY <2>2, <2>3, <2>4 DEF IInv
<1> QED
  BY <1>1, <1>2, ForfeitStep, FollowActiveDrainStep, RecoverEndedDrainStep DEF ReconcileDrains

-----------------------------------------------------------------------------
(* The theorems.                                                           *)

\* IInv is inductive.
LEMMA NextIInv == IInv /\ [Next]_vars => IInv'
<1> SUFFICES ASSUME IInv, [Next]_vars PROVE IInv'
  OBVIOUS
<1>1. CASE UNCHANGED vars
  BY <1>1 DEF IInv, TypeOK, ProcessType, ManagerType, OperationType, HistoryType,
              OperationInv, PendingInv, OwnerInv, Active,
              vars, process, manager, operation, history
<1> QED
  BY <1>1, ApplyConfigStep, DrainStep, ReconcileDrainsStep, VerifyStep, EnvironmentStep,
     RestartStep DEF Next, Controller

\* IInv is an invariant of the drain recovery.
LEMMA Invariance == Spec => []IInv
BY InitIInv, NextIInv, PTL DEF Spec

\* Every variable keeps its type, for all backends, endpoints, weights,
\* configurations and bounds (drainMgr, Provider, drain_recovery.go).
THEOREM TypeCorrect == Spec => []TypeOK
<1>1. IInv => TypeOK
  BY DEF IInv
<1> QED
  BY <1>1, Invariance, PTL

\* reconcileDrains and drainEndpoint never lose the record of a zero they
\* wrote into the running HAProxy process, unless the server was forfeited to
\* the configuration or an operator.
THEOREM ZeroStaysOwned == Spec => []ZeroIsOwned
<1>1. IInv => ZeroIsOwned
  BY DEF IInv, OwnerInv, ZeroIsOwned
<1> QED
  BY <1>1, Invariance, PTL

-----------------------------------------------------------------------------
(* Giving weights back.                                                    *)

\* An operator's setting that reconcileDrains has read and not yet acted on.
OverrideSeen(k) ==
  /\ holder = "reconcile"
  /\ snap[k] # None
  /\ cmd = None \/ cmd.key # k
  /\ snap[k].admin = "operator" \/ (snap[k].admin = "none" /\ snap[k].weight # 0)

\* A record bound to the running process is there because this controller sent
\* it a zero and read no operator's setting since, or because the process was
\* started with one for a stopping target, or it is about to be dropped.  No
\* record is bound to a process that is yet to come.
OriginInv(k) ==
  weights[k] # None =>
    /\ weights[k].pid <= pid
    /\ weights[k].pid = pid =>
         \/ k \in claimed
         \/ weights[k].stoppingReload /\ srv[k].initial = 0
         \/ OverrideSeen(k)

\* The initial weight of a server does not change while its process runs.
SnapshotInv(k) ==
  holder = "reconcile" /\ snap[k] # None => snap[k].initial = srv[k].initial

\* Recovery that is not blocked works with the configuration passed last.
ConfigInv ==
  /\ ~recoveryBlocked => desired = lbConfig
  /\ holder = "apply" => recoveryBlocked
  /\ holder = "reconcile" => ~recoveryBlocked

OInv == IInv /\ ConfigInv /\ \A k \in Keys : OriginInv(k) /\ SnapshotInv(k)

\* Nothing is owned and nothing is applied when the controller starts.
LEMMA InitOInv == Init => OInv
BY InitIInv DEF Init, OInv, ConfigInv, OriginInv, SnapshotInv

\* The environment changes neither initial weights nor records.
LEMMA EnvironmentOrigin ==
  ASSUME OInv, IInv', Environment
  PROVE  OInv'
<1>1. PICK j \in Keys :
        \/ \E w \in OperatorWeights : OperatorSetsWeight(j, w)
        \/ \E a \in {"none", "transient", "operator"} : AdminStateChanges(j, a)
        \/ HealthChanges(j)
  BY DEF Environment
<1>2. UNCHANGED <<pid, alive, file, manager, operation, claimed>>
  BY <1>1 DEF OperatorSetsWeight, AdminStateChanges, HealthChanges, history
<1>3. \A k \in Keys : srv'[k].initial = srv[k].initial
  BY <1>1 DEF OperatorSetsWeight, AdminStateChanges, HealthChanges, OInv, IInv, TypeOK,
              ProcessType, Servers
<1> QED
  BY <1>2, <1>3 DEF OInv, ConfigInv, OriginInv, OverrideSeen, SnapshotInv, manager, operation

\* A restart forgets every record; a reload makes every record one of an
\* earlier process.
LEMMA ProcessOrigin ==
  ASSUME OInv, IInv', Restart \/ ApplyConfig
  PROVE  OInv'
<1>1. CASE Restart
  BY <1>1 DEF Restart, FreshController, OInv, ConfigInv, OriginInv, SnapshotInv
<1>2. CASE ReloadStarts
  <2>1. pid \in Nat /\ pid' = pid + 1 /\ holder' = "recover" /\ weights' = weights
    BY <1>2, BoundAssumption
       DEF ReloadStarts, NewProcess, PublishDesired, OInv, IInv, TypeOK, ProcessType
  <2>2. \A k \in Keys : weights[k] # None => weights[k].pid \in Nat
    BY DEF OInv, IInv, TypeOK, ManagerType, Ownership
  <2>3. \A k \in Keys : OriginInv(k)' /\ SnapshotInv(k)'
    BY <2>1, <2>2 DEF OInv, OriginInv, SnapshotInv
  <2>4. ConfigInv'
    BY <1>2 DEF ReloadStarts, PublishDesired, OInv, ConfigInv
  <2> QED
    BY <2>3, <2>4 DEF OInv
<1>3. CASE \E cfg \in Configs : StartApply(cfg)
  BY <1>3 DEF StartApply, OInv, ConfigInv, OriginInv, OverrideSeen, SnapshotInv, process, history
<1>4. CASE WriteFails
  BY <1>4 DEF WriteFails, OInv, ConfigInv, OriginInv, OverrideSeen, SnapshotInv, process, manager,
              history
<1>5. CASE ReloadSkipped
  BY <1>5 DEF ReloadSkipped, PublishDesired, OInv, ConfigInv, OriginInv, OverrideSeen, SnapshotInv,
              process, history
<1>6. CASE ReloadFails
  BY <1>6 DEF ReloadFails, OInv, ConfigInv, OriginInv, OverrideSeen, SnapshotInv, manager, history
<1> QED
  BY <1>1, <1>2, <1>3, <1>4, <1>5, <1>6 DEF ApplyConfig

\* A command changes no initial weight, and a zero that is sent is claimed.  A
\* weight is sent to a server only if no operator's setting was read there, or in
\* a process its record is not bound to.
LEMMA IssueOrigin ==
  ASSUME OInv, IInv', NEW k \in Keys, NEW w \in Weights, NEW o \in Ownership,
         holder \in {"drain", "reconcile"},
         o.pid <= pid,
         w = 0 \/ (o = weights[k] /\ (o.pid # pid \/ ~OverrideSeen(k))),
         weights' = [weights EXCEPT ![k] = o],
         UNCHANGED <<drainList, desired, recoveryBlocked>>,
         Issue(k, w)
  PROVE  OInv'
<1>1. /\ UNCHANGED <<pid, holder, lbConfig>>
      /\ claimed' = IF w = 0 THEN claimed \cup {k} ELSE claimed
      /\ \/ srv' = [srv EXCEPT ![k].weight = w]
         \/ srv' = srv
      /\ \/ snap' = [snap EXCEPT ![k] = None] /\ cmd' = None
         \/ snap' = snap /\ cmd' = [key |-> k, weight |-> w]
  BY DEF Issue, Deliver, CommandFails, Done
<1>2. \A j \in Keys : srv'[j].initial = srv[j].initial
  BY <1>1 DEF OInv, IInv, TypeOK, ProcessType, Servers
<1>3. ASSUME NEW j \in Keys PROVE SnapshotInv(j)'
  BY <1>1, <1>2 DEF OInv, IInv, TypeOK, OperationType, SnapshotInv
<1>4. ASSUME NEW j \in Keys PROVE OriginInv(j)'
  <2>1. CASE j = k
    <3>1. weights'[j] = o
      BY <2>1 DEF OInv, IInv, TypeOK, ManagerType
    <3> QED
      BY <1>1, <1>2, <2>1, <3>1, NoneAssumption DEF OInv, OriginInv
  <2>2. CASE j # k
    <3>1. weights'[j] = weights[j]
      BY <2>2 DEF OInv, IInv, TypeOK, ManagerType
    <3>2. OverrideSeen(j) => OverrideSeen(j)'
      BY <1>1, <2>2 DEF OverrideSeen, OInv, IInv, TypeOK, OperationType
    <3> QED
      BY <1>1, <1>2, <3>1, <3>2 DEF OInv, OriginInv
  <2> QED
    BY <2>1, <2>2
<1> QED
  BY <1>1, <1>3, <1>4 DEF OInv, ConfigInv

\* A step that leaves HAProxy alone may drop a record, keep its binding, or
\* bind it to a process born with a zero for a stopping target.  A record of the
\* running process is kept only if no operator's setting was read.
LEMMA RecordOrigin ==
  ASSUME OInv, IInv', NEW k \in Keys, NEW o \in Ownership \cup {None},
         LeaveProcess, Done(k),
         weights' = [weights EXCEPT ![k] = o],
         \/ o = None
         \/ /\ weights[k] # None
            /\ o.pid = weights[k].pid /\ o.stoppingReload = weights[k].stoppingReload
            /\ o.pid # pid \/ ~OverrideSeen(k)
         \/ o.pid = pid /\ o.stoppingReload /\ srv[k].initial = 0
  PROVE  OInv'
<1>1. /\ snap' = [snap EXCEPT ![k] = None]
      /\ UNCHANGED <<process, drainList, desired, recoveryBlocked, holder, lbConfig, cmd, claimed>>
  BY DEF LeaveProcess, Done
<1>2. pid \in Nat
  BY BoundAssumption DEF OInv, IInv, TypeOK, ProcessType
<1>3. ASSUME NEW j \in Keys PROVE SnapshotInv(j)'
  BY <1>1 DEF OInv, IInv, TypeOK, OperationType, SnapshotInv, process
<1>4. ASSUME NEW j \in Keys PROVE OriginInv(j)'
  <2>1. CASE j = k
    <3>1. weights'[j] = o
      BY <2>1 DEF OInv, IInv, TypeOK, ManagerType
    <3> QED
      BY <1>1, <1>2, <2>1, <3>1 DEF OInv, OriginInv, process
  <2>2. CASE j # k
    <3>1. weights'[j] = weights[j]
      BY <2>2 DEF OInv, IInv, TypeOK, ManagerType
    <3>2. OverrideSeen(j) => OverrideSeen(j)'
      BY <1>1, <2>2 DEF OverrideSeen, OInv, IInv, TypeOK, OperationType
    <3> QED
      BY <1>1, <3>1, <3>2 DEF OInv, OriginInv, process
  <2> QED
    BY <2>1, <2>2
<1> QED
  BY <1>1, <1>3, <1>4 DEF OInv, ConfigInv

\* The readback changes at most the retry mark of a record, or drops it.
LEMMA VerifyOrigin ==
  ASSUME OInv, IInv', Verify
  PROVE  OInv'
<1> DEFINE k == cmd.key
<1>1. k \in Keys
  BY DEF Verify, VerifySucceeds, VerifyFails, OInv, IInv, TypeOK, OperationType
<1>2. weights[k] \in Ownership
  BY <1>1 DEF Verify, VerifySucceeds, VerifyFails, OInv, IInv, OperationInv, TypeOK, ManagerType
<1>3. /\ snap' = [snap EXCEPT ![k] = None]
      /\ UNCHANGED <<process, drainList, desired, recoveryBlocked, holder, lbConfig, claimed>>
  BY DEF Verify, VerifySucceeds, VerifyFails, CommandFails, Done, manager, history
<1>4. \/ weights' = weights
      \/ weights' = [weights EXCEPT ![k] = [weights[k] EXCEPT !.retry = FALSE]]
      \/ weights' = [weights EXCEPT ![k] = None]
  BY <1>2 DEF Verify, VerifySucceeds, VerifyFails, manager
<1>5. \A j \in Keys :
        \/ weights'[j] = None
        \/ /\ weights[j] # None
           /\ weights'[j].pid = weights[j].pid
           /\ weights'[j].stoppingReload = weights[j].stoppingReload
  BY <1>1, <1>2, <1>4, NoneAssumption DEF OInv, IInv, TypeOK, ManagerType, Ownership
<1>6. \A j \in Keys : OverrideSeen(j) => OverrideSeen(j)'
  <2>1. cmd # None /\ cmd' = None
    BY DEF Verify, VerifySucceeds, VerifyFails, CommandFails
  <2> QED
    BY <1>3, <2>1 DEF OverrideSeen, OInv, IInv, TypeOK, OperationType
<1>7. \A j \in Keys : OriginInv(j)'
  BY <1>3, <1>5, <1>6 DEF OInv, OriginInv, process
<1>8. \A j \in Keys : SnapshotInv(j)'
  BY <1>1, <1>3 DEF OInv, IInv, TypeOK, OperationType, SnapshotInv, process
<1> QED
  BY <1>3, <1>7, <1>8 DEF OInv, ConfigInv

-----------------------------------------------------------------------------
\* DrainEndpoint binds a record to the process it sends a zero to.
LEMMA DrainOrigin ==
  ASSUME OInv, IInv', Drain
  PROVE  OInv'
<1>1. ASSUME NEW e \in Endpoints, StartDrain(e) PROVE OInv'
  BY <1>1 DEF StartDrain, OInv, ConfigInv, OriginInv, OverrideSeen, SnapshotInv, process, manager,
              history
<1>2. ASSUME NEW e \in Endpoints, RemoveEndpointFromDrain(e) PROVE OInv'
  BY <1>2 DEF RemoveEndpointFromDrain, OInv, ConfigInv, OriginInv, OverrideSeen, SnapshotInv,
              process, operation, history
<1>3. CASE FinishDrain
  BY <1>3 DEF FinishDrain, OInv, ConfigInv, OriginInv, OverrideSeen, SnapshotInv, process, history
<1>4. ASSUME NEW k \in Keys, DrainServer(k) PROVE OInv'
  <2> DEFINE o == IF weights[k] = None
                  THEN [weight |-> snap[k].weight, initialWeight |-> snap[k].initial,
                        pid |-> pid, stoppingReload |-> FALSE, retry |-> FALSE]
                  ELSE [weights[k] EXCEPT !.pid = pid]
  <2>1. /\ holder = "drain" /\ Issue(k, 0)
        /\ weights' = [weights EXCEPT ![k] = o]
        /\ UNCHANGED <<drainList, desired, recoveryBlocked>>
    BY <1>4 DEF DrainServer
  <2>2. snap[k] \in Servers /\ pid \in Nat
    BY <1>4, BoundAssumption DEF DrainServer, OInv, IInv, TypeOK, ProcessType, OperationType
  <2>3. o \in Ownership /\ o.pid = pid
    <3>1. CASE weights[k] = None
      BY <2>2, <3>1 DEF Ownership, Servers
    <3>2. CASE weights[k] # None
      <4>1. weights[k] \in Ownership
        BY <3>2 DEF OInv, IInv, TypeOK, ManagerType
      <4> QED
        BY <2>2, <3>2, <4>1 DEF Ownership
    <3> QED
      BY <3>1, <3>2
  <2>4. 0 \in Weights /\ o.pid <= pid
    BY <2>2, <2>3, WeightAssumption DEF Weights
  <2> HIDE DEF o
  <2> QED
    BY <2>1, <2>3, <2>4, IssueOrigin
<1> QED
  BY <1>1, <1>2, <1>3, <1>4 DEF Drain

\* What the loop of reconcileDrains knows of the origin of a record.
LEMMA TurnOrigin ==
  ASSUME OInv, NEW k \in Keys, Turn(k)
  PROVE  snap[k].initial = srv[k].initial /\ ~recoveryBlocked /\ desired = lbConfig
BY DEF OInv, Turn, SnapshotInv, ConfigInv

\* reconcileDrains binds a record to a process anew only if it reads that the
\* process was started with a zero, or sends one.
LEMMA FollowActiveDrainOrigin ==
  ASSUME OInv, IInv', NEW k \in Keys, FollowActiveDrain(k)
  PROVE  OInv'
<1>1. Turn(k) /\ Active(k)
  BY DEF FollowActiveDrain, AwaitResolution, HoldDrain, YieldToOverride, FollowStoppingReload,
         LeaveForeignZero, YieldToCustomWeight, AwaitAppliedConfig, ReapplyConfirmed, Reapply,
         MayReapply, Settled, Replaced, ActiveTurn
<1>2. IInv /\ weights[k] \in Ownership /\ weights[k] # None /\ pid \in Nat
  BY <1>1, TurnFacts, NoneAssumption DEF OInv
<1>3. CASE AwaitResolution(k) \/ HoldDrain(k) \/ LeaveForeignZero(k) \/ AwaitAppliedConfig(k)
  <2>1. Done(k) /\ LeaveProcess /\ weights' = [weights EXCEPT ![k] = weights[k]]
    BY <1>2, <1>3 DEF AwaitResolution, HoldDrain, LeaveForeignZero, AwaitAppliedConfig, Keep,
                IInv, TypeOK, ManagerType
  <2>2. weights[k].pid # pid \/ ~OverrideSeen(k)
    BY <1>1, <1>3 DEF AwaitResolution, HoldDrain, LeaveForeignZero, AwaitAppliedConfig, Settled,
                Replaced, ActiveTurn, Eligible, SameProcess, OverrideSeen
  <2> QED
    BY <1>2, <2>1, <2>2, RecordOrigin
<1>4. CASE YieldToOverride(k) \/ YieldToCustomWeight(k)
  BY <1>4, RecordOrigin DEF YieldToOverride, YieldToCustomWeight, Forget, Rebind
<1>5. CASE FollowStoppingReload(k)
  <2> DEFINE o == [weights[k] EXCEPT !.pid = pid, !.retry = FALSE, !.stoppingReload = TRUE]
  <2>1. o \in Ownership /\ o.pid = pid /\ o.stoppingReload
    BY <1>2 DEF Ownership
  <2>2. Done(k) /\ LeaveProcess /\ weights' = [weights EXCEPT ![k] = o]
    BY <1>5 DEF FollowStoppingReload, Rebind
  <2>3. srv[k].initial = 0
    BY <1>1, <1>5, TurnOrigin DEF FollowStoppingReload, BornStopping
  <2> QED
    BY <2>1, <2>2, <2>3, RecordOrigin
<1>6. CASE ReapplyConfirmed(k)
  <2> DEFINE o == [weights[k] EXCEPT !.retry = FALSE]
  <2>1. /\ o \in Ownership /\ o.pid = weights[k].pid
        /\ o.stoppingReload = weights[k].stoppingReload
    BY <1>2 DEF Ownership
  <2>2. Done(k) /\ LeaveProcess /\ weights' = [weights EXCEPT ![k] = o]
    BY <1>6 DEF ReapplyConfirmed, Rebind
  <2>3. ~OverrideSeen(k)
    BY <1>6 DEF ReapplyConfirmed, MayReapply, Replaced, ActiveTurn, Eligible, OverrideSeen
  <2> QED
    BY <1>2, <2>1, <2>2, <2>3, RecordOrigin
<1>7. CASE Reapply(k)
  <2> DEFINE o == [weights[k] EXCEPT !.pid = pid, !.retry = TRUE]
  <2>1. o \in Ownership /\ o.pid <= pid
    <3>1. o \in Ownership /\ o.pid = pid
      BY <1>2 DEF Ownership
    <3> QED
      BY <1>2, <3>1
  <2> HIDE DEF o
  <2>2. 0 \in Weights
    BY WeightAssumption DEF Weights
  <2>3. /\ Issue(k, 0) /\ weights' = [weights EXCEPT ![k] = o]
        /\ UNCHANGED <<drainList, desired, recoveryBlocked>>
        /\ holder = "reconcile"
    BY <1>1, <1>2, <1>7 DEF o, Reapply, Turn, IInv, TypeOK, ManagerType
  <2> QED
    BY <2>1, <2>2, <2>3, IssueOrigin
<1> QED
  BY <1>3, <1>4, <1>5, <1>6, <1>7 DEF FollowActiveDrain

\* The recovery of an ended drain drops the record or leaves it as it is.
LEMMA RecoverEndedDrainOrigin ==
  ASSUME OInv, IInv', NEW k \in Keys, RecoverEndedDrain(k)
  PROVE  OInv'
<1>1. Turn(k) /\ ~Active(k) /\ Eligible(k)
  BY DEF RecoverEndedDrain, YieldToStoppingOverride, KeepThroughStopping,
         YieldToRuntimeWeight, ExpireOwnership, AwaitHealth, RestoreConfirmed,
         Restore, Recoverable, EndedTurn
<1>2. IInv /\ weights[k] \in Ownership /\ weights[k] # None /\ pid \in Nat
  BY <1>1, TurnFacts, NoneAssumption DEF OInv
<1>3. CASE \/ YieldToStoppingOverride(k) \/ YieldToRuntimeWeight(k) \/ ExpireOwnership(k)
           \/ RestoreConfirmed(k)
  BY <1>3, RecordOrigin
     DEF YieldToStoppingOverride, YieldToRuntimeWeight, ExpireOwnership, RestoreConfirmed,
         Forget, Rebind
<1>4. ASSUME Keep(k), snap[k].weight = 0 \/ ~SameProcess(k) PROVE OInv'
  <2>1. Done(k) /\ LeaveProcess /\ weights' = [weights EXCEPT ![k] = weights[k]]
    BY <1>2, <1>4 DEF Keep, IInv, TypeOK, ManagerType
  <2>2. weights[k].pid # pid \/ ~OverrideSeen(k)
    BY <1>1, <1>4 DEF Eligible, SameProcess, OverrideSeen
  <2> QED
    BY <1>2, <2>1, <2>2, RecordOrigin
<1>5. CASE AwaitHealth(k)
  BY <1>4, <1>5 DEF AwaitHealth, Recoverable, RunningReload
<1>6. CASE KeepThroughStopping(k)
  <2> DEFINE o == [weights[k] EXCEPT !.pid = pid, !.stoppingReload = TRUE]
  <2>1. o \in Ownership /\ o.pid = pid /\ o.stoppingReload
    BY <1>2 DEF Ownership
  <2>2. /\ Keep(k) \/ (snap[k].initial = 0 /\ Rebind(k, o))
        /\ snap[k].weight = 0
    BY <1>6 DEF KeepThroughStopping
  <2>3. ASSUME snap[k].initial = 0, Rebind(k, o) PROVE OInv'
    <3>1. Done(k) /\ LeaveProcess /\ weights' = [weights EXCEPT ![k] = o]
      BY <2>3 DEF Rebind
    <3>2. srv[k].initial = 0
      BY <1>1, <2>3, TurnOrigin
    <3> QED
      BY <2>1, <3>1, <3>2, RecordOrigin
  <2> QED
    BY <1>4, <2>2, <2>3
<1>7. CASE Restore(k)
  <2>1. desired[k] \in Targets
    BY <1>1, <1>2, TurnFacts, ConfigAssumption DEF Eligible
  <2>2. RestoreWeight(k) \in Weights
    BY <1>2, <2>1 DEF RestoreWeight, Targets, Ownership
  <2>3. /\ Issue(k, RestoreWeight(k)) /\ holder = "reconcile"
        /\ weights' = [weights EXCEPT ![k] = weights[k]]
        /\ UNCHANGED <<drainList, desired, recoveryBlocked>>
    BY <1>1, <1>2, <1>7 DEF Restore, manager, Turn, IInv, TypeOK, ManagerType
  <2>4. weights[k].pid <= pid
    BY <1>2 DEF OInv, OriginInv
  <2>5. weights[k].pid # pid \/ ~OverrideSeen(k)
    BY <1>1, <1>7 DEF Restore, Recoverable, RunningReload, Eligible, SameProcess, OverrideSeen
  <2> QED
    BY <1>2, <2>2, <2>3, <2>4, <2>5, IssueOrigin
<1> QED
  BY <1>3, <1>5, <1>6, <1>7 DEF RecoverEndedDrain

\* So does a whole turn of reconcileDrains' loop.
LEMMA ReconcileDrainsOrigin ==
  ASSUME OInv, IInv', ReconcileDrains
  PROVE  OInv'
<1>1. CASE BeginReconcile
  <2>1. ASSUME NEW k \in Keys PROVE SnapshotInv(k)'
    BY <1>1 DEF BeginReconcile, ReadOwned, SnapshotInv, process
  <2>2. ASSUME NEW k \in Keys PROVE OriginInv(k)'
    <3>1. /\ UNCHANGED <<pid, srv, weights>>
          /\ cmd' = None /\ holder' = "reconcile" /\ ~OverrideSeen(k)
      BY <1>1 DEF BeginReconcile, OverrideSeen, OInv, IInv, OperationInv, process, manager
    <3>2. /\ weights[k] # None => snap'[k] = srv[k] /\ srv[k] # None
          /\ k \in claimed => k \in claimed' \/ Overridden(k)
      BY <1>1, NoneAssumption
         DEF BeginReconcile, ReadOwned, Owned, OInv, IInv, TypeOK, ProcessType
    <3> QED
      BY <3>1, <3>2 DEF OInv, OriginInv, OverrideSeen, Overridden
  <2>3. ConfigInv'
    BY <1>1 DEF BeginReconcile, OInv, ConfigInv, manager
  <2> QED
    BY <2>1, <2>2, <2>3 DEF OInv
<1>2. CASE SkipRecovery \/ EndReconcile
  BY <1>2 DEF SkipRecovery, EndReconcile, Pending, OInv, ConfigInv, OriginInv, OverrideSeen,
              SnapshotInv, process, manager, history
<1>3. ASSUME NEW k \in Keys, Forfeit(k) PROVE OInv'
  BY <1>3, RecordOrigin DEF Forfeit
<1> QED
  BY <1>1, <1>2, <1>3, FollowActiveDrainOrigin, RecoverEndedDrainOrigin DEF ReconcileDrains

\* OInv is inductive.
LEMMA NextOInv == OInv /\ [Next]_vars => OInv'
<1> SUFFICES ASSUME OInv, [Next]_vars PROVE OInv'
  OBVIOUS
<1>1. IInv'
  BY NextIInv DEF OInv
<1>2. CASE UNCHANGED vars
  BY <1>1, <1>2 DEF OInv, ConfigInv, OriginInv, OverrideSeen, SnapshotInv, vars, process, manager,
                    operation, history
<1> QED
  BY <1>1, <1>2, EnvironmentOrigin, ProcessOrigin, DrainOrigin, ReconcileDrainsOrigin, VerifyOrigin
     DEF Next, Controller

\* OInv always holds.
LEMMA OriginInvariance == Spec => []OInv
BY InitOInv, NextOInv, PTL DEF Spec

-----------------------------------------------------------------------------
(* The theorems.                                                           *)

\* Only the last branch of reconcileDrains raises a weight.
LEMMA RaisedByRestore ==
  ASSUME OInv, [Next]_vars, NEW k \in Keys, Raises(k)
  PROVE  Restore(k) /\ srv'[k].weight = RestoreWeight(k) /\ Turn(k) /\ Eligible(k)
<1>1. /\ holder = "reconcile" /\ pid' = pid /\ writer'[k] = "controller"
      /\ srv'[k].weight # srv[k].weight /\ srv'[k].weight # 0
  BY DEF Raises
<1>2. ASSUME NEW j \in Keys, NEW w, Issue(j, w) PROVE j = k /\ srv'[k].weight = w
  BY <1>1, <1>2 DEF Issue, Deliver, OInv, IInv, TypeOK, ProcessType, Servers
<1>3. srv' # srv
  BY <1>1
<1>4. ~Environment
  BY <1>1 DEF Environment, OperatorSetsWeight, AdminStateChanges, HealthChanges, OInv, IInv, TypeOK,
              ProcessType, HistoryType, Servers
<1>5. ~Restart /\ ~ApplyConfig
  BY <1>1 DEF Restart, NewProcess, NoProcess, ApplyConfig, StartApply, WriteFails, ReloadSkipped,
              ReloadStarts, ReloadFails
<1>6. ~Drain /\ ~Verify
  BY <1>1, <1>3 DEF Drain, StartDrain, RemoveEndpointFromDrain, DrainServer, FinishDrain, Verify,
                    VerifySucceeds, VerifyFails, process
<1>7. PICK j \in Keys : FollowActiveDrain(j) \/ RecoverEndedDrain(j)
  BY <1>3, <1>4, <1>5, <1>6
     DEF Next, Controller, ReconcileDrains, BeginReconcile, SkipRecovery, EndReconcile, Forfeit,
         LeaveProcess, process, vars
<1>8. Restore(j)
  <2>1. ~Reapply(j)
    BY <1>1, <1>2 DEF Reapply
  <2> QED
    BY <1>3, <1>7, <2>1
       DEF FollowActiveDrain, AwaitResolution, HoldDrain, YieldToOverride, FollowStoppingReload,
           LeaveForeignZero, YieldToCustomWeight, AwaitAppliedConfig, ReapplyConfirmed,
           RecoverEndedDrain, YieldToStoppingOverride, KeepThroughStopping, YieldToRuntimeWeight,
           ExpireOwnership, AwaitHealth, RestoreConfirmed, Keep, Forget, Rebind, LeaveProcess,
           process
<1> QED
  BY <1>2, <1>8 DEF Restore, Recoverable, EndedTurn

\* reconcileDrains gives a weight back only where it read a zero and this
\* controller had sent one to this very process, with no operator's setting read
\* there since, or in a process whose target was stopping when it or the one
\* before it started, whatever is lost, reloaded or restarted.
THEOREM OnlyOwnZerosAreRestored == Spec => RestoresOnlyOwnZero
<1>1. ASSUME OInv, [Next]_vars
      PROVE  [\A k \in Keys : Raises(k) =>
                \/ snap[k].weight = 0 /\ k \in claimed
                \/ weights[k].stoppingReload /\ snap[k].weight = snap[k].initial]_vars
  <2> SUFFICES ASSUME NEW k \in Keys, Raises(k)
               PROVE  \/ snap[k].weight = 0 /\ k \in claimed
                      \/ weights[k].stoppingReload /\ snap[k].weight = snap[k].initial
    OBVIOUS
  <2>1. Restore(k) /\ Turn(k)
    BY <1>1, RaisedByRestore
  <2>2. snap[k].weight # RestoreWeight(k) /\ Recoverable(k)
    BY <2>1 DEF Restore
  <2>3. CASE snap[k].weight = 0 /\ SameProcess(k)
    <3>1. weights[k] # None /\ snap[k].initial = srv[k].initial
      BY <1>1, <2>1, TurnFacts, TurnOrigin, NoneAssumption DEF OInv
    <3>2. ~OverrideSeen(k)
      BY <2>1, <2>3 DEF Restore, Healthy, OverrideSeen
    <3> QED
      BY <1>1, <2>3, <3>1, <3>2 DEF OInv, OriginInv, SameProcess
  <2>4. CASE RunningReload(k)
    BY <2>2, <2>4 DEF RunningReload
  <2> QED
    BY <2>2, <2>3, <2>4 DEF Recoverable
<1> QED
  BY <1>1, OriginInvariance, PTL DEF Spec, RestoresOnlyOwnZero

\* applyHaproxyConfig and reconcileDrains: a weight that is given back is one
\* the configuration passed last allows, even if applying that one failed.
THEOREM LatestConfigIsHonoured == Spec => RestoreHonoursLatestConfig
<1>1. ASSUME OInv, [Next]_vars
      PROVE  [\A k \in Keys : Raises(k) =>
                /\ lbConfig[k] # None
                /\ ~lbConfig[k].disabled
                /\ lbConfig[k].weight # 0
                /\ \/ srv'[k].weight = lbConfig[k].weight
                   \/ srv'[k].weight = weights[k].weight /\ lbConfig[k].weight = weights[k].initialWeight]_vars
  <2> SUFFICES ASSUME NEW k \in Keys, Raises(k)
               PROVE  /\ lbConfig[k] # None
                      /\ ~lbConfig[k].disabled
                      /\ lbConfig[k].weight # 0
                      /\ \/ srv'[k].weight = lbConfig[k].weight
                         \/ /\ srv'[k].weight = weights[k].weight
                            /\ lbConfig[k].weight = weights[k].initialWeight
    OBVIOUS
  <2>1. /\ Restore(k) /\ Turn(k) /\ Eligible(k)
        /\ srv'[k].weight = RestoreWeight(k)
    BY <1>1, RaisedByRestore
  <2>2. desired = lbConfig
    BY <1>1, <2>1, TurnOrigin
  <2>3. desired[k] # None /\ ~desired[k].disabled
    BY <2>1 DEF Eligible
  <2>4. desired[k].weight # 0
    BY <2>1 DEF Eligible, Restore, Recoverable, RunningReload, EndedTurn, StoppingZero
  <2> QED
    BY <2>1, <2>2, <2>3, <2>4 DEF RestoreWeight
<1> QED
  BY <1>1, OriginInvariance, PTL DEF Spec, RestoreHonoursLatestConfig

-----------------------------------------------------------------------------
(* Custody of weights.  Every step of the provider is one of WeightCustody *)
(* or leaves it alone.                                                     *)

\* A drain has only read servers of its own endpoint.
LookedAt == holder = "drain" => \A k \in Keys : snap[k] # None => k[2] = ep

CInv == OInv /\ LookedAt

\* LookedAt is inductive given the types.
LEMMA NextCInv == CInv /\ [Next]_vars => CInv'
<1> SUFFICES ASSUME CInv, [Next]_vars PROVE CInv'
  OBVIOUS
<1>1. OInv'
  BY NextOInv DEF CInv
<1>2. LookedAt'
  <2> SUFFICES ASSUME holder' = "drain" PROVE \A k \in Keys : snap'[k] # None => k[2] = ep'
    BY DEF LookedAt
  <2>1. CASE \E e \in Endpoints : StartDrain(e)
    BY <2>1 DEF StartDrain
  <2>2. CASE UNCHANGED <<holder, ep, snap>>
    BY <2>2 DEF CInv, LookedAt
  <2>3. ASSUME NEW j \in Keys, holder = "drain", ep' = ep, snap' = [snap EXCEPT ![j] = None]
        PROVE  \A k \in Keys : snap'[k] # None => k[2] = ep'
    BY <2>3 DEF CInv, LookedAt, OInv, IInv, TypeOK, OperationType
  <2>4. CASE UNCHANGED vars \/ Environment
    BY <2>2, <2>4 DEF vars, operation, Environment, OperatorSetsWeight, AdminStateChanges,
                      HealthChanges
  <2>5. CASE Restart \/ ApplyConfig
    BY <2>5 DEF Restart, FreshController, ApplyConfig, StartApply, WriteFails, ReloadSkipped,
                ReloadStarts, ReloadFails, PublishDesired
  <2>6. CASE Verify
    <3>1. cmd.key \in Keys /\ holder = "drain" /\ ep' = ep
          /\ snap' = [snap EXCEPT ![cmd.key] = None]
      BY <2>6 DEF Verify, VerifySucceeds, VerifyFails, CommandFails, Done, CInv, OInv, IInv,
                  TypeOK, OperationType
    <3> QED
      BY <2>3, <3>1
  <2>7. CASE Drain
    <3>1. CASE FinishDrain \/ \E e \in Endpoints : RemoveEndpointFromDrain(e)
      BY <2>2, <3>1 DEF FinishDrain, RemoveEndpointFromDrain, operation
    <3>2. ASSUME NEW k \in Keys, DrainServer(k) PROVE \A j \in Keys : snap'[j] # None => j[2] = ep'
      BY <2>2, <2>3, <3>2 DEF DrainServer, Issue, CommandFails, Done
    <3> QED
      BY <2>1, <2>7, <3>1, <3>2 DEF Drain
  <2>8. CASE ReconcileDrains
    <3>1. CASE BeginReconcile \/ SkipRecovery \/ EndReconcile
      BY <3>1 DEF BeginReconcile, SkipRecovery, EndReconcile
    <3>2. ASSUME NEW k \in Keys, Forfeit(k) \/ FollowActiveDrain(k) \/ RecoverEndedDrain(k)
          PROVE  holder = "reconcile" /\ holder' = holder
      BY <3>2 DEF Forfeit, FollowActiveDrain, AwaitResolution, HoldDrain, YieldToOverride,
           FollowStoppingReload, LeaveForeignZero, YieldToCustomWeight, AwaitAppliedConfig,
           ReapplyConfirmed, Reapply, MayReapply, Settled, Replaced, ActiveTurn, RecoverEndedDrain,
           YieldToStoppingOverride, KeepThroughStopping, YieldToRuntimeWeight, ExpireOwnership,
           AwaitHealth, RestoreConfirmed, Restore, Recoverable, EndedTurn, Keep, Forget, Rebind,
           LeaveProcess, Issue, Turn
    <3> QED
      BY <2>8, <3>1, <3>2 DEF ReconcileDrains
  <2> QED
    BY <2>4, <2>5, <2>6, <2>7, <2>8 DEF Next, Controller
<1> QED
  BY <1>1, <1>2 DEF CInv

\* CInv always holds.
LEMMA CustodyInvariance == Spec => []CInv
<1>1. Init => CInv
  BY InitOInv DEF CInv, LookedAt, Init
<1> QED
  BY <1>1, NextCInv, PTL DEF Spec

\* A line of "show servers state" as WeightCustody sees it.
LEMMA ReadingTyped ==
  ASSUME NEW s \in Servers
  PROVE  /\ Reading(s) \in Custody!States
         /\ Reading(s).weight = s.weight /\ Reading(s).initial = s.initial
         /\ Reading(s) # None
<1>1. Reading(s) \in Custody!States
  BY DEF Reading, Servers, Custody!States
<1> QED
  BY <1>1, NoneAssumption DEF Reading, Custody!States

\* What WeightCustody sees of the servers, of what was read of them and of the
\* records.
LEMMA ReadingsTyped ==
  ASSUME IInv
  PROVE  /\ Present \in [Keys -> Custody!States]
         /\ \A k \in Keys :
              /\ Present[k].weight = srv[k].weight /\ Present[k].initial = srv[k].initial
              /\ Found[k] # None <=> snap[k] # None
              /\ snap[k] # None =>
                   /\ Found[k] = Reading(snap[k])
                   /\ Found[k].weight = snap[k].weight /\ Found[k].initial = snap[k].initial
              /\ Kept[k] # None <=> weights[k] # None
              /\ weights[k] # None =>
                   /\ Kept[k].weight = weights[k].weight
                   /\ Kept[k].initial = weights[k].initialWeight
<1>1. Present \in [Keys -> Custody!States]
  BY ReadingTyped DEF Present, IInv, TypeOK, ProcessType
<1>2. ASSUME NEW k \in Keys PROVE Present[k].weight = srv[k].weight /\ Present[k].initial = srv[k].initial
  BY ReadingTyped DEF Present, IInv, TypeOK, ProcessType
<1>3. ASSUME NEW k \in Keys
      PROVE  /\ Found[k] # None <=> snap[k] # None
             /\ snap[k] # None =>
                  /\ Found[k] = Reading(snap[k])
                  /\ Found[k].weight = snap[k].weight /\ Found[k].initial = snap[k].initial
  BY ReadingTyped DEF Found, IInv, TypeOK, OperationType
<1>4. ASSUME NEW k \in Keys
      PROVE  /\ Kept[k] # None <=> weights[k] # None
             /\ weights[k] # None =>
                  /\ Kept[k].weight = weights[k].weight
                  /\ Kept[k].initial = weights[k].initialWeight
  <2>1. CASE weights[k] # None
    <3>1. weights[k] \in Ownership
      BY <2>1 DEF IInv, TypeOK, ManagerType
    <3>2. Kept[k] = [weight |-> weights[k].weight, initial |-> weights[k].initialWeight]
      BY <2>1 DEF Kept
    <3>3. Kept[k] \in [weight : Weights, initial : Weights]
      BY <3>1, <3>2 DEF Ownership
    <3> QED
      BY <2>1, <3>2, <3>3, NoneAssumption
  <2>2. CASE weights[k] = None
    BY <2>2 DEF Kept
  <2> QED
    BY <2>1, <2>2
<1> QED
  BY <1>1, <1>2, <1>3, <1>4

\* A weight that HAProxy takes from the controller.
LEMMA WeightDelivered ==
  ASSUME IInv, NEW k \in Keys, NEW w \in Weights,
         srv' = [srv EXCEPT ![k].weight = w],
         writer' = [writer EXCEPT ![k] = "controller"]
  PROVE  /\ Present' = [Present EXCEPT ![k].weight = w]
         /\ OwnZeros' = IF w = 0 THEN OwnZeros \cup {k} ELSE OwnZeros \ {k}
<1>1. srv \in [Keys -> Servers] /\ writer \in [Keys -> {"config", "controller", "operator", "released"}]
  BY DEF IInv, TypeOK, ProcessType, HistoryType
<1>2. srv'[k] = [srv[k] EXCEPT !.weight = w] /\ srv[k] \in Servers
  BY <1>1
<1>3. Reading(srv'[k]) = [Reading(srv[k]) EXCEPT !.weight = w] /\ srv'[k].weight = w
  BY <1>2 DEF Reading, Servers
<1>4. \A j \in Keys \ {k} : srv'[j] = srv[j] /\ writer'[j] = writer[j]
  BY <1>1
<1>5. Present' = [Present EXCEPT ![k].weight = w]
  <2>1. Present'[k] = [Present[k] EXCEPT !.weight = w]
    BY <1>3 DEF Present
  <2>2. \A j \in Keys \ {k} : Present'[j] = Present[j]
    BY <1>4 DEF Present
  <2>3. Present = [j \in Keys |-> Present[j]] /\ Present' = [j \in Keys |-> Present'[j]]
    BY DEF Present
  <2> QED
    BY <2>1, <2>2, <2>3
<1>6. ASSUME NEW j \in Keys
      PROVE  j \in OwnZeros' <=> IF j = k THEN w = 0 ELSE j \in OwnZeros
  BY <1>1, <1>3, <1>4 DEF OwnZeros
<1>7. OwnZeros \subseteq Keys /\ OwnZeros' \subseteq Keys
  BY DEF OwnZeros
<1> QED
  BY <1>5, <1>6, <1>7

\* A server that the loop is done with, and a record that changes.
LEMMA ReadingPutAside ==
  ASSUME NEW k \in Keys, Done(k), snap \in [Keys -> Servers \cup {None}]
  PROVE  Custody!PutAside(k)
<1>1. \A j \in Keys : Found'[j] = IF j = k THEN None ELSE Found[j]
  BY DEF Done, Found
<1>2. Found = [j \in Keys |-> Found[j]] /\ Found' = [j \in Keys |-> Found'[j]]
  BY DEF Found
<1> QED
  BY <1>1, <1>2 DEF Custody!PutAside

LEMMA RecordChanged ==
  ASSUME IInv, NEW k \in Keys, NEW o, weights' = [weights EXCEPT ![k] = o]
  PROVE  Kept' = [Kept EXCEPT ![k] = IF o = None THEN None
                                    ELSE [weight |-> o.weight, initial |-> o.initialWeight]]
<1> DEFINE c == IF o = None THEN None ELSE [weight |-> o.weight, initial |-> o.initialWeight]
<1>1. weights'[k] = o /\ \A j \in Keys \ {k} : weights'[j] = weights[j]
  BY DEF IInv, TypeOK, ManagerType
<1>2. Kept'[k] = c
  BY <1>1 DEF Kept
<1>3. \A j \in Keys \ {k} : Kept'[j] = Kept[j]
  BY <1>1 DEF Kept
<1>4. Kept = [j \in Keys |-> Kept[j]] /\ Kept' = [j \in Keys |-> Kept'[j]]
  BY DEF Kept
<1> HIDE DEF c
<1>5. Kept' = [Kept EXCEPT ![k] = c]
  BY <1>2, <1>3, <1>4
<1> QED
  BY <1>5 DEF c

\* What is asked for, and what is drained, change with few variables.
LEMMA ViewsFollow ==
  /\ srv' = srv => Present' = Present
  /\ UNCHANGED <<srv, writer>> => OwnZeros' = OwnZeros
  /\ lbConfig' = lbConfig => AskedOf' = AskedOf
  /\ UNCHANGED <<drainList, holder, ep>> => Draining' = Draining
  /\ snap' = snap => Found' = Found
  /\ weights' = weights => Kept' = Kept
BY DEF Present, OwnZeros, AskedOf, Asked, Draining, Found, Kept

-----------------------------------------------------------------------------
(* Steps of the environment and of HAProxy.                                *)

\* Operators, health checks and the resolver change one server.
LEMMA EnvironmentCustody ==
  ASSUME IInv, IInv', Environment
  PROVE  \E k \in Keys : Custody!ServerChanges(k)
<1>1. PICK k \in Keys :
        \/ \E w \in OperatorWeights : OperatorSetsWeight(k, w)
        \/ \E a \in {"none", "transient", "operator"} : AdminStateChanges(k, a)
        \/ HealthChanges(k)
  BY DEF Environment
<1>2. /\ UNCHANGED <<manager, operation>>
      /\ \A j \in Keys \ {k} : srv'[j] = srv[j] /\ writer'[j] = writer[j]
      /\ srv'[k].initial = srv[k].initial
      /\ srv'[k].weight = srv[k].weight => writer' = writer
      /\ srv'[k].weight # srv[k].weight => writer'[k] = "operator"
  BY <1>1 DEF OperatorSetsWeight, AdminStateChanges, HealthChanges, IInv, TypeOK, ProcessType,
              HistoryType, Servers, history
<1>3. UNCHANGED <<AskedOf, Draining, Found, Kept>>
  BY <1>2, ViewsFollow DEF manager, operation
<1>4. /\ Present' \in [Keys -> Custody!States]
      /\ Present'[k].weight = srv'[k].weight /\ Present'[k].initial = srv'[k].initial
      /\ Present[k].weight = srv[k].weight /\ Present[k].initial = srv[k].initial
  <2>1. Present' \in [Keys -> Custody!States] /\ Present'[k].weight = srv'[k].weight
        /\ Present'[k].initial = srv'[k].initial
    BY ReadingTyped DEF Present, IInv, TypeOK, ProcessType
  <2> QED
    BY <2>1, ReadingsTyped
<1>5. Present'[k] \in Custody!States /\ Present'[k].initial = Present[k].initial
  BY <1>2, <1>4
<1>6. Present' = [Present EXCEPT ![k] = Present'[k]]
  <2>1. \A j \in Keys \ {k} : Present'[j] = Present[j]
    BY <1>2 DEF Present
  <2>2. Present \in [Keys -> Custody!States]
    BY ReadingsTyped
  <2> QED
    BY <1>4, <2>1, <2>2
<1>7. OwnZeros' = IF Present'[k].weight = Present[k].weight THEN OwnZeros ELSE OwnZeros \ {k}
  <2>1. CASE srv'[k].weight = srv[k].weight
    <3>1. \A j \in Keys : srv'[j].weight = srv[j].weight
      BY <1>2, <2>1
    <3>2. OwnZeros' = OwnZeros
      BY <1>2, <2>1, <3>1 DEF OwnZeros
    <3> QED
      BY <1>4, <2>1, <3>2
  <2>2. CASE srv'[k].weight # srv[k].weight
    <3>1. \A j \in Keys : j \in OwnZeros' <=> j # k /\ j \in OwnZeros
      BY <1>2, <2>2 DEF OwnZeros
    <3>2. OwnZeros' = OwnZeros \ {k}
      BY <3>1 DEF OwnZeros
    <3> QED
      BY <1>4, <2>2, <3>2
  <2> QED
    BY <2>1, <2>2
<1>8. Custody!ServerChanges(k)
  BY <1>3, <1>5, <1>6, <1>7 DEF Custody!ServerChanges
<1> QED
  BY <1>8

\* A new process shows no zero of the controller.
LEMMA ProcessCustody ==
  ASSUME IInv', writer' = [k \in Keys |-> "config"]
  PROVE  Custody!NewProcess
<1>1. Present' \in [Keys -> Custody!States]
  BY ReadingTyped DEF Present, IInv, TypeOK, ProcessType
<1>2. OwnZeros' = {}
  BY DEF OwnZeros
<1> QED
  BY <1>1, <1>2 DEF Custody!NewProcess, Custody!Keys, Keys

\* Nothing of a restarted controller is left in custody.
LEMMA RestartCustody ==
  ASSUME IInv', Restart
  PROVE  Custody!Restart
<1>1. Custody!NewProcess
  BY ProcessCustody DEF Restart, NewProcess, NoProcess
<1>2. AskedOf' = Custody!Nothing
  BY DEF Restart, FreshController, AskedOf, Asked, Custody!Nothing, Custody!Keys, Keys
<1>3. Draining' = {}
  BY DEF Restart, FreshController, Draining
<1>4. Found' = Custody!Nothing
  BY DEF Restart, FreshController, Found, Custody!Nothing, Custody!Keys, Keys
<1>5. Kept' = Custody!Nothing
  BY DEF Restart, FreshController, Kept, Custody!Nothing, Custody!Keys, Keys
<1> QED
  BY <1>1, <1>2, <1>3, <1>4, <1>5 DEF Custody!Restart

\* What a configuration asks for is a weight or nothing.
LEMMA AskedTyped ==
  ASSUME IInv'
  PROVE  AskedOf' \in [Keys -> Weights \cup {None}]
<1>1. ASSUME NEW k \in Keys PROVE Asked(k)' \in Weights \cup {None}
  <2>1. lbConfig' # None => lbConfig'[k] \in Targets \cup {None}
    BY ConfigAssumption DEF IInv, TypeOK, OperationType
  <2> QED
    BY <2>1 DEF Asked, Targets
<1> QED
  BY <1>1 DEF AskedOf

\* ApplyConfig asks for weights, and may start a process.
LEMMA ApplyConfigCustody ==
  ASSUME IInv, IInv', ApplyConfig
  PROVE  Custody!Ask \/ Custody!Reload \/ UNCHANGED Custody!wcVars
<1>1. CASE \E cfg \in Configs : StartApply(cfg)
  <2>1. PICK cfg \in Configs : StartApply(cfg)
    BY <1>1
  <2>2. UNCHANGED <<Present, OwnZeros, Found, Kept>>
    BY <2>1, ViewsFollow DEF StartApply, process, history
  <2>3. Draining' = Draining
    BY <2>1 DEF StartApply, Draining
  <2>4. AskedOf' \in [Custody!Keys -> Weights \cup {None}]
    BY AskedTyped DEF Custody!Keys, Keys
  <2> QED
    BY <2>2, <2>3, <2>4 DEF Custody!Ask
<1>2. CASE WriteFails \/ ReloadFails \/ ReloadSkipped
  <2>1. UNCHANGED <<srv, writer, claimed, drainList, weights, lbConfig, ep, snap>>
    BY <1>2 DEF WriteFails, ReloadFails, ReloadSkipped, PublishDesired, process, manager, history
  <2>2. UNCHANGED <<Present, OwnZeros, AskedOf, Found, Kept>>
    BY <2>1, ViewsFollow
  <2>3. Draining' = Draining
    BY <1>2, <2>1 DEF WriteFails, ReloadFails, ReloadSkipped, PublishDesired, Draining
  <2> QED
    BY <2>2, <2>3 DEF Custody!wcVars
<1>3. CASE ReloadStarts
  <2>1. UNCHANGED <<AskedOf, Found, Kept>>
    BY <1>3, ViewsFollow DEF ReloadStarts, PublishDesired
  <2>2. Draining' = Draining
    BY <1>3 DEF ReloadStarts, PublishDesired, Draining
  <2>3. Custody!NewProcess
    BY <1>3, ProcessCustody DEF ReloadStarts, NewProcess
  <2> QED
    BY <2>1, <2>2, <2>3 DEF Custody!Reload
<1> QED
  BY <1>1, <1>2, <1>3 DEF ApplyConfig

-----------------------------------------------------------------------------
(* Steps of drains and recoveries.                                         *)

\* A weight change that is sent reaches the server or not, and the server is
\* put aside or waits for its readback.
LEMMA IssueCustody ==
  ASSUME IInv, NEW k \in Keys, NEW w \in Weights, Issue(k, w), UNCHANGED drainList
  PROVE  /\ UNCHANGED <<AskedOf, Draining>>
         /\ Custody!PutAside(k) \/ UNCHANGED Found
         /\ \/ /\ Present' = [Present EXCEPT ![k].weight = w]
               /\ OwnZeros' = IF w = 0 THEN OwnZeros \cup {k} ELSE OwnZeros \ {k}
            \/ UNCHANGED <<Present, OwnZeros>> /\ Custody!PutAside(k)
<1>1. UNCHANGED <<AskedOf, Draining>>
  BY ViewsFollow DEF Issue
<1>2. snap \in [Keys -> Servers \cup {None}]
  BY DEF IInv, TypeOK, OperationType
<1>3. Custody!PutAside(k) \/ UNCHANGED Found
  BY <1>2, ReadingPutAside, ViewsFollow DEF Issue, CommandFails
<1>4. CASE Deliver(k, w)
  BY <1>1, <1>3, <1>4, WeightDelivered DEF Deliver
<1>5. CASE UNCHANGED <<srv, writer>> /\ CommandFails(k)
  BY <1>1, <1>2, <1>5, ReadingPutAside, ViewsFollow DEF CommandFails
<1> QED
  BY <1>4, <1>5 DEF Issue

\* A zero takes the weight into custody, unless an earlier one is there.
LEMMA TakeCustody ==
  ASSUME IInv, NEW k \in Keys, NEW o \in Ownership, Issue(k, 0), snap[k] # None,
         k[2] \in Draining, UNCHANGED drainList,
         weights' = [weights EXCEPT ![k] = o],
         weights[k] = None => o.weight = snap[k].weight /\ o.initialWeight = snap[k].initial,
         weights[k] # None => o.weight = weights[k].weight /\ o.initialWeight = weights[k].initialWeight
  PROVE  Custody!Take(k)
<1> DEFINE c == [weight |-> o.weight, initial |-> o.initialWeight]
<1>1. Kept' = [Kept EXCEPT ![k] = c]
  BY RecordChanged, NoneAssumption
<1>2. c = IF Kept[k] = None THEN [weight |-> Found[k].weight, initial |-> Found[k].initial]
          ELSE Kept[k]
  <2>1. CASE weights[k] = None
    BY <2>1, ReadingsTyped
  <2>2. CASE weights[k] # None
    BY <2>2, ReadingsTyped DEF Kept
  <2> QED
    BY <2>1, <2>2
<1> HIDE DEF c
<1>3. Kept' = [Kept EXCEPT ![k] =
                 IF @ = None THEN [weight |-> Found[k].weight, initial |-> Found[k].initial] ELSE @]
  BY <1>1, <1>2
<1>4. 0 \in Weights
  BY WeightAssumption DEF Weights
<1>5. /\ UNCHANGED <<AskedOf, Draining>>
      /\ Custody!PutAside(k) \/ UNCHANGED Found
      /\ \/ Present' = [Present EXCEPT ![k].weight = 0] /\ OwnZeros' = OwnZeros \cup {k}
         \/ UNCHANGED <<Present, OwnZeros>>
  BY <1>4, IssueCustody
<1>6. Found[k] # None
  BY ReadingsTyped
<1> QED
  BY <1>3, <1>5, <1>6 DEF Custody!Take, Custody!Draining

\* DrainEndpoint and RemoveEndpointFromDrain.
LEMMA DrainCustody ==
  ASSUME CInv, Drain
  PROVE  \/ \E e \in Endpoints : Custody!BeginDrain(e) \/ Custody!EndDrain(e)
         \/ \E k \in Keys : Custody!Take(k)
         \/ UNCHANGED Custody!wcVars
<1>0. IInv
  BY DEF CInv, OInv
<1>1. ASSUME NEW e \in Endpoints, StartDrain(e) PROVE Custody!BeginDrain(e)
  <2>1. UNCHANGED <<Present, OwnZeros, AskedOf, Kept>>
    BY <1>1, ViewsFollow DEF StartDrain, process, manager, history
  <2>2. e \notin Draining /\ Draining' = Draining \cup {e}
    BY <1>1 DEF StartDrain, Draining, manager
  <2> DEFINE ks == {k \in Keys : snap'[k] # None}
  <2>3. ASSUME NEW k \in Keys PROVE Found'[k] = IF k \in ks THEN Present[k] ELSE None
    BY <1>1 DEF StartDrain, Found, Present
  <2>4. Found' = [k \in Keys |-> IF k \in ks THEN Present[k] ELSE None]
    BY <2>3 DEF Found
  <2>5. ks \subseteq {k \in Keys : k[2] = e /\ Present[k].weight # 0 /\ ~Present[k].barred}
    <3>1. ASSUME NEW k \in ks
          PROVE  k[2] = e /\ srv[k].weight # 0 /\ srv[k].exists /\ srv[k].admin = "none"
      BY <1>1 DEF StartDrain
    <3> QED
      BY <3>1 DEF Present, Reading
  <2> HIDE DEF ks
  <2> QED
    BY <2>1, <2>2, <2>4, <2>5 DEF Custody!BeginDrain, Custody!Look, Custody!Keys, Keys
<1>2. ASSUME NEW e \in Endpoints, RemoveEndpointFromDrain(e) PROVE Custody!EndDrain(e)
  <2>1. UNCHANGED <<Present, OwnZeros, AskedOf, Found, Kept>>
    BY <1>2, ViewsFollow DEF RemoveEndpointFromDrain, process, operation, history
  <2>2. e \in Draining /\ Draining' = Draining \ {e}
    BY <1>2 DEF RemoveEndpointFromDrain, Draining, operation
  <2> QED
    BY <2>1, <2>2 DEF Custody!EndDrain
<1>3. CASE FinishDrain
  <2>1. UNCHANGED <<Present, OwnZeros, AskedOf, Found, Kept>>
    BY <1>3, ViewsFollow DEF FinishDrain, process, history
  <2>2. CASE drainList' = drainList \cup {ep}
    <3>1. Draining' = Draining
      BY <1>3, <2>2 DEF FinishDrain, Draining
    <3> QED
      BY <2>1, <3>1 DEF Custody!wcVars
  <2>3. CASE drainList' = drainList
    <3>1. CASE ep \in drainList
      <4>1. Draining' = Draining
        BY <1>3, <2>3, <3>1 DEF FinishDrain, Draining
      <4> QED
        BY <2>1, <4>1 DEF Custody!wcVars
    <3>2. CASE ep \notin drainList
      <4>1. ep \in Draining /\ Draining' = Draining \ {ep} /\ ep \in Endpoints
        BY <1>0, <1>3, <2>3, <3>2 DEF FinishDrain, Draining, IInv, OperationInv, TypeOK, OperationType
      <4> QED
        BY <2>1, <4>1 DEF Custody!EndDrain
    <3> QED
      BY <3>1, <3>2
  <2> QED
    BY <1>3, <2>2, <2>3 DEF FinishDrain
<1>4. ASSUME NEW k \in Keys, DrainServer(k) PROVE Custody!Take(k)
  <2> DEFINE o == IF weights[k] = None
                  THEN [weight |-> snap[k].weight, initialWeight |-> snap[k].initial,
                        pid |-> pid, stoppingReload |-> FALSE, retry |-> FALSE]
                  ELSE [weights[k] EXCEPT !.pid = pid]
  <2>1. /\ snap[k] # None /\ Issue(k, 0) /\ UNCHANGED drainList
        /\ weights' = [weights EXCEPT ![k] = o]
    BY <1>4 DEF DrainServer
  <2>2. k[2] \in Draining
    BY <1>4 DEF DrainServer, CInv, LookedAt, Draining
  <2>3. snap[k] \in Servers /\ pid \in Nat /\ (weights[k] # None => weights[k] \in Ownership)
    BY <1>0, <2>1, BoundAssumption DEF IInv, TypeOK, ProcessType, ManagerType, OperationType
  <2>4. /\ o \in Ownership
        /\ weights[k] = None => o.weight = snap[k].weight /\ o.initialWeight = snap[k].initial
        /\ weights[k] # None =>
             o.weight = weights[k].weight /\ o.initialWeight = weights[k].initialWeight
    <3>1. CASE weights[k] = None
      BY <2>3, <3>1 DEF Ownership, Servers
    <3>2. CASE weights[k] # None
      BY <2>3, <3>2 DEF Ownership
    <3> QED
      BY <3>1, <3>2
  <2> HIDE DEF o
  <2> QED
    BY <1>0, <2>1, <2>2, <2>4, TakeCustody
<1> QED
  BY <1>1, <1>2, <1>3, <1>4 DEF Drain

\* The readback passes by, or lets go of a weight that is back.
LEMMA VerifyCustody ==
  ASSUME IInv, Verify
  PROVE  \E k \in Keys : Custody!PassBy(k) \/ Custody!LetGo(k)
<1> DEFINE k == cmd.key
<1>1. k \in Keys /\ snap[k] # None /\ snap \in [Keys -> Servers \cup {None}] /\ weights[k] \in Ownership
  BY DEF Verify, VerifySucceeds, VerifyFails, IInv, OperationInv, TypeOK, ManagerType, OperationType
<1>2. Done(k) /\ UNCHANGED <<srv, writer, lbConfig, drainList, holder, ep>>
  BY DEF Verify, VerifySucceeds, VerifyFails, CommandFails, process, manager, history
<1>3. /\ UNCHANGED <<Present, OwnZeros, AskedOf, Draining>> /\ Custody!PutAside(k)
      /\ Found[k] # None
  BY <1>1, <1>2, ViewsFollow, ReadingPutAside, ReadingsTyped
<1>4. \/ weights' = weights
      \/ weights' = [weights EXCEPT ![k] = [weights[k] EXCEPT !.retry = FALSE]]
      \/ /\ weights' = [weights EXCEPT ![k] = None]
         /\ holder = "reconcile" /\ ~Active(k) /\ srv[k].weight = cmd.weight /\ cmd # None
  BY <1>1 DEF Verify, VerifySucceeds, VerifyFails, IInv, OperationInv, manager
<1>5. CASE weights' = weights
  BY <1>1, <1>3, <1>5, ViewsFollow DEF Custody!PassBy
<1>6. CASE weights' = [weights EXCEPT ![k] = [weights[k] EXCEPT !.retry = FALSE]]
  <2> DEFINE o == [weights[k] EXCEPT !.retry = FALSE]
  <2>1. o \in Ownership /\ o.weight = weights[k].weight /\ o.initialWeight = weights[k].initialWeight
    BY <1>1 DEF Ownership
  <2> HIDE DEF o
  <2>2. Kept' = [Kept EXCEPT ![k] = [weight |-> o.weight, initial |-> o.initialWeight]]
    BY <1>1, <1>6, <2>1, RecordChanged, NoneAssumption DEF o
  <2>3. Kept[k] = [weight |-> o.weight, initial |-> o.initialWeight]
    BY <1>1, <2>1, NoneAssumption DEF Kept
  <2>4. Kept' = Kept
    BY <2>2, <2>3 DEF Kept
  <2> QED
    BY <1>1, <1>3, <2>4 DEF Custody!PassBy
<1>7. CASE /\ weights' = [weights EXCEPT ![k] = None]
           /\ holder = "reconcile" /\ ~Active(k) /\ srv[k].weight = cmd.weight /\ cmd # None
  <2>1. k \notin OwnZeros
    BY <1>7 DEF OwnZeros, IInv, OperationInv
  <2>2. Kept' = [Kept EXCEPT ![k] = None]
    BY <1>1, <1>7, RecordChanged
  <2> QED
    BY <1>1, <1>3, <2>1, <2>2 DEF Custody!LetGo
<1> QED
  BY <1>4, <1>5, <1>6, <1>7

\* reconcileDrains where it is done with a server: what is seen of the process
\* and of the configuration stays.
LEMMA TurnEnds ==
  ASSUME IInv, NEW k \in Keys, Turn(k), Done(k), LeaveProcess
  PROVE  /\ UNCHANGED <<Present, AskedOf, Draining>>
         /\ Custody!PutAside(k)
         /\ Found[k] # None
         /\ writer' = writer => OwnZeros' = OwnZeros
BY ViewsFollow, ReadingPutAside, ReadingsTyped
   DEF Turn, LeaveProcess, process, IInv, TypeOK, OperationType

\* ... where it keeps the record, or binds it to another process,
LEMMA PassByCustody ==
  ASSUME IInv, NEW k \in Keys, Turn(k), NEW o \in Ownership, Keep(k) \/ Rebind(k, o),
         o.weight = weights[k].weight, o.initialWeight = weights[k].initialWeight
  PROVE  Custody!PassBy(k)
<1>1. /\ UNCHANGED <<Present, AskedOf, Draining, OwnZeros>> /\ Custody!PutAside(k)
      /\ Found[k] # None
  BY TurnEnds DEF Keep, Rebind
<1>2. Kept' = Kept
  <2>1. CASE Keep(k)
    BY <2>1, ViewsFollow DEF Keep
  <2>2. CASE Rebind(k, o)
    <3>1. Kept' = [Kept EXCEPT ![k] = [weight |-> o.weight, initial |-> o.initialWeight]]
      BY <2>2, RecordChanged, NoneAssumption DEF Rebind
    <3>2. Kept[k] = [weight |-> o.weight, initial |-> o.initialWeight]
      BY TurnFacts, NoneAssumption DEF Kept
    <3> QED
      BY <3>1, <3>2 DEF Kept
  <2> QED
    BY <2>1, <2>2
<1> QED
  BY <1>1, <1>2 DEF Custody!PassBy

\* ... where it drops the record of a server without a zero of this process,
LEMMA LetGoCustody ==
  ASSUME IInv, NEW k \in Keys, Turn(k), Forget(k), snap[k].weight # 0 \/ weights[k].pid # pid
  PROVE  Custody!LetGo(k)
<1>1. /\ UNCHANGED <<Present, AskedOf, Draining, OwnZeros>> /\ Custody!PutAside(k)
      /\ Found[k] # None
  BY TurnEnds DEF Forget, Rebind
<1>2. Kept' = [Kept EXCEPT ![k] = None]
  BY RecordChanged DEF Forget, Rebind
<1>3. k \notin OwnZeros
  BY TurnFacts DEF OwnZeros
<1> QED
  BY <1>1, <1>2, <1>3 DEF Custody!LetGo

\* ... and where the server is the configuration's or the operator's.
LEMMA ForfeitCustody ==
  ASSUME OInv, NEW k \in Keys, Forfeit(k)
  PROVE  Custody!Forfeit(k)
<1>1. IInv /\ Turn(k) /\ ~Eligible(k) /\ Done(k) /\ LeaveProcess
  BY DEF OInv, Forfeit
<1>2. /\ UNCHANGED <<Present, AskedOf, Draining>> /\ Custody!PutAside(k)
      /\ Found[k] # None /\ Found[k] = Reading(snap[k])
  BY <1>1, TurnEnds, TurnFacts, ReadingsTyped
<1>3. Kept' = [Kept EXCEPT ![k] = None]
  BY <1>1, RecordChanged DEF Forfeit
<1>4. OwnZeros' = OwnZeros \ {k}
  <2>1. /\ srv' = srv
        /\ \A j \in Keys : writer'[j] = "controller" <=> writer[j] = "controller" /\ j # k
    BY <1>1 DEF Forfeit, LeaveProcess, process, IInv, TypeOK, HistoryType
  <2> QED
    BY <2>1 DEF OwnZeros
<1>5. AskedOf[k] = None \/ Found[k].barred
  <2>1. lbConfig = desired /\ desired # None
    BY <1>1, TurnOrigin, TurnFacts, ConfigAssumption, NoneAssumption
  <2>2. CASE ~snap[k].exists \/ snap[k].admin = "operator"
    <3>1. Reading(snap[k]).barred
      BY <2>2 DEF Reading
    <3> QED
      BY <1>2, <3>1
  <2>3. CASE desired[k] = None \/ desired[k].disabled \/ (desired[k].weight = 0 /\ ~desired[k].temporaryZero)
    BY <2>1, <2>3 DEF AskedOf, Asked
  <2> QED
    BY <1>1, <2>2, <2>3 DEF Eligible
<1> QED
  BY <1>2, <1>3, <1>4, <1>5 DEF Custody!Forfeit

\* The branch of reconcileDrains for active drains.
LEMMA FollowActiveDrainCustody ==
  ASSUME IInv, NEW k \in Keys, FollowActiveDrain(k)
  PROVE  Custody!PassBy(k) \/ Custody!LetGo(k) \/ Custody!Take(k)
<1>1. Turn(k) /\ Active(k)
  BY DEF FollowActiveDrain, AwaitResolution, HoldDrain, YieldToOverride, FollowStoppingReload,
         LeaveForeignZero, YieldToCustomWeight, AwaitAppliedConfig, ReapplyConfirmed, Reapply,
         MayReapply, Settled, Replaced, ActiveTurn
<1>2. weights[k] \in Ownership /\ weights[k] # None /\ pid \in Nat /\ snap[k] # None
  BY <1>1, TurnFacts, NoneAssumption
<1>3. CASE AwaitResolution(k) \/ HoldDrain(k) \/ LeaveForeignZero(k) \/ AwaitAppliedConfig(k)
  BY <1>1, <1>2, <1>3, PassByCustody
     DEF AwaitResolution, HoldDrain, LeaveForeignZero, AwaitAppliedConfig
<1>4. CASE YieldToOverride(k) \/ YieldToCustomWeight(k)
  BY <1>1, <1>4, LetGoCustody DEF YieldToOverride, YieldToCustomWeight
<1>5. CASE FollowStoppingReload(k)
  <2> DEFINE o == [weights[k] EXCEPT !.pid = pid, !.retry = FALSE, !.stoppingReload = TRUE]
  <2>1. o \in Ownership /\ o.weight = weights[k].weight /\ o.initialWeight = weights[k].initialWeight
    BY <1>2 DEF Ownership
  <2>2. Rebind(k, o)
    BY <1>5 DEF FollowStoppingReload
  <2> QED
    BY <1>1, <2>1, <2>2, PassByCustody
<1>6. CASE ReapplyConfirmed(k)
  <2> DEFINE o == [weights[k] EXCEPT !.retry = FALSE]
  <2>1. o \in Ownership /\ o.weight = weights[k].weight /\ o.initialWeight = weights[k].initialWeight
    BY <1>2 DEF Ownership
  <2>2. Rebind(k, o)
    BY <1>6 DEF ReapplyConfirmed
  <2> QED
    BY <1>1, <2>1, <2>2, PassByCustody
<1>7. CASE Reapply(k)
  <2> DEFINE o == [weights[k] EXCEPT !.pid = pid, !.retry = TRUE]
  <2>1. o \in Ownership /\ o.weight = weights[k].weight /\ o.initialWeight = weights[k].initialWeight
    BY <1>2 DEF Ownership
  <2>2. Issue(k, 0) /\ weights' = [weights EXCEPT ![k] = o] /\ UNCHANGED drainList
    BY <1>7 DEF Reapply, IInv, TypeOK, ManagerType
  <2>3. k[2] \in Draining
    BY <1>1 DEF Active, Draining
  <2> HIDE DEF o
  <2> QED
    BY <1>2, <2>1, <2>2, <2>3, TakeCustody
<1> QED
  BY <1>3, <1>4, <1>5, <1>6, <1>7 DEF FollowActiveDrain

\* The branch for ended drains, the only one that gives weights back.
LEMMA RecoverEndedDrainCustody ==
  ASSUME OInv, NEW k \in Keys, RecoverEndedDrain(k)
  PROVE  Custody!PassBy(k) \/ Custody!LetGo(k) \/ Custody!GiveBack(k)
<1>1. IInv /\ Turn(k) /\ ~Active(k) /\ Eligible(k)
  BY DEF RecoverEndedDrain, YieldToStoppingOverride, KeepThroughStopping,
         YieldToRuntimeWeight, ExpireOwnership, AwaitHealth, RestoreConfirmed,
         Restore, Recoverable, EndedTurn, OInv
<1>2. /\ weights[k] \in Ownership /\ weights[k] # None /\ weights[k].weight # 0
      /\ pid \in Nat /\ snap[k] # None /\ desired = lbConfig
  BY <1>1, TurnFacts, TurnOrigin, NoneAssumption
<1>3. desired[k] \in Targets /\ desired[k] # None
  BY <1>1, TurnFacts, ConfigAssumption DEF Eligible
<1>4. ~StoppingZero(k) => desired[k].weight # 0 /\ RestoreWeight(k) \in Weights \ {0}
  BY <1>1, <1>2, <1>3 DEF StoppingZero, Eligible, RestoreWeight, Targets, Ownership
<1>5. CASE YieldToStoppingOverride(k) \/ YieldToRuntimeWeight(k) \/ ExpireOwnership(k)
  BY <1>1, <1>5, LetGoCustody
     DEF YieldToStoppingOverride, YieldToRuntimeWeight, ExpireOwnership, SameProcess
<1>6. CASE AwaitHealth(k)
  BY <1>1, <1>2, <1>6, PassByCustody DEF AwaitHealth
<1>7. CASE KeepThroughStopping(k)
  <2> DEFINE o == [weights[k] EXCEPT !.pid = pid, !.stoppingReload = TRUE]
  <2>1. o \in Ownership /\ o.weight = weights[k].weight /\ o.initialWeight = weights[k].initialWeight
    BY <1>2 DEF Ownership
  <2>2. Rebind(k, o) \/ Keep(k)
    BY <1>7 DEF KeepThroughStopping
  <2> QED
    BY <1>1, <2>1, <2>2, PassByCustody
<1>8. CASE RestoreConfirmed(k)
  <2>1. snap[k].weight # 0 /\ Forget(k)
    BY <1>4, <1>8 DEF RestoreConfirmed, Recoverable
  <2> QED
    BY <1>1, <2>1, LetGoCustody
<1>9. CASE Restore(k)
  <2>1. /\ Issue(k, RestoreWeight(k)) /\ UNCHANGED <<drainList, weights>>
        /\ ~StoppingZero(k) /\ snap[k].weight \in {0, snap[k].initial}
    BY <1>9 DEF Restore, Recoverable, RunningReload, manager
  <2>2. RestoreWeight(k) \in Weights /\ RestoreWeight(k) # 0 /\ desired[k].weight # 0
    BY <1>4, <2>1
  <2>3. /\ UNCHANGED <<AskedOf, Draining, Kept>>
        /\ Custody!PutAside(k) \/ UNCHANGED Found
        /\ \/ /\ Present' = [Present EXCEPT ![k].weight = RestoreWeight(k)]
              /\ OwnZeros' = OwnZeros \ {k}
           \/ UNCHANGED <<Present, OwnZeros>> /\ Custody!PutAside(k)
    BY <1>1, <2>1, <2>2, IssueCustody, ViewsFollow
  <2>4. Found[k] # None /\ Found[k].weight \in {0, Found[k].initial} /\ ~Found[k].barred
    <3>1. Found[k] = Reading(snap[k])
      BY <1>1, <1>2, ReadingsTyped
    <3>2. ~Reading(snap[k]).barred
      BY <1>1 DEF Reading, Eligible
    <3> QED
      BY <1>1, <1>2, <2>1, <3>1, <3>2, ReadingsTyped
  <2>5. k[2] \notin Draining
    BY <1>1 DEF Turn, Active, Draining
  <2>6. AskedOf[k] = desired[k].weight /\ AskedOf[k] \notin {0, None}
    <3>1. AskedOf[k] = desired[k].weight
      <4>1. ~desired[k].disabled /\ desired # None
        BY <1>1, TurnFacts, ConfigAssumption, NoneAssumption DEF Eligible
      <4> QED
        BY <1>2, <1>3, <2>2, <4>1 DEF AskedOf, Asked
    <3>2. desired[k].weight \in Weights
      BY <1>3 DEF Targets
    <3> QED
      BY <2>2, <3>1, <3>2, NoneAssumption
  <2>7. Kept[k] # None /\ RestoreWeight(k) = Custody!Due(k)
    <3>1. /\ Kept[k] # None
          /\ Kept[k].weight = weights[k].weight /\ Kept[k].initial = weights[k].initialWeight
      BY <1>1, <1>2, ReadingsTyped
    <3> QED
      BY <2>6, <3>1 DEF Custody!Due, RestoreWeight
  <2>8. CASE UNCHANGED <<Present, OwnZeros>> /\ Custody!PutAside(k)
    BY <2>3, <2>4, <2>8 DEF Custody!PassBy
  <2>9. CASE /\ Present' = [Present EXCEPT ![k].weight = RestoreWeight(k)]
             /\ OwnZeros' = OwnZeros \ {k}
    <3>1. Present' = [Present EXCEPT ![k].weight = Custody!Due(k)]
      BY <2>7, <2>9
    <3> QED
      BY <2>3, <2>4, <2>5, <2>6, <2>7, <2>9, <3>1
         DEF Custody!GiveBack, Custody!Held, Custody!Draining
  <2> QED
    BY <2>3, <2>8, <2>9
<1> QED
  BY <1>5, <1>6, <1>7, <1>8, <1>9 DEF RecoverEndedDrain

\* A whole turn of reconcileDrains.
LEMMA ReconcileDrainsCustody ==
  ASSUME CInv, ReconcileDrains
  PROVE  \/ Custody!BeginRecovery
         \/ \E k \in Keys : \/ Custody!PassBy(k) \/ Custody!Take(k) \/ Custody!GiveBack(k)
                            \/ Custody!LetGo(k) \/ Custody!Forfeit(k)
         \/ UNCHANGED Custody!wcVars
<1>0. OInv /\ IInv
  BY DEF CInv, OInv
<1>1. CASE BeginReconcile
  <2>1. UNCHANGED <<Present, OwnZeros, AskedOf, Kept>>
    BY <1>1, ViewsFollow DEF BeginReconcile, process, manager
  <2>2. Draining' = Draining
    BY <1>1 DEF BeginReconcile, Draining, manager
  <2> DEFINE ks == {k \in Keys : Kept[k] # None}
  <2>3. ASSUME NEW k \in Keys PROVE Found'[k] = IF k \in ks THEN Present[k] ELSE None
    <3>1. snap'[k] = IF weights[k] # None THEN srv[k] ELSE None
      BY <1>1 DEF BeginReconcile, ReadOwned, Owned
    <3>2. Kept[k] # None <=> weights[k] # None
      BY <1>0, ReadingsTyped
    <3>3. srv[k] # None
      BY <1>0, NoneAssumption DEF IInv, TypeOK, ProcessType
    <3> QED
      BY <3>1, <3>2, <3>3 DEF Found, Present
  <2> HIDE DEF ks
  <2>4. Found' = [k \in Keys |-> IF k \in ks THEN Present[k] ELSE None]
    BY <2>3 DEF Found
  <2> QED
    BY <2>1, <2>2, <2>4 DEF ks, Custody!BeginRecovery, Custody!Look, Custody!Keys, Keys
<1>2. CASE SkipRecovery \/ EndReconcile
  <2>1. UNCHANGED <<Present, OwnZeros, AskedOf, Found, Kept>>
    BY <1>2, ViewsFollow DEF SkipRecovery, EndReconcile, process, manager, history
  <2>2. Draining' = Draining
    BY <1>2 DEF SkipRecovery, EndReconcile, Draining, manager
  <2> QED
    BY <2>1, <2>2 DEF Custody!wcVars
<1>3. ASSUME NEW k \in Keys, Forfeit(k) PROVE Custody!Forfeit(k)
  BY <1>0, <1>3, ForfeitCustody
<1>4. ASSUME NEW k \in Keys, FollowActiveDrain(k)
      PROVE  Custody!PassBy(k) \/ Custody!LetGo(k) \/ Custody!Take(k)
  BY <1>0, <1>4, FollowActiveDrainCustody
<1>5. ASSUME NEW k \in Keys, RecoverEndedDrain(k)
      PROVE  Custody!PassBy(k) \/ Custody!LetGo(k) \/ Custody!GiveBack(k)
  BY <1>0, <1>5, RecoverEndedDrainCustody
<1> QED
  BY <1>1, <1>2, <1>3, <1>4, <1>5 DEF ReconcileDrains

\* drainEndpoint, applyHaproxyConfig and reconcileDrains implement
\* WeightCustody, whatever fails, is lost, reloaded or changed by others: a
\* weight taken is kept until nobody wants it back, and what is given back is
\* what the first drain found, or what the configuration was edited to.
THEOREM WeightsAreKeptInCustody == Spec => CustodyIsKept
<1>1. Init => Custody!WCInit
  <2> SUFFICES ASSUME Init PROVE Custody!WCInit
    OBVIOUS
  <2>1. Present \in [Custody!Keys -> Custody!States]
    BY InitIInv, ReadingsTyped DEF Custody!Keys, Keys
  <2>2. AskedOf = Custody!Nothing
    BY DEF Init, AskedOf, Asked, Custody!Nothing, Custody!Keys, Keys
  <2>3. Draining = {}
    BY DEF Init, Draining
  <2>4. Found = Custody!Nothing
    BY DEF Init, Found, Custody!Nothing, Custody!Keys, Keys
  <2>5. Kept = Custody!Nothing
    BY DEF Init, Kept, Custody!Nothing, Custody!Keys, Keys
  <2>6. OwnZeros = {}
    BY DEF Init, OwnZeros
  <2> QED
    BY <2>1, <2>2, <2>3, <2>4, <2>5, <2>6 DEF Custody!WCInit
<1>2. CInv /\ [Next]_vars => [Custody!WCNext]_(Custody!wcVars)
  <2> SUFFICES ASSUME CInv, [Next]_vars PROVE Custody!WCNext \/ UNCHANGED Custody!wcVars
    OBVIOUS
  <2>1. IInv /\ IInv' /\ Keys = Custody!Keys
    BY NextIInv DEF CInv, OInv, Keys, Custody!Keys
  <2>2. CASE UNCHANGED vars
    <3>1. UNCHANGED <<Present, AskedOf, Draining, Found, Kept, OwnZeros>>
      BY <2>2, ViewsFollow DEF vars, process, manager, operation, history
    <3> QED
      BY <3>1 DEF Custody!wcVars
  <2>3. CASE Environment
    BY <2>1, <2>3, EnvironmentCustody DEF Custody!WCNext
  <2>4. CASE Restart
    BY <2>1, <2>4, RestartCustody DEF Custody!WCNext
  <2>5. CASE ApplyConfig
    BY <2>1, <2>5, ApplyConfigCustody DEF Custody!WCNext
  <2>6. CASE Drain
    BY <2>1, <2>6, DrainCustody DEF Custody!WCNext
  <2>7. CASE ReconcileDrains
    BY <2>1, <2>7, ReconcileDrainsCustody DEF Custody!WCNext
  <2>8. CASE Verify
    BY <2>1, <2>8, VerifyCustody DEF Custody!WCNext
  <2> QED
    BY <2>2, <2>3, <2>4, <2>5, <2>6, <2>7, <2>8 DEF Next, Controller
<1> QED
  BY <1>1, <1>2, CustodyInvariance, PTL DEF Spec, CustodyIsKept, Custody!WCSpec
=============================================================================
