--------------------------- MODULE DrainRecovery ---------------------------
(***************************************************************************)
(* The runtime side of the HAProxy provider: draining an endpoint by       *)
(* writing weight zero into the running HAProxy process, remembering what  *)
(* the weight was, following reloads, and giving the weight back once the  *)
(* drain is over (provider/haproxy/drain_recovery.go and haproxy.go).      *)
(*                                                                         *)
(* All operations of the provider run under Provider.runtimeMu, so one     *)
(* variable, holder, tells which of them is running.  HAProxy, an operator *)
(* at its runtime socket, its health checks and its DNS resolver take no   *)
(* such lock: they may act between any two socket commands of the          *)
(* provider, which is why an operation works on a snapshot (snap) that may *)
(* be out of date by the time it writes.                                   *)
(***************************************************************************)
EXTENDS Naturals, FiniteSets

CONSTANTS
  Backends,    \* UUIDs of HAProxy backends
  Endpoints,   \* endpoint names (hash of the target's IP)
  MaxWeight,   \* greatest server weight, 256 in HAProxy
  Configs,     \* the desired configurations metadata may produce
  OperatorWeights, \* the weights an operator may set at the runtime socket
  MaxPid,      \* bound: number of HAProxy processes started in a behaviour
  None         \* "not in the map", "no file", "no command"

\* A server of HAProxy: "<backend UUID>/<endpoint name>".
Keys == Backends \X Endpoints
Weights == 0..MaxWeight

\* desiredEndpoint.  A stopping container is always rendered with weight 0.
Targets ==
  {t \in [weight : Weights, disabled : BOOLEAN, temporaryZero : BOOLEAN] :
     t.temporaryZero => t.weight = 0}

\* drainWeight, the ownership record of one server.
Ownership ==
  [weight : Weights, initialWeight : Weights, pid : Nat,
   stoppingReload : BOOLEAN, retry : BOOLEAN]

\* One line of "show servers state".  "operator" stands for any bit of
\* operatorAdminState, "transient" for RMAINT alone; up is srv_op_state = 2.
Servers ==
  [exists : BOOLEAN, weight : Weights, initial : Weights,
   admin : {"none", "transient", "operator"}, up : BOOLEAN]

ASSUME WeightAssumption == MaxWeight \in Nat
ASSUME ConfigAssumption == Configs \subseteq [Keys -> Targets \cup {None}]
ASSUME OperatorAssumption == OperatorWeights \subseteq Weights
ASSUME BoundAssumption == MaxPid \in Nat
ASSUME NoneAssumption ==
  /\ None \notin Targets
  /\ None \notin Ownership
  /\ None \notin Servers
  /\ None \notin [Keys -> Targets \cup {None}]
  /\ None \notin [key : Keys, weight : Weights]
  /\ None \notin Endpoints
  /\ None \notin Weights
  /\ None \notin [weight : Weights, initial : Weights]
  /\ None \notin [weight : Weights, initial : Weights, barred : BOOLEAN]

VARIABLES
  \* HAProxy and the files it is started from
  pid,      \* number of the process named by the PID file, 0 before the first
  alive,    \* whether that process is running and answers on its socket
  srv,      \* its servers
  file,     \* contents of /etc/haproxy/haproxy.cfg, None if missing
  \* the controller
  drainList, weights, desired, recoveryBlocked,
  \* the operation that holds runtimeMu
  holder,   \* "free", "apply", "recover", "reconcile" or "drain"
  lbConfig, \* argument of the last ApplyConfig
  ep,       \* argument of DrainEndpoint
  snap,     \* servers read by the operation and still to be processed
  cmd,      \* "set server weight" answered, not read back yet
  failed,   \* a weight change of this DrainEndpoint failed
  \* history
  writer,   \* who set the present runtime weight of each server
  claimed   \* servers this controller sent a zero to in this process, carried out
            \* or not, since it last read an operator's setting there

process == <<pid, alive, srv, file>>
manager == <<drainList, weights, desired, recoveryBlocked>>
operation == <<holder, lbConfig, ep, snap, cmd, failed>>
history == <<writer, claimed>>
vars == <<process, manager, operation, history>>

-----------------------------------------------------------------------------
(* HAProxy and its environment.                                            *)

\* The server a process starts with for a line of its configuration file.
ServerOf(t) ==
  IF t = None
  THEN [exists |-> FALSE, weight |-> 0, initial |-> 0, admin |-> "none", up |-> FALSE]
  ELSE [exists |-> TRUE, weight |-> t.weight, initial |-> t.weight,
        admin |-> IF t.disabled THEN "operator" ELSE "none", up |-> TRUE]

\* A new process replaces the running one and knows nothing of its weights.
NewProcess(cfg) ==
  /\ pid < MaxPid
  /\ pid' = pid + 1
  /\ alive' = TRUE
  /\ srv' = [k \in Keys |-> ServerOf(cfg[k])]
  /\ writer' = [k \in Keys |-> "config"]
  /\ claimed' = {}

NoProcess ==
  /\ pid' = pid
  /\ alive' = FALSE
  /\ srv' = [k \in Keys |-> ServerOf(None)]
  /\ writer' = [k \in Keys |-> "config"]
  /\ claimed' = {}

\* "set server <k> weight <w>" by an operator.  Assigning the weight a server
\* already has leaves nothing to see.
OperatorSetsWeight(k, w) ==
  /\ srv[k].exists
  /\ srv[k].weight # w
  /\ srv' = [srv EXCEPT ![k].weight = w]
  /\ writer' = [writer EXCEPT ![k] = "operator"]
  /\ UNCHANGED <<pid, alive, file, manager, operation, claimed>>

\* "set server <k> state ...", or the resolver losing and finding a name.
AdminStateChanges(k, a) ==
  /\ srv[k].exists
  /\ srv[k].admin # a
  /\ srv' = [srv EXCEPT ![k].admin = a]
  /\ UNCHANGED <<pid, alive, file, manager, operation, history>>

HealthChanges(k) ==
  /\ srv[k].exists
  /\ srv' = [srv EXCEPT ![k].up = ~@]
  /\ UNCHANGED <<pid, alive, file, manager, operation, history>>

-----------------------------------------------------------------------------
(* Socket commands of the controller.                                      *)

Owned == {k \in Keys : weights[k] # None}
Pending == {k \in Keys : snap[k] # None}
Active(k) == k[2] \in drainList

\* HAProxy carries out "set server <k> weight <w>" for the controller.
Deliver(k, w) ==
  /\ srv[k].exists
  /\ srv' = [srv EXCEPT ![k].weight = w]
  /\ writer' = [writer EXCEPT ![k] = "controller"]

Done(k) == snap' = [snap EXCEPT ![k] = None]

\* The weight change of server k did not succeed; the loop goes on.
CommandFails(k) ==
  /\ Done(k)
  /\ cmd' = None
  /\ failed' = (holder = "drain")

\* setWeight: the answer arrives, or the two-second deadline passes with or
\* without HAProxy having carried the command out, or HAProxy refuses it.
Issue(k, w) ==
  /\ claimed' = IF w = 0 THEN claimed \cup {k} ELSE claimed
  /\ \/ /\ Deliver(k, w)
        /\ cmd' = [key |-> k, weight |-> w]
        /\ UNCHANGED <<snap, failed>>
     \/ Deliver(k, w) /\ CommandFails(k)
     \/ UNCHANGED <<srv, writer>> /\ CommandFails(k)
  /\ UNCHANGED <<pid, alive, file, holder, lbConfig, ep>>

\* The readback of setWeightVerified, and what its caller does on success:
\* an active drain is settled, a restored weight needs no owner any more.
VerifySucceeds ==
  /\ cmd # None
  /\ LET k == cmd.key IN
     /\ srv[k].exists
     /\ srv[k].weight = cmd.weight
     /\ weights' =
          CASE holder = "drain" -> weights
            [] holder # "drain" /\ Active(k) -> [weights EXCEPT ![k].retry = FALSE]
            [] OTHER -> [weights EXCEPT ![k] = None]
     /\ Done(k)
  /\ cmd' = None
  /\ UNCHANGED <<process, drainList, desired, recoveryBlocked, holder,
                 lbConfig, ep, failed, history>>

VerifyFails ==
  /\ cmd # None
  /\ CommandFails(cmd.key)
  /\ UNCHANGED <<process, manager, holder, lbConfig, ep, history>>

-----------------------------------------------------------------------------
(* ApplyConfig: write the configuration, reload HAProxy, publish the       *)
(* desired targets and recover.                                            *)

\* Fault: an apply that may still fail does not block recovery.
StartApplyUnblocked(cfg) ==
  /\ holder = "free"
  /\ holder' = "apply"
  /\ lbConfig' = cfg
  /\ UNCHANGED <<process, manager, ep, snap, cmd, failed, history>>

\* A failure from here on leaves recovery blocked until an apply succeeds.
StartApply(cfg) ==
  /\ holder = "free"
  /\ holder' = "apply"
  /\ lbConfig' = cfg
  /\ recoveryBlocked' = TRUE
  /\ UNCHANGED <<process, drainList, weights, desired, ep, snap, cmd, failed, history>>

\* A certificate or the new configuration could not be written.
WriteFails ==
  /\ holder = "apply"
  /\ holder' = "free"
  /\ UNCHANGED <<process, manager, lbConfig, ep, snap, cmd, failed, history>>

\* setDesired, and on to the recovery at the end of applyHaproxyConfig.
PublishDesired ==
  /\ desired' = lbConfig
  /\ recoveryBlocked' = FALSE
  /\ holder' = "recover"
  /\ UNCHANGED <<drainList, weights, lbConfig, ep, snap, cmd, failed>>

\* haproxy_reload finds neither the configuration nor a certificate changed.
ReloadSkipped ==
  /\ holder = "apply"
  /\ lbConfig = file
  /\ PublishDesired
  /\ UNCHANGED <<process, history>>

ReloadStarts ==
  /\ holder = "apply"
  /\ file' = lbConfig
  /\ NewProcess(lbConfig)
  /\ PublishDesired

\* The script has already replaced the file when the check of the
\* configuration, rsyslog or HAProxy itself fails.
ReloadFails ==
  /\ holder = "apply"
  /\ file' = lbConfig
  /\ holder' = "free"
  /\ UNCHANGED <<pid, alive, srv, manager, lbConfig, ep, snap, cmd, failed, history>>

ApplyConfig ==
  \/ \E cfg \in Configs : StartApply(cfg)
  \/ WriteFails
  \/ ReloadSkipped
  \/ ReloadStarts
  \/ ReloadFails

-----------------------------------------------------------------------------
(* DrainEndpoint and RemoveEndpointFromDrain.                              *)

\* Already in the drain list, no statistics, no PID file, no answer on the
\* socket: nothing changes.  Otherwise the servers of the endpoint that carry
\* traffic are drained one after the other.
StartDrain(e) ==
  /\ holder = "free"
  /\ e \notin drainList
  /\ alive
  /\ \E k \in Keys : k[2] = e /\ srv[k].exists
  /\ holder' = "drain"
  /\ ep' = e
  /\ snap' = [k \in Keys |->
                IF /\ k[2] = e /\ srv[k].exists
                   /\ srv[k].admin = "none" /\ srv[k].weight # 0
                THEN srv[k] ELSE None]
  /\ failed' = FALSE
  /\ UNCHANGED <<process, manager, lbConfig, cmd, history>>

\* Fault: a server drained again stays bound to the process it was first
\* drained in.
DrainServerStalePid(k) ==
  /\ holder = "drain" /\ cmd = None /\ snap[k] # None
  /\ weights' =
       [weights EXCEPT ![k] =
          IF @ = None
          THEN [weight |-> snap[k].weight, initialWeight |-> snap[k].initial,
                pid |-> pid, stoppingReload |-> FALSE, retry |-> FALSE]
          ELSE @]
  /\ Issue(k, 0)
  /\ UNCHANGED <<drainList, desired, recoveryBlocked>>

\* Fault: every drain saves anew, whatever is owned from an earlier one.
DrainServerSavingAnew(k) ==
  /\ holder = "drain" /\ cmd = None /\ snap[k] # None
  /\ weights' =
       [weights EXCEPT ![k] =
          [weight |-> snap[k].weight, initialWeight |-> snap[k].initial,
           pid |-> pid, stoppingReload |-> FALSE, retry |-> FALSE]]
  /\ Issue(k, 0)
  /\ UNCHANGED <<drainList, desired, recoveryBlocked>>

\* Provenance is saved before the zero is sent; a server still owned from an
\* earlier drain keeps the weight saved then.
DrainServer(k) ==
  /\ holder = "drain"
  /\ cmd = None
  /\ snap[k] # None
  /\ weights' =
       [weights EXCEPT ![k] =
          IF @ = None
          THEN [weight |-> snap[k].weight, initialWeight |-> snap[k].initial,
                pid |-> pid, stoppingReload |-> FALSE, retry |-> FALSE]
          ELSE [@ EXCEPT !.pid = pid]]
  /\ Issue(k, 0)
  /\ UNCHANGED <<drainList, desired, recoveryBlocked>>

\* Fault: the argument is dropped before the endpoint is recorded.
FinishDrainDropped ==
  /\ holder = "drain" /\ cmd = None /\ Pending = {}
  /\ ep' = None
  /\ drainList' \in IF failed THEN {drainList} ELSE {drainList, drainList \cup {ep'}}
  /\ holder' = "free" /\ failed' = FALSE
  /\ UNCHANGED <<process, weights, desired, recoveryBlocked, lbConfig, snap, cmd, history>>

\* The drain is refused if a weight change failed, and not needed if neither
\* this process nor an older one has a session; ownership stays either way.
FinishDrain ==
  /\ holder = "drain"
  /\ cmd = None
  /\ Pending = {}
  /\ drainList' \in IF failed THEN {drainList} ELSE {drainList, drainList \cup {ep}}
  /\ holder' = "free"
  /\ ep' = None
  /\ failed' = FALSE
  /\ UNCHANGED <<process, weights, desired, recoveryBlocked, lbConfig, snap, cmd, history>>

\* Called when the drain completed or timed out.
RemoveEndpointFromDrain(e) ==
  /\ holder = "free"
  /\ e \in drainList
  /\ drainList' = drainList \ {e}
  /\ UNCHANGED <<process, weights, desired, recoveryBlocked, operation, history>>

-----------------------------------------------------------------------------
(* reconcileDrains, entered by the five-second ticker and by ApplyConfig.  *)

\* An operator has set the server's weight or its admin state.
Overridden(k) ==
  \/ srv[k].admin = "operator"
  \/ srv[k].admin = "none" /\ srv[k].weight # 0 /\ writer[k] = "operator"

\* readServerStates.  A setting of an operator that is read ends the claim.
ReadOwned ==
  /\ snap' = [k \in Keys |-> IF k \in Owned THEN srv[k] ELSE None]
  /\ claimed' = {k \in claimed : ~Overridden(k)}

\* Fault: no ticker, recovery runs after a successful apply only.
BeginReconcileOnApply ==
  /\ holder = "recover"
  /\ ~recoveryBlocked /\ Owned # {} /\ desired # None /\ alive
  /\ holder' = "reconcile"
  /\ ReadOwned
  /\ UNCHANGED <<process, manager, lbConfig, ep, cmd, failed, writer>>

BeginReconcile ==
  /\ holder \in {"free", "recover"}
  /\ ~recoveryBlocked
  /\ Owned # {}
  /\ desired # None
  /\ alive
  /\ holder' = "reconcile"
  /\ ReadOwned
  /\ UNCHANGED <<process, manager, lbConfig, ep, cmd, failed, writer>>

\* Nothing is owned, or the PID file or the server states cannot be read.
SkipRecovery ==
  /\ holder = "recover"
  /\ holder' = "free"
  /\ UNCHANGED <<process, manager, lbConfig, ep, snap, cmd, failed, history>>

EndReconcile ==
  /\ holder = "reconcile"
  /\ cmd = None
  /\ Pending = {}
  /\ holder' = "free"
  /\ UNCHANGED <<process, manager, lbConfig, ep, snap, cmd, failed, history>>

StoppingZero(k) == desired[k].temporaryZero /\ desired[k].weight = 0

\* The server is there, and its weight is neither the configuration's nor the
\* operator's to decide.
Eligible(k) ==
  /\ snap[k].exists
  /\ desired[k] # None
  /\ ~desired[k].disabled
  /\ desired[k].weight # 0 \/ desired[k].temporaryZero
  /\ snap[k].admin # "operator"

SameProcess(k) == weights[k].pid = pid

\* Server k is the next one the loop looks at.
Turn(k) ==
  /\ holder = "reconcile"
  /\ cmd = None
  /\ snap[k] # None

LeaveProcess == UNCHANGED <<process, drainList, desired, recoveryBlocked,
                            holder, lbConfig, ep, cmd, failed, claimed>>
Keep(k) == Done(k) /\ LeaveProcess /\ UNCHANGED <<weights, writer>>
Rebind(k, o) ==
  /\ weights' = [weights EXCEPT ![k] = o]
  /\ Done(k) /\ LeaveProcess /\ UNCHANGED writer
Forget(k) == Rebind(k, None)

\* From here on whatever zero the server shows is no longer the controller's.
Forfeit(k) ==
  /\ Turn(k)
  /\ ~Eligible(k)
  /\ weights' = [weights EXCEPT ![k] = None]
  /\ writer' = [writer EXCEPT ![k] = IF @ = "controller" THEN "released" ELSE @]
  /\ Done(k) /\ LeaveProcess

-----------------------------------------------------------------------------
(* A server whose endpoint is being drained.                               *)

ActiveTurn(k) == Turn(k) /\ Active(k) /\ Eligible(k)
AwaitResolution(k) == ActiveTurn(k) /\ snap[k].admin # "none" /\ Keep(k)

\* The zero of this drain was verified in this very process.
Settled(k) ==
  ActiveTurn(k) /\ snap[k].admin = "none" /\ SameProcess(k) /\ ~weights[k].retry
HoldDrain(k) == Settled(k) /\ snap[k].weight = 0 /\ Keep(k)
YieldToOverride(k) == Settled(k) /\ snap[k].weight # 0 /\ Forget(k)

\* A reload has replaced the process since.
Replaced(k) == ActiveTurn(k) /\ snap[k].admin = "none" /\ ~SameProcess(k)
BornStopping(k) == StoppingZero(k) /\ snap[k].initial = 0 /\ snap[k].weight = 0

FollowStoppingReload(k) ==
  /\ Replaced(k)
  /\ BornStopping(k)
  /\ Rebind(k, [weights[k] EXCEPT !.pid = pid, !.retry = FALSE, !.stoppingReload = TRUE])

LeaveForeignZero(k) ==
  Replaced(k) /\ ~BornStopping(k) /\ snap[k].weight = 0 /\ Keep(k)

YieldToCustomWeight(k) ==
  Replaced(k) /\ snap[k].weight \notin {0, snap[k].initial} /\ Forget(k)

AwaitAppliedConfig(k) ==
  /\ Replaced(k)
  /\ snap[k].weight # 0
  /\ snap[k].weight = snap[k].initial
  /\ snap[k].initial # desired[k].weight
  /\ Keep(k)

\* The replacement runs the desired weight, or an earlier attempt failed.
MayReapply(k) ==
  \/ /\ ActiveTurn(k) /\ snap[k].admin = "none"
     /\ SameProcess(k) /\ weights[k].retry
  \/ /\ Replaced(k)
     /\ snap[k].weight # 0
     /\ snap[k].weight = snap[k].initial
     /\ snap[k].initial = desired[k].weight

ReapplyConfirmed(k) ==
  /\ MayReapply(k)
  /\ snap[k].weight = 0
  /\ Rebind(k, [weights[k] EXCEPT !.retry = FALSE])

Reapply(k) ==
  /\ MayReapply(k)
  /\ snap[k].weight # 0
  /\ weights' = [weights EXCEPT ![k].pid = pid, ![k].retry = TRUE]
  /\ Issue(k, 0)
  /\ UNCHANGED <<drainList, desired, recoveryBlocked>>

FollowActiveDrain(k) ==
  \/ AwaitResolution(k) \/ HoldDrain(k) \/ YieldToOverride(k)
  \/ FollowStoppingReload(k) \/ LeaveForeignZero(k) \/ YieldToCustomWeight(k)
  \/ AwaitAppliedConfig(k) \/ ReapplyConfirmed(k) \/ Reapply(k)

-----------------------------------------------------------------------------
(* A server whose drain is over.                                           *)

EndedTurn(k) == Turn(k) /\ ~Active(k) /\ Eligible(k)

\* Metadata still says "stopping": the zero is the desired weight for now.
YieldToStoppingOverride(k) ==
  EndedTurn(k) /\ StoppingZero(k) /\ snap[k].weight # 0 /\ Forget(k)

KeepThroughStopping(k) ==
  /\ EndedTurn(k)
  /\ StoppingZero(k)
  /\ snap[k].weight = 0
  /\ IF ~SameProcess(k) /\ snap[k].initial = 0
     THEN Rebind(k, [weights[k] EXCEPT !.pid = pid, !.stoppingReload = TRUE])
     ELSE Keep(k)

\* An edit of the configured weight supersedes the saved runtime weight.
RestoreWeight(k) ==
  IF desired[k].weight # weights[k].initialWeight
  THEN desired[k].weight ELSE weights[k].weight

\* A process started from the running configuration after one that was
\* started from the stopping configuration.
RunningReload(k) ==
  /\ weights[k].stoppingReload
  /\ ~SameProcess(k)
  /\ snap[k].weight # 0
  /\ snap[k].initial = desired[k].weight
  /\ snap[k].weight \in {snap[k].initial, RestoreWeight(k)}

YieldToRuntimeWeight(k) ==
  /\ EndedTurn(k) /\ ~StoppingZero(k)
  /\ snap[k].weight # 0 /\ ~RunningReload(k)
  /\ Forget(k)

\* Nothing proves that the controller zeroed this process.
ExpireOwnership(k) ==
  /\ EndedTurn(k) /\ ~StoppingZero(k)
  /\ snap[k].weight = 0 /\ ~SameProcess(k)
  /\ Forget(k)

\* Fault: any zero is taken for the controller's, whatever process shows it.
RecoverableAnywhere(k) ==
  EndedTurn(k) /\ ~StoppingZero(k) /\ (snap[k].weight = 0 \/ RunningReload(k))

Recoverable(k) ==
  /\ EndedTurn(k) /\ ~StoppingZero(k)
  /\ \/ snap[k].weight = 0 /\ SameProcess(k)
     \/ RunningReload(k)

Healthy(k) == snap[k].admin = "none" /\ snap[k].up
AwaitHealth(k) == Recoverable(k) /\ ~Healthy(k) /\ Keep(k)

RestoreConfirmed(k) ==
  /\ Recoverable(k) /\ Healthy(k)
  /\ snap[k].weight = RestoreWeight(k)
  /\ Forget(k)

\* Ownership is given up by VerifySucceeds, after the readback.
Restore(k) ==
  /\ Recoverable(k) /\ Healthy(k)
  /\ snap[k].weight # RestoreWeight(k)
  /\ Issue(k, RestoreWeight(k))
  /\ UNCHANGED manager

RecoverEndedDrain(k) ==
  \/ YieldToStoppingOverride(k) \/ KeepThroughStopping(k)
  \/ YieldToRuntimeWeight(k) \/ ExpireOwnership(k)
  \/ AwaitHealth(k) \/ RestoreConfirmed(k) \/ Restore(k)

-----------------------------------------------------------------------------
(* Start, restart and the specification.                                   *)

\* The state of a controller that has just been started.
FreshController ==
  /\ drainList' = {}
  /\ weights' = [k \in Keys |-> None]
  /\ desired' = None
  /\ recoveryBlocked' = FALSE
  /\ holder' = "free"
  /\ lbConfig' = None
  /\ ep' = None
  /\ snap' = [k \in Keys |-> None]
  /\ cmd' = None
  /\ failed' = FALSE

\* The container is restarted: StartHaproxy starts HAProxy from the file the
\* last reload left, if it can; ownership is not reconstructed.
Restart ==
  /\ FreshController
  /\ UNCHANGED file
  /\ \/ file # None /\ NewProcess(file)
     \/ NoProcess

Init ==
  /\ pid = 0
  /\ alive = FALSE
  /\ srv = [k \in Keys |-> ServerOf(None)]
  /\ file = None
  /\ drainList = {}
  /\ weights = [k \in Keys |-> None]
  /\ desired = None
  /\ recoveryBlocked = FALSE
  /\ holder = "free"
  /\ lbConfig = None
  /\ ep = None
  /\ snap = [k \in Keys |-> None]
  /\ cmd = None
  /\ failed = FALSE
  /\ writer = [k \in Keys |-> "config"]
  /\ claimed = {}

Drain ==
  \/ \E e \in Endpoints : StartDrain(e) \/ RemoveEndpointFromDrain(e)
  \/ \E k \in Keys : DrainServer(k)
  \/ FinishDrain

ReconcileDrains ==
  \/ BeginReconcile \/ SkipRecovery \/ EndReconcile
  \/ \E k \in Keys : Forfeit(k) \/ FollowActiveDrain(k) \/ RecoverEndedDrain(k)

Verify == VerifySucceeds \/ VerifyFails

Controller == ApplyConfig \/ Drain \/ ReconcileDrains \/ Verify

Environment ==
  \E k \in Keys :
    \/ \E w \in OperatorWeights : OperatorSetsWeight(k, w)
    \/ \E a \in {"none", "transient", "operator"} : AdminStateChanges(k, a)
    \/ HealthChanges(k)

Next == Controller \/ Environment \/ Restart

Spec == Init /\ [][Next]_vars

\* An operation that holds the lock runs on; the ticker gets its turn at the
\* lock again and again; a socket that is tried for ever answers some time.
Fairness ==
  /\ WF_vars(Controller /\ holder # "free")
  /\ SF_vars(BeginReconcile)
  /\ \A k \in Keys :
       /\ SF_vars(Restore(k) /\ cmd' # None)
       /\ SF_vars(holder = "reconcile" /\ snap[k] # None /\ VerifySucceeds)

FairSpec == Spec /\ Fairness

-----------------------------------------------------------------------------
(* Properties.                                                             *)

ProcessType ==
  /\ pid \in 0..MaxPid
  /\ alive \in BOOLEAN
  /\ srv \in [Keys -> Servers]
  /\ file \in Configs \cup {None}

ManagerType ==
  /\ drainList \subseteq Endpoints
  /\ weights \in [Keys -> Ownership \cup {None}]
  /\ desired \in Configs \cup {None}
  /\ recoveryBlocked \in BOOLEAN

OperationType ==
  /\ holder \in {"free", "apply", "recover", "reconcile", "drain"}
  /\ lbConfig \in Configs \cup {None}
  /\ ep \in Endpoints \cup {None}
  /\ snap \in [Keys -> Servers \cup {None}]
  /\ cmd \in [key : Keys, weight : Weights] \cup {None}
  /\ failed \in BOOLEAN

HistoryType ==
  /\ writer \in [Keys -> {"config", "controller", "operator", "released"}]
  /\ claimed \subseteq Keys

\* Every variable keeps its type (drainMgr, Provider and the locals of the
\* operations of drain_recovery.go).
TypeOK == ProcessType /\ ManagerType /\ OperationType /\ HistoryType

\* A zero this controller put into the running process is never forgotten:
\* as long as it is there the server is owned, in this process, with a weight
\* to go back to (reconcileDrains deletes "the only proof of drain ownership"
\* only after a verified readback, or when the server is forfeited).
ZeroIsOwned ==
  \A k \in Keys :
    writer[k] = "controller" /\ srv[k].weight = 0 =>
      weights[k] # None /\ weights[k].pid = pid /\ weights[k].weight # 0

\* The controller raises the weight of server k in this step.
Raises(k) ==
  /\ holder = "reconcile"
  /\ pid' = pid
  /\ writer'[k] = "controller"
  /\ srv'[k].weight # srv[k].weight
  /\ srv'[k].weight # 0

\* reconcileDrains gives a weight back only where it read a zero, and only after
\* this controller had sent one to this very process and had read no setting of
\* an operator there since; or where the process, or the one before it, was
\* started while the target was stopping.  So a zero from before the drain, the
\* unexplained zero of a replaced process and an override that was read stand.
\* What an operator sets after the reading, and a zero of his after the
\* controller's, cannot be told apart: see OverridesArePreserved.
RestoresOnlyOwnZero ==
  [][\A k \in Keys : Raises(k) =>
       \/ snap[k].weight = 0 /\ k \in claimed
       \/ weights[k].stoppingReload /\ snap[k].weight = snap[k].initial]_vars

\* Whatever weight is given back is one the configuration last passed to
\* ApplyConfig allows, even if applying that configuration failed.
RestoreHonoursLatestConfig ==
  [][\A k \in Keys : Raises(k) =>
       /\ lbConfig[k] # None
       /\ ~lbConfig[k].disabled
       /\ lbConfig[k].weight # 0
       /\ \/ srv'[k].weight = lbConfig[k].weight
          \/ srv'[k].weight = weights[k].weight /\ lbConfig[k].weight = weights[k].initialWeight]_vars

\* The promise of WeightCustody, in terms of the running process, the drain
\* manager and the operation that holds the lock.  A record is custody of a
\* weight, whichever process it is bound to.
Draining == drainList \cup (IF holder = "drain" THEN {ep} ELSE {})

\* What the configuration passed last wants of a server, once it is applied.
Asked(k) ==
  IF lbConfig = None THEN None
  ELSE LET t == lbConfig[k] IN
       IF t = None THEN None
       ELSE IF t.disabled \/ (t.weight = 0 /\ ~t.temporaryZero) THEN None ELSE t.weight

Reading(s) ==
  [weight |-> s.weight, initial |-> s.initial, barred |-> ~s.exists \/ s.admin = "operator"]

Present == [k \in Keys |-> Reading(srv[k])]
AskedOf == [k \in Keys |-> Asked(k)]
Found == [k \in Keys |-> IF snap[k] = None THEN None ELSE Reading(snap[k])]
Kept ==
  [k \in Keys |-> IF weights[k] = None THEN None
                  ELSE [weight |-> weights[k].weight, initial |-> weights[k].initialWeight]]
OwnZeros == {k \in Keys : writer[k] = "controller" /\ srv[k].weight = 0}

Custody == INSTANCE WeightCustody WITH
  server <- Present, asked <- AskedOf, draining <- Draining, found <- Found,
  custody <- Kept, zeros <- OwnZeros

\* Drains, reloads and recoveries together keep the promise of WeightCustody,
\* over failed applies, lost commands and any number of HAProxy processes: a
\* weight is given back as the first drain since found it, or as edited since
\* (drainEndpoint, reconcileDrains).
CustodyIsKept == Custody!WCSpec

\* README: "Across a HAProxy PID change, an active drain is reapplied only to
\* an unchanged configured initial weight, never to a runtime custom weight
\* observed in the replacement process."
ReappliesOnlyInitialWeight ==
  [][\A k \in Keys :
       /\ holder = "reconcile" /\ snap[k] # None
       /\ srv'[k].weight = 0 /\ srv[k].weight # 0
       /\ writer'[k] = "controller"
       => snap[k].weight = snap[k].initial]_vars

\* README: "Only weights changed by this controller are eligible.  Existing zero
\* weights, manual MAINT/DRAIN, configured `disabled` or weight zero, and later
\* same-process or nondefault runtime overrides are preserved."
OverridesArePreserved ==
  [][\A k \in Keys : Raises(k) => writer[k] # "operator"]_vars

\* The environment no longer stands in the way of recovering server k.
Calm(k) ==
  /\ alive /\ ~recoveryBlocked /\ desired # None
  /\ srv[k].up /\ srv[k].admin = "none"
  /\ desired[k] # None /\ ~desired[k].temporaryZero

\* Recovery of an ended drain comes to an end: the weight is given back and
\* verified, or ownership is given up, or the endpoint is drained again.
RecoveryEnds ==
  \A k \in Keys :
    <>[]Calm(k) => (weights[k] # None ~> weights[k] = None \/ Active(k))
=============================================================================
