-------------------------- MODULE MCDrainRecovery --------------------------
(* Instances of DrainRecovery for TLC. *)
EXTENDS DrainRecovery

Running(w) == [weight |-> w, disabled |-> FALSE, temporaryZero |-> FALSE]
Stopping == [weight |-> 0, disabled |-> FALSE, temporaryZero |-> TRUE]
Disabled == [weight |-> 1, disabled |-> TRUE, temporaryZero |-> FALSE]

\* Every server has the same target.
Uniform(targets) == {[k \in Keys |-> t] : t \in targets}

LifecycleConfigs == Uniform({Running(1), Stopping})
AllConfigs == Uniform({Running(1), Running(2), Running(0), Stopping, Disabled, None})
=============================================================================
