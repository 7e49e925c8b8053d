----------------------------- MODULE TaskQueue -----------------------------
(***************************************************************************)
(* utils/utils.go: the TaskQueue that serialises the reconciliations of    *)
(* the controller and coalesces duplicate keys.  One worker runs Run; any  *)
(* goroutine may call Enqueue, Requeue or Shutdown.  A critical section of *)
(* t.mu is one step; the send to or the receive from t.wake is another, so *)
(* that a caller may be suspended between the two.                         *)
(***************************************************************************)
EXTENDS Naturals, Sequences, FiniteSets, Functions

CONSTANTS
  Keys,      \* nonempty keys
  Callers,   \* goroutines that call Enqueue, Requeue or Shutdown
  None       \* "no key"

ASSUME KeysAssumption == None \notin Keys

VARIABLES
  items,     \* keys in the order of their requests
  pending,   \* keys in items
  wake,      \* the buffered channel wake holds its one token
  stopCh,    \* stopCh is closed
  stopped,   \* stopOnce has been done
  worker,    \* where Run is: "pop", "sync", "wait" or "done"
  current,   \* the key being synchronised, or None
  caller     \* where a caller is: "idle", or "wake", past the critical section

queueVars == <<items, pending, wake, stopCh, stopped, worker, current, caller>>

QueueInit ==
  /\ items = <<>>
  /\ pending = {}
  /\ wake = FALSE
  /\ stopCh = FALSE
  /\ stopped = FALSE
  /\ worker = "pop"
  /\ current = None
  /\ caller = [c \in Callers |-> "idle"]

-----------------------------------------------------------------------------
(* The callers.                                                            *)

\* A plausible mistake: the worker is not woken.
EnqueueSilently(c, k) ==
  /\ caller[c] = "idle"
  /\ ~stopped
  /\ k \notin pending
  /\ pending' = pending \cup {k}
  /\ items' = Append(items, k)
  /\ UNCHANGED <<wake, stopCh, stopped, worker, current, caller>>

\* Enqueue returns without effect if the queue is stopped or has the key.
Ignored(k) == stopped \/ k \in pending

\* The critical section of an Enqueue that is not ignored; Requeue is Enqueue.
Enqueue(c, k) ==
  /\ caller[c] = "idle"
  /\ ~Ignored(k)
  /\ pending' = pending \cup {k}
  /\ items' = Append(items, k)
  /\ caller' = [caller EXCEPT ![c] = "wake"]
  /\ UNCHANGED <<wake, stopCh, stopped, worker, current>>

\* The critical section of the first Shutdown; the others do nothing.
Shutdown(c) ==
  /\ caller[c] = "idle"
  /\ ~stopped
  /\ stopped' = TRUE
  /\ caller' = [caller EXCEPT ![c] = "wake"]
  /\ UNCHANGED <<items, pending, wake, stopCh, worker, current>>

\* The send to wake, which does not block when a token is there.
Wake(c) ==
  /\ caller[c] = "wake"
  /\ wake' = TRUE
  /\ caller' = [caller EXCEPT ![c] = "idle"]
  /\ UNCHANGED <<items, pending, stopCh, stopped, worker, current>>

\* The owner of the queue closes stopCh.
CloseStop ==
  /\ ~stopCh
  /\ stopCh' = TRUE
  /\ UNCHANGED <<items, pending, wake, stopped, worker, current, caller>>

-----------------------------------------------------------------------------
(* The worker.                                                             *)

\* A plausible mistake: the key stays pending, so that it is not queued again.
PopKeepingPending ==
  /\ worker = "pop"
  /\ items # <<>>
  /\ current' = Head(items)
  /\ items' = Tail(items)
  /\ worker' = "sync"
  /\ UNCHANGED <<pending, wake, stopCh, stopped, caller>>

Pop ==
  /\ worker = "pop"
  /\ items # <<>>
  /\ current' = Head(items)
  /\ items' = Tail(items)
  /\ pending' = pending \ {Head(items)}
  /\ worker' = "sync"
  /\ UNCHANGED <<wake, stopCh, stopped, caller>>

PopNothing ==
  /\ worker = "pop"
  /\ items = <<>>
  /\ worker' = "wait"
  /\ UNCHANGED <<items, pending, wake, stopCh, stopped, current, caller>>

\* t.sync returns.
SyncReturns ==
  /\ worker = "sync"
  /\ worker' = "pop"
  /\ current' = None
  /\ UNCHANGED <<items, pending, wake, stopCh, stopped, caller>>

\* The select of Run, which chooses freely when both cases are ready.
Woken ==
  /\ worker = "wait"
  /\ wake
  /\ wake' = FALSE
  /\ worker' = "pop"
  /\ UNCHANGED <<items, pending, stopCh, stopped, current, caller>>

StopRun ==
  /\ worker = "wait"
  /\ stopCh
  /\ stopped' = TRUE
  /\ worker' = "done"
  /\ UNCHANGED <<items, pending, wake, stopCh, current, caller>>

Run == Pop \/ PopNothing \/ SyncReturns \/ Woken \/ StopRun

-----------------------------------------------------------------------------
QueueNext ==
  \/ \E c \in Callers : (\E k \in Keys : Enqueue(c, k)) \/ Shutdown(c) \/ Wake(c)
  \/ CloseStop
  \/ Run

QueueSpec == QueueInit /\ [][QueueNext]_queueVars

\* Goroutines that can run do: the worker and a caller inside Enqueue.
QueueFairness == WF_queueVars(Run) /\ \A c \in Callers : WF_queueVars(Wake(c))

FairQueueSpec == QueueSpec /\ QueueFairness

-----------------------------------------------------------------------------
(* Properties.                                                             *)

\* The variables stay in their types; items lists the keys of pending, each
\* once, which is what Enqueue checks and pop undoes.
QueueTypeOK ==
  /\ items \in Seq(Keys)
  /\ pending = Range(items)
  /\ IsInjective(items)
  /\ wake \in BOOLEAN
  /\ stopCh \in BOOLEAN
  /\ stopped \in BOOLEAN
  /\ worker \in {"pop", "sync", "wait", "done"}
  /\ current \in Keys \cup {None}
  /\ current # None <=> worker = "sync"
  /\ caller \in [Callers -> {"idle", "wake"}]

\* Enqueue and Run: the worker never waits while there is work and nobody is
\* about to wake it, although Enqueue sends to wake only after it has released
\* the mutex and the send is dropped when a token is there.
NoLostWakeup ==
  worker = "wait" /\ items # <<>> => wake \/ \E c \in Callers : caller[c] = "wake"

\* The queue is a coalescing queue.
Abstract == INSTANCE CoalescingQueue WITH
  wanted <- pending, running <- current, open <- ~stopped, active <- worker # "done"

\* Every step of the queue is one of the abstract queue or invisible.
CoalescesSafely == Abstract!CQSafeSpec

\* The queue implements CoalescingQueue with its fairness: no key asked for waits
\* for ever, and a request made while a key is synchronised is not merged into it.
Coalesces == Abstract!CQSpec
=============================================================================
