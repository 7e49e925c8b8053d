---------------------------- MODULE EventRouter ----------------------------
(***************************************************************************)
(* The subscription to the events of the control plane: the reconnecting   *)
(* loop of REventsHandler.Subscribe, EventRouter.run with the goroutines   *)
(* that ping the connection and watch for pongs, and the worker pool that  *)
(* is shared by all connections (internal/events).                         *)
(*                                                                         *)
(* Time is counted in intervals of DefaultPingConfig, in which pings are   *)
(* sent and pongs are checked alike.  A peer that is up answers a ping     *)
(* before the next check.  The ping of an interval is taken to follow its  *)
(* check: sent before it, it is answered no later.                         *)
(***************************************************************************)
EXTENDS Naturals, FiniteSets

CONSTANTS
  Events,     \* events the control plane may send
  PoolSize,   \* size of the worker pool
  MaxWait,    \* MaxPongWait in intervals
  MaxConns    \* bound: number of connections in a behaviour

ASSUME PoolAssumption == PoolSize \in Nat \ {0}
ASSUME WaitAssumption == MaxWait \in Nat \ {0, 1}
ASSUME ConnsAssumption == MaxConns \in Nat
ASSUME EventsAssumption == IsFiniteSet(Events)

\* Connections are numbered in the order they are made.
Conns == 1..MaxConns

VARIABLES
  stream,   \* router.eventStream, 0 before the first connection
  run,      \* where the subscriber's goroutine is
  peer,     \* the other end: "up", "silent" (no answer) or "gone" (reset)
  closed,   \* connections closed by this end
  pinger,   \* where the goroutine of sendWebsocketPings started for n is
  ping,     \* progress of the ping of this interval on n
  timer,    \* where the goroutine of startTimer started for n is
  quiet,    \* intervals since lastPing
  event,    \* what became of an event
  workers   \* number of workers in the channel

connVars == <<stream, run, peer, closed>>
pingVars == <<pinger, ping, timer, quiet>>
workVars == <<event, workers>>
vars == <<connVars, pingVars, workVars>>

Init ==
  /\ stream = 0
  /\ run = "subscribe"
  /\ peer = [n \in Conns |-> "up"]
  /\ closed = {}
  /\ pinger = [n \in Conns |-> "none"]
  /\ ping = [n \in Conns |-> "idle"]
  /\ timer = [n \in Conns |-> "none"]
  /\ quiet = [n \in Conns |-> 0]
  /\ event = [e \in Events |-> "none"]
  /\ workers = PoolSize

-----------------------------------------------------------------------------
(* The other end.                                                          *)

PeerFails(n) ==
  /\ n <= stream
  /\ \/ peer[n] = "up" /\ \E s \in {"silent", "gone"} : peer' = [peer EXCEPT ![n] = s]
     \/ peer[n] = "silent" /\ peer' = [peer EXCEPT ![n] = "gone"]
  /\ UNCHANGED <<stream, run, closed, pingVars, workVars>>

\* The pong reaches this end.
PeerAnswers(n) ==
  /\ ping[n] = "sent"
  /\ peer[n] = "up"
  /\ ping' = [ping EXCEPT ![n] = "answered"]
  /\ UNCHANGED <<connVars, pinger, timer, quiet, workVars>>

-----------------------------------------------------------------------------
(* run, which Subscribe calls again a second after it returned.            *)

\* lastPing is the time of the connection, an interval before the first check.
Connect ==
  /\ run = "subscribe"
  /\ stream < MaxConns
  /\ LET n == stream + 1 IN
     /\ stream' = n
     /\ timer' = [timer EXCEPT ![n] = "wait"]
     /\ quiet' = [quiet EXCEPT ![n] = 1]
     /\ pinger' = [pinger EXCEPT ![n] = "wait"]
  /\ run' = "reading"
  /\ UNCHANGED <<peer, closed, ping, workVars>>

\* ReadMessage returns an error.
ReadFails ==
  /\ run = "reading"
  /\ stream \in closed \/ peer[stream] = "gone"
  /\ run' = "stopping"
  /\ UNCHANGED <<stream, peer, closed, pingVars, workVars>>

\* A plausible mistake: the send to done does not wait for the timer, so that
\* a timer on its way to Stop goes on.
StopTimerBuffered ==
  /\ run = "stopping"
  /\ timer' = [timer EXCEPT ![stream] = IF @ = "wait" THEN "done" ELSE @]
  /\ run' = "closing"
  /\ UNCHANGED <<stream, peer, closed, pinger, ping, quiet, workVars>>

\* ph.stop: the send to done is received by the timer in its select.
StopTimer ==
  /\ run = "stopping"
  /\ timer[stream] = "wait"
  /\ timer' = [timer EXCEPT ![stream] = "done"]
  /\ run' = "closing"
  /\ UNCHANGED <<stream, peer, closed, pinger, ping, quiet, workVars>>

\* EventRouter.Stop closes whatever connection is the current one.
Stop == closed' = closed \cup {stream}

CloseStream ==
  /\ run = "closing"
  /\ Stop
  /\ run' = "subscribe"
  /\ UNCHANGED <<stream, peer, pingVars, workVars>>

\* ReadMessage calls the pong handler.
HandlePong ==
  /\ run = "reading"
  /\ stream \notin closed
  /\ ping[stream] = "answered"
  /\ ping' = [ping EXCEPT ![stream] = "idle"]
  /\ quiet' = [quiet EXCEPT ![stream] = 0]
  /\ UNCHANGED <<connVars, pinger, timer, workVars>>

-----------------------------------------------------------------------------
(* sendWebsocketPings, started for connection n, pings the connection that *)
(* is current when its ticker fires and ends when that fails.              *)

\* A connection that is already being pinged, or has its pong under way, needs
\* no second record of it.
Ping(n) ==
  IF stream = n
  THEN ping[n] = "due" /\ ping' = [ping EXCEPT ![n] = "sent"]
  ELSE ping' = [ping EXCEPT ![stream] = IF @ = "idle" THEN "sent" ELSE @]

\* A plausible mistake: lastPing is the time a ping was sent.
SendPingResets(n) ==
  /\ pinger[n] = "wait"
  /\ stream \notin closed
  /\ Ping(n)
  /\ quiet' = [quiet EXCEPT ![stream] = 0]
  /\ UNCHANGED <<connVars, pinger, timer, workVars>>

\* A goroutine whose connection is gone goes on with the next one if that comes
\* before its ticker fires.
SendPing(n) ==
  /\ pinger[n] = "wait"
  /\ stream \notin closed
  /\ Ping(n)
  /\ UNCHANGED <<connVars, pinger, timer, quiet, workVars>>

PingFails(n) ==
  /\ pinger[n] = "wait"
  /\ stream \in closed \/ peer[stream] # "up"
  /\ pinger' = [pinger EXCEPT ![n] = "none"]
  /\ UNCHANGED <<connVars, ping, timer, quiet, workVars>>

-----------------------------------------------------------------------------
(* startTimer of the pong handler of connection n.                         *)

\* The peer and the goroutines of this end are faster than an interval.
IntervalOver(n) ==
  /\ ping[n] = "due" => pinger[n] = "none"
  /\ ping[n] = "sent" => peer[n] # "up"
  /\ ping[n] = "answered" => run # "reading" \/ n \in closed

Overdue(n) == quiet[n] + 1 > MaxWait

TimerTicks(n) ==
  /\ timer[n] = "wait"
  /\ IntervalOver(n)
  /\ quiet' = [quiet EXCEPT ![n] = IF Overdue(n) THEN @ ELSE @ + 1]
  /\ timer' = [timer EXCEPT ![n] = IF Overdue(n) THEN "closing" ELSE "wait"]
  /\ ping' = [ping EXCEPT ![n] = "due"]
  /\ UNCHANGED <<connVars, pinger, workVars>>

TimerCloses(n) ==
  /\ timer[n] = "closing"
  /\ Stop
  /\ timer' = [timer EXCEPT ![n] = "wait"]
  /\ UNCHANGED <<stream, run, peer, pinger, ping, quiet, workVars>>

-----------------------------------------------------------------------------
(* HandleWork of the skipping worker pool and doWork.  The subscriber's    *)
(* pool has no locker, so that nothing else keeps events apart.            *)

\* A plausible mistake: the reader waits for a worker.
HandleWorkWaiting(e) ==
  /\ run = "reading"
  /\ stream \notin closed
  /\ event[e] = "none"
  /\ IF workers > 0
     THEN event' = [event EXCEPT ![e] = "handling"] /\ workers' = workers - 1 /\ UNCHANGED run
     ELSE run' = "waiting" /\ UNCHANGED workVars
  /\ UNCHANGED <<stream, peer, closed, pingVars>>

HandleWork(e) ==
  /\ run = "reading"
  /\ stream \notin closed
  /\ event[e] = "none"
  /\ \/ /\ workers > 0
        /\ event' = [event EXCEPT ![e] = "handling"]
        /\ workers' = workers - 1
     \/ /\ workers = 0
        /\ event' = [event EXCEPT ![e] = "dropped"]
        /\ UNCHANGED workers
  /\ UNCHANGED <<connVars, pingVars>>

\* A plausible mistake: the worker is given back only if the handler succeeds.
WorkEndsKeeping(e) ==
  /\ event[e] = "handling"
  /\ event' = [event EXCEPT ![e] = "handled"]
  /\ workers' \in {workers, workers + 1}
  /\ UNCHANGED <<connVars, pingVars>>

WorkEnds(e) ==
  /\ event[e] = "handling"
  /\ event' = [event EXCEPT ![e] = "handled"]
  /\ workers' = workers + 1
  /\ UNCHANGED <<connVars, pingVars>>

-----------------------------------------------------------------------------
Subscriber == Connect \/ ReadFails \/ StopTimer \/ CloseStream \/ HandlePong
Pinger(n) == SendPing(n) \/ PingFails(n)
Timer(n) == TimerTicks(n) \/ TimerCloses(n)

Next ==
  \/ Subscriber
  \/ \E n \in Conns : PeerFails(n) \/ PeerAnswers(n) \/ Pinger(n) \/ Timer(n)
  \/ \E e \in Events : HandleWork(e) \/ WorkEnds(e)

Spec == Init /\ [][Next]_vars

\* The goroutines of this end run and tick.  The timer that is told to stop is
\* in its select between any two of its ticks, and the select is fair.  A peer
\* need not answer, a connection need not be made, a handler need not return.
Fairness ==
  /\ WF_vars(HandlePong \/ ReadFails \/ CloseStream)
  /\ SF_vars(StopTimer)
  /\ \A n \in Conns : WF_vars(Pinger(n)) /\ WF_vars(Timer(n))

FairSpec == Spec /\ Fairness

-----------------------------------------------------------------------------
(* Properties.                                                             *)

Working == {e \in Events : event[e] = "handling"}

\* The variables stay in their types, and the worker pool (HandleWork, doWork)
\* loses no worker.
TypeOK ==
  /\ stream \in 0..MaxConns
  /\ run \in {"subscribe", "reading", "stopping", "closing"}
  /\ run # "subscribe" => stream # 0
  /\ peer \in [Conns -> {"up", "silent", "gone"}]
  /\ closed \subseteq 1..stream
  /\ pinger \in [Conns -> {"none", "wait"}]
  /\ ping \in [Conns -> {"idle", "due", "sent", "answered"}]
  /\ timer \in [Conns -> {"none", "wait", "closing", "done"}]
  /\ quiet \in [Conns -> 0..MaxWait]
  /\ event \in [Events -> {"none", "handling", "handled", "dropped"}]
  /\ workers \in Nat
  /\ workers + Cardinality(Working) = PoolSize

\* ph.stop in run: a pong timer never outlives its connection, so that its Stop,
\* which closes the current connection, does not close a later one.
TimerClosesItsOwn ==
  \A n \in Conns : timer[n] \in {"wait", "closing"} => stream = n /\ run \in {"reading", "stopping"}

\* startTimer, sendWebsocketPings and HandleWork together: a connection whose
\* peer answers is not closed, however busy the workers are.
HealthyConnectionIsKept == \A n \in closed : peer[n] # "up"

\* startTimer and run: a connection whose peer has stopped answering is closed,
\* and the subscriber is free to make another.
DeadPeerIsNoticed ==
  \A n \in Conns : peer[n] # "up" /\ stream = n ~> n \in closed /\ run = "subscribe"
=============================================================================
