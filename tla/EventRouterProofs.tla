------------------------- MODULE EventRouterProofs -------------------------
(***************************************************************************)
(* Proofs about EventRouter, for any number of connections, events and     *)
(* workers.                                                                *)
(***************************************************************************)
EXTENDS EventRouter, FiniteSetTheorems, TLAPS

\* TypeOK but for the worker pool.
RouterTypeOK ==
  /\ stream \in 0..MaxConns
  /\ run \in {"subscribe", "reading", "stopping", "closing"}
  /\ run # "subscribe" => stream # 0
  /\ peer \in [Conns -> {"up", "silent", "gone"}]
  /\ closed \subseteq 1..stream
  /\ pinger \in [Conns -> {"none", "wait"}]
  /\ ping \in [Conns -> {"idle", "due", "sent", "answered"}]
  /\ timer \in [Conns -> {"none", "wait", "closing", "done"}]
  /\ quiet \in [Conns -> 0..MaxWait]

PoolTypeOK ==
  /\ event \in [Events -> {"none", "handling", "handled", "dropped"}]
  /\ workers \in Nat
  /\ workers + Cardinality(Working) = PoolSize

\* While a connection is read and its peer answers, its own goroutine pings it
\* and an unanswered interval is one in which a ping is under way; it is given
\* up only after its peer has stopped answering.
HealthIsWatched ==
  /\ \A n \in Conns : timer[n] = "closing" => peer[n] # "up"
  /\ run \in {"stopping", "closing"} => peer[stream] # "up"
  /\ run = "reading" /\ peer[stream] = "up" =>
       pinger[stream] = "wait" /\ (ping[stream] = "idle" => quiet[stream] <= 1)

RouterInv == RouterTypeOK /\ TimerClosesItsOwn /\ HealthyConnectionIsKept /\ HealthIsWatched

\* TypeOK is the conjunction of its two halves.
LEMMA TypeSplit == TypeOK <=> RouterTypeOK /\ PoolTypeOK
  BY DEF TypeOK, RouterTypeOK, PoolTypeOK

\* Any step of the pool, or a step that leaves it alone, keeps count of the
\* workers (HandleWork and doWork).
LEMMA PoolStep ==
  ASSUME PoolTypeOK, [Next]_vars
  PROVE  PoolTypeOK'
<1> USE EventsAssumption, PoolAssumption DEF PoolTypeOK
<1>1. IsFiniteSet(Working)
  BY FS_Subset DEF Working
<1>2. Cardinality(Working) \in Nat
  BY <1>1, FS_CardinalityType
<1>3. ASSUME NEW e \in Events, HandleWork(e) PROVE PoolTypeOK'
  <2>1. CASE workers = 0
    <3>1. event' = [event EXCEPT ![e] = "dropped"] /\ workers' = workers /\ event[e] = "none"
      BY <1>3, <2>1 DEF HandleWork, workVars
    <3>2. Working' = Working
      BY <3>1 DEF Working
    <3> QED BY <3>1, <3>2
  <2>2. CASE workers # 0
    <3>1. event' = [event EXCEPT ![e] = "handling"] /\ workers' = workers - 1 /\ event[e] = "none"
      BY <1>3, <2>2 DEF HandleWork
    <3>2. Working' = Working \cup {e} /\ e \notin Working
      BY <3>1 DEF Working
    <3>3. Cardinality(Working') = Cardinality(Working) + 1
      BY <1>1, <3>2, FS_AddElement
    <3>4. workers' \in Nat /\ event' \in [Events -> {"none", "handling", "handled", "dropped"}]
      BY <2>2, <3>1
    <3>5. workers' + Cardinality(Working') = PoolSize
      BY <1>2, <2>2, <3>1, <3>3
    <3> QED BY <3>4, <3>5
  <2> QED BY <2>1, <2>2
<1>4. ASSUME NEW e \in Events, WorkEnds(e) PROVE PoolTypeOK'
  <2>1. event' = [event EXCEPT ![e] = "handled"] /\ workers' = workers + 1 /\ event[e] = "handling"
    BY <1>4 DEF WorkEnds
  <2>2. Working' = Working \ {e} /\ e \in Working
    BY <2>1 DEF Working
  <2>3. Cardinality(Working') = Cardinality(Working) - 1
    BY <1>1, <2>2, FS_RemoveElement
  <2>4. workers' \in Nat /\ event' \in [Events -> {"none", "handling", "handled", "dropped"}]
    BY <2>1
  <2>5. workers' + Cardinality(Working') = PoolSize
    BY <1>2, <2>1, <2>3
  <2> QED BY <2>4, <2>5
<1>5. CASE UNCHANGED workVars
  <2>1. Working' = Working
    BY <1>5 DEF workVars, Working
  <2> QED BY <1>5, <2>1 DEF workVars
<1>6. Subscriber => UNCHANGED workVars
  BY DEF Subscriber, Connect, ReadFails, StopTimer, CloseStream, HandlePong, pingVars
<1>7. \A n \in Conns : PeerFails(n) \/ PeerAnswers(n) \/ Pinger(n) \/ Timer(n) => UNCHANGED workVars
  BY DEF PeerFails, PeerAnswers, Pinger, SendPing, PingFails, Timer, TimerTicks, TimerCloses
<1> QED BY <1>3, <1>4, <1>5, <1>6, <1>7 DEF Next, vars

\* A peer that fails is no longer up.
LEMMA PeerDown ==
  ASSUME RouterTypeOK, NEW n \in Conns, PeerFails(n)
  PROVE  /\ peer' \in [Conns -> {"up", "silent", "gone"}]
         /\ \A m \in Conns : peer[m] # "up" => peer'[m] # "up"
<1>1. peer \in [Conns -> {"up", "silent", "gone"}]
  BY DEF RouterTypeOK
<1>2. \E s \in {"silent", "gone"} : peer' = [peer EXCEPT ![n] = s]
  BY DEF PeerFails
<1> QED
  BY <1>1, <1>2

\* The steps of the router (run, sendWebsocketPings and startTimer) keep to
\* their types.
LEMMA RouterTypes ==
  ASSUME RouterTypeOK, TimerClosesItsOwn, [Next]_vars
  PROVE  RouterTypeOK'
<1> USE ConnsAssumption, WaitAssumption DEF RouterTypeOK, Conns
<1>1. CASE Connect
  BY <1>1 DEF Connect
<1>2. CASE ReadFails
  BY <1>2 DEF ReadFails, pingVars
<1>3. CASE StopTimer
  BY <1>3 DEF StopTimer
<1>4. CASE CloseStream
  BY <1>4 DEF CloseStream, Stop, pingVars
<1>5. CASE HandlePong
  BY <1>5 DEF HandlePong, connVars
<1>6. ASSUME NEW n \in Conns, PeerFails(n) PROVE RouterTypeOK'
  <2>1. UNCHANGED <<stream, run, closed, pinger, ping, timer, quiet>>
    BY <1>6 DEF PeerFails, pingVars
  <2> QED
    BY <1>6, <2>1, PeerDown
<1>7. ASSUME NEW n \in Conns, PeerAnswers(n) PROVE RouterTypeOK'
  BY <1>7 DEF PeerAnswers, connVars
<1>8. ASSUME NEW n \in Conns, SendPing(n) PROVE RouterTypeOK'
  BY <1>8 DEF SendPing, Ping, connVars
<1>9. ASSUME NEW n \in Conns, PingFails(n) PROVE RouterTypeOK'
  BY <1>9 DEF PingFails, connVars
<1>10. ASSUME NEW n \in Conns, TimerTicks(n) PROVE RouterTypeOK'
  BY <1>10 DEF TimerTicks, Overdue, connVars
<1>11. ASSUME NEW n \in Conns, TimerCloses(n) PROVE RouterTypeOK'
  <2>1. stream \in 1..stream
    BY <1>11 DEF TimerCloses, TimerClosesItsOwn
  <2> QED BY <1>11, <2>1 DEF TimerCloses, Stop
<1>12. ASSUME NEW e \in Events, HandleWork(e) \/ WorkEnds(e) PROVE RouterTypeOK'
  BY <1>12 DEF HandleWork, WorkEnds, connVars, pingVars
<1>13. CASE UNCHANGED vars
  BY <1>13 DEF vars, connVars, pingVars
<1> QED
  BY <1>1, <1>2, <1>3, <1>4, <1>5, <1>6, <1>7, <1>8, <1>9, <1>10, <1>11, <1>12, <1>13
  DEF Next, Subscriber, Pinger, Timer

\* Every step keeps the rest of the invariant; the timer's tick is the one that
\* needs the progress of the ping.
LEMMA RouterStep ==
  ASSUME RouterInv, [Next]_vars, RouterTypeOK'
  PROVE  (TimerClosesItsOwn /\ HealthyConnectionIsKept /\ HealthIsWatched)'
<1> DEFINE Goal == TimerClosesItsOwn /\ HealthyConnectionIsKept /\ HealthIsWatched
<1> USE ConnsAssumption, WaitAssumption
    DEF RouterInv, RouterTypeOK, TimerClosesItsOwn, HealthyConnectionIsKept, HealthIsWatched, Conns
<1>1. CASE Connect
  BY <1>1 DEF Connect
<1>2. CASE ReadFails
  BY <1>2 DEF ReadFails, pingVars
<1>3. CASE StopTimer
  BY <1>3 DEF StopTimer
<1>4. CASE CloseStream
  BY <1>4 DEF CloseStream, Stop, pingVars
<1>5. CASE HandlePong
  BY <1>5 DEF HandlePong, connVars
<1>6. ASSUME NEW n \in Conns, PeerFails(n) PROVE Goal'
  <2>1. \A m \in Conns : peer[m] # "up" => peer'[m] # "up"
    BY <1>6, PeerDown
  <2>2. \A m \in Conns : peer'[m] = "up" => peer[m] = "up"
    BY <2>1
  <2>3. UNCHANGED <<stream, run, closed, pinger, ping, timer, quiet>>
    BY <1>6 DEF PeerFails, pingVars
  <2>4. closed \subseteq Conns /\ (run # "subscribe" => stream \in Conns)
    OBVIOUS
  <2>5. TimerClosesItsOwn' /\ HealthyConnectionIsKept'
    BY <2>1, <2>3, <2>4
  <2>6. HealthIsWatched'
    BY <2>1, <2>2, <2>3, <2>4
  <2> QED BY <2>5, <2>6
<1>7. ASSUME NEW n \in Conns, PeerAnswers(n) PROVE Goal'
  BY <1>7 DEF PeerAnswers, connVars
<1>8. ASSUME NEW n \in Conns, SendPing(n) PROVE Goal'
  BY <1>8 DEF SendPing, Ping, connVars
<1>9. ASSUME NEW n \in Conns, PingFails(n) PROVE Goal'
  BY <1>9 DEF PingFails, connVars
<1>10. ASSUME NEW n \in Conns, TimerTicks(n) PROVE Goal'
  <2>1. stream = n /\ run \in {"reading", "stopping"} /\ IntervalOver(n)
    BY <1>10 DEF TimerTicks
  <2>2. peer[n] = "up" => run = "reading" /\ n \notin closed /\ pinger[n] = "wait"
    BY <2>1
  <2>3. peer[n] = "up" => ping[n] = "idle"
    BY <2>1, <2>2 DEF IntervalOver
  <2>4. peer[n] = "up" => ~Overdue(n)
    BY <2>1, <2>2, <2>3 DEF Overdue
  <2> QED BY <1>10, <2>1, <2>4 DEF TimerTicks, connVars
<1>11. ASSUME NEW n \in Conns, TimerCloses(n) PROVE Goal'
  BY <1>11 DEF TimerCloses, Stop
<1>12. ASSUME NEW e \in Events, HandleWork(e) \/ WorkEnds(e) PROVE Goal'
  BY <1>12 DEF HandleWork, WorkEnds, connVars, pingVars
<1>13. CASE UNCHANGED vars
  BY <1>13 DEF vars, connVars, pingVars
<1> QED
  BY <1>1, <1>2, <1>3, <1>4, <1>5, <1>6, <1>7, <1>8, <1>9, <1>10, <1>11, <1>12, <1>13
  DEF Next, Subscriber, Pinger, Timer

\* Initially nothing is connected and all workers are in the channel.
LEMMA RouterInit == Init => RouterInv /\ PoolTypeOK
<1> SUFFICES ASSUME Init PROVE RouterInv /\ PoolTypeOK
  OBVIOUS
<1>1. RouterInv
  BY ConnsAssumption, WaitAssumption
  DEF Init, RouterInv, RouterTypeOK, TimerClosesItsOwn, HealthyConnectionIsKept, HealthIsWatched, Conns
<1>2. Working = {}
  BY DEF Init, Working
<1>3. PoolTypeOK
  BY <1>2, PoolAssumption, FS_EmptySet DEF Init, PoolTypeOK
<1> QED BY <1>1, <1>3

\* The inductive invariant of the router.
LEMMA RouterInvariant == Spec => [](RouterInv /\ PoolTypeOK)
<1>1. RouterInv /\ PoolTypeOK /\ [Next]_vars => (RouterInv /\ PoolTypeOK)'
  BY RouterTypes, RouterStep, PoolStep DEF RouterInv
<1> QED BY RouterInit, <1>1, PTL DEF Spec

\* HandleWork, doWork, run: no worker is ever lost, for a pool of any size.
THEOREM RouterTypeCorrect == Spec => []TypeOK
<1>1. RouterInv /\ PoolTypeOK => TypeOK
  BY TypeSplit DEF RouterInv
<1> QED BY RouterInvariant, <1>1, PTL

\* ph.stop: a pong timer never closes a connection made after its own.
THEOREM TimersStayHome == Spec => []TimerClosesItsOwn
<1>1. RouterInv => TimerClosesItsOwn
  BY DEF RouterInv
<1> QED BY RouterInvariant, <1>1, PTL

\* startTimer, sendWebsocketPings, HandleWork: no connection is closed while its
\* peer answers.
THEOREM HealthyConnectionsLive == Spec => []HealthyConnectionIsKept
<1>1. RouterInv => HealthyConnectionIsKept
  BY DEF RouterInv
<1> QED BY RouterInvariant, <1>1, PTL
=============================================================================
