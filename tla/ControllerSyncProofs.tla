------------------------ MODULE ControllerSyncProofs ------------------------
(***************************************************************************)
(* The task queue loses no wakeup and implements the safety part of the    *)
(* coalescing queue, for any keys and callers; the controller on top of it *)
(* forgets no change, for any number of versions, failures and goroutines  *)
(* that retry.  Every step of the controller is a step of the queue or     *)
(* leaves it alone, so that the queue keeps its own invariant.             *)
(***************************************************************************)
EXTENDS ControllerSync, TLAPS

-----------------------------------------------------------------------------
(* The task queue.                                                         *)

IInv == QueueTypeOK /\ NoLostWakeup

\* Appending a key that is not in a sequence without repetitions adds it to
\* the range and repeats nothing.
LEMMA AppendNew ==
  ASSUME NEW S, NEW q \in Seq(S), IsInjective(q), NEW k \in S, k \notin Range(q)
  PROVE  /\ Append(q, k) \in Seq(S)
         /\ Range(Append(q, k)) = Range(q) \cup {k}
         /\ IsInjective(Append(q, k))
<1>1. /\ Append(q, k) \in Seq(S)
      /\ Len(Append(q, k)) = Len(q) + 1
      /\ Append(q, k)[Len(q) + 1] = k
      /\ \A i \in 1 .. Len(q) : Append(q, k)[i] = q[i]
  OBVIOUS
<1>2. DOMAIN Append(q, k) = 1 .. Len(q) + 1 /\ DOMAIN q = 1 .. Len(q) /\ Len(q) \in Nat
  BY <1>1
<1>3. \A i \in 1 .. Len(q) : q[i] # k
  BY <1>2 DEF Range
<1>4. Range(Append(q, k)) = Range(q) \cup {k}
  <2>1. Range(Append(q, k)) \subseteq Range(q) \cup {k}
    BY <1>1, <1>2 DEF Range
  <2>2. Range(q) \subseteq Range(Append(q, k))
    BY <1>1, <1>2 DEF Range
  <2>3. k \in Range(Append(q, k))
    BY <1>1, <1>2 DEF Range
  <2>4. QED
    BY <2>1, <2>2, <2>3
<1>5. IsInjective(Append(q, k))
  BY <1>1, <1>2, <1>3 DEF IsInjective
<1>6. QED
  BY <1>1, <1>4, <1>5

\* Taking the first key out of a sequence without repetitions takes it out of
\* the range and repeats nothing.
LEMMA TakeFirst ==
  ASSUME NEW S, NEW q \in Seq(S), IsInjective(q), q # <<>>
  PROVE  /\ Head(q) \in Range(q) /\ Head(q) \in S
         /\ Tail(q) \in Seq(S)
         /\ Range(Tail(q)) = Range(q) \ {Head(q)}
         /\ IsInjective(Tail(q))
<1>1. /\ Tail(q) \in Seq(S)
      /\ Len(q) \in Nat \ {0}
      /\ Len(Tail(q)) = Len(q) - 1
      /\ Head(q) = q[1]
      /\ \A i \in 1 .. Len(q) - 1 : Tail(q)[i] = q[i + 1]
  OBVIOUS
<1>2. DOMAIN Tail(q) = 1 .. Len(q) - 1 /\ DOMAIN q = 1 .. Len(q)
  BY <1>1
<1>3. Head(q) \in Range(q) /\ Head(q) \in S
  BY <1>1, <1>2 DEF Range
<1>4. Range(Tail(q)) = Range(q) \ {Head(q)}
  <2>1. Range(Tail(q)) \subseteq Range(q) \ {Head(q)}
    BY <1>1, <1>2 DEF Range, IsInjective
  <2>2. ASSUME NEW x \in Range(q), x # Head(q)
        PROVE  x \in Range(Tail(q))
    <3>1. PICK i \in 1 .. Len(q) : x = q[i]
      BY <1>2, <2>2 DEF Range
    <3>2. i - 1 \in 1 .. Len(q) - 1 /\ x = Tail(q)[i - 1]
      BY <1>1, <2>2, <3>1
    <3>3. QED
      BY <1>2, <3>2 DEF Range
  <2>3. QED
    BY <2>1, <2>2
<1>5. IsInjective(Tail(q))
  <2>1. SUFFICES ASSUME NEW i \in 1 .. Len(q) - 1, NEW j \in 1 .. Len(q) - 1,
                        Tail(q)[i] = Tail(q)[j]
                 PROVE  i = j
    BY <1>2 DEF IsInjective
  <2>2. q[i + 1] = q[j + 1] /\ i + 1 \in DOMAIN q /\ j + 1 \in DOMAIN q
    BY <1>1, <1>2, <2>1
  <2>3. QED
    BY <2>2 DEF IsInjective
<1>6. QED
  BY <1>1, <1>3, <1>4, <1>5

\* Initially the queue is empty and the worker has not looked.
LEMMA InitIInv == QueueInit => IInv
<1> SUFFICES ASSUME QueueInit PROVE IInv
  OBVIOUS
<1>1. items \in Seq(Keys) /\ DOMAIN items = {}
  BY DEF QueueInit
<1>2. Range(items) = {} /\ IsInjective(items)
  BY <1>1 DEF Range, IsInjective
<1>3. QED
  BY <1>1, <1>2, KeysAssumption DEF QueueInit, IInv, QueueTypeOK, NoLostWakeup

\* Enqueue, Shutdown and the send to wake keep the invariant.
LEMMA CallerStep ==
  ASSUME IInv, NEW c \in Callers,
         (\E k \in Keys : Enqueue(c, k)) \/ Shutdown(c) \/ Wake(c)
  PROVE  IInv'
<1> USE DEF IInv, QueueTypeOK, NoLostWakeup
<1>1. ASSUME NEW k \in Keys, Enqueue(c, k) PROVE IInv'
  <2>1. /\ items' \in Seq(Keys)
        /\ Range(items') = Range(items) \cup {k}
        /\ IsInjective(items')
    BY <1>1, AppendNew DEF Enqueue, Ignored
  <2>2. QED
    BY <1>1, <2>1 DEF Enqueue
<1>2. CASE Shutdown(c)
  BY <1>2 DEF Shutdown
<1>3. CASE Wake(c)
  BY <1>3 DEF Wake
<1>4. QED
  BY <1>1, <1>2, <1>3

\* The worker keeps the invariant: it waits only after it found nothing.
LEMMA WorkerStep == ASSUME IInv, Run PROVE IInv'
<1> USE KeysAssumption
<1> USE DEF IInv, QueueTypeOK, NoLostWakeup
<1>1. CASE Pop
  <2>1. /\ Head(items) \in Keys
        /\ items' \in Seq(Keys)
        /\ Range(items') = Range(items) \ {Head(items)}
        /\ IsInjective(items')
    BY <1>1, TakeFirst DEF Pop
  <2>2. QED
    BY <1>1, <2>1 DEF Pop
<1>2. CASE PopNothing
  BY <1>2 DEF PopNothing
<1>3. CASE SyncReturns
  BY <1>3 DEF SyncReturns
<1>4. CASE Woken
  BY <1>4 DEF Woken
<1>5. CASE StopRun
  BY <1>5 DEF StopRun
<1>6. QED
  BY <1>1, <1>2, <1>3, <1>4, <1>5, Run DEF Run

\* No step breaks the invariant.
LEMMA NextIInv == IInv /\ [QueueNext]_queueVars => IInv'
<1> SUFFICES ASSUME IInv, [QueueNext]_queueVars PROVE IInv'
  OBVIOUS
<1>1. CASE UNCHANGED queueVars
  BY <1>1 DEF queueVars, IInv, QueueTypeOK, NoLostWakeup
<1>2. CASE CloseStop
  BY <1>2 DEF CloseStop, IInv, QueueTypeOK, NoLostWakeup
<1>3. QED
  BY <1>1, <1>2, CallerStep, WorkerStep DEF QueueNext

\* The invariant holds in every reachable state.
LEMMA Invariance == QueueSpec => []IInv
  BY InitIInv, NextIInv, PTL DEF QueueSpec

\* The variables of the queue stay in their types, and items lists the pending
\* keys, each once.
THEOREM QueueTypeCorrect == QueueSpec => []QueueTypeOK
<1>1. IInv => QueueTypeOK
  BY DEF IInv
<1>2. QED
  BY <1>1, Invariance, PTL

\* The worker never sleeps through work: Enqueue may be suspended between its
\* critical section and its send to wake, and the send may be dropped.
THEOREM WakeupsAreKept == QueueSpec => []NoLostWakeup
<1>1. IInv => NoLostWakeup
  BY DEF IInv
<1>2. QED
  BY <1>1, Invariance, PTL

\* The task queue is a coalescing queue: a key is pending from the first request
\* until its synchronisation starts, and one synchronisation runs at a time.
THEOREM QueueCoalesces == QueueSpec => CoalescesSafely
<1> USE DEF Abstract!Request, Abstract!Start, Abstract!Finish, Abstract!Seal, Abstract!End,
            Abstract!CQNext, Abstract!cqVars
<1>1. QueueInit => Abstract!CQInit
  BY DEF QueueInit, Abstract!CQInit
<1>2. ASSUME IInv, [QueueNext]_queueVars
      PROVE  [Abstract!CQNext]_(Abstract!cqVars)
  <2>1. ASSUME NEW c \in Callers, NEW k \in Keys, Enqueue(c, k)
        PROVE  Abstract!Request(k)
    BY <2>1 DEF Enqueue, Ignored
  <2>2. ASSUME NEW c \in Callers, Shutdown(c)
        PROVE  Abstract!Seal
    BY <2>2 DEF Shutdown
  <2>3. ASSUME NEW c \in Callers, Wake(c)
        PROVE  UNCHANGED Abstract!cqVars
    BY <2>3 DEF Wake
  <2>4. CASE CloseStop
    BY <2>4 DEF CloseStop
  <2>5. CASE Pop
    <3>1. Head(items) \in Keys /\ Head(items) \in pending /\ current = None
      BY <1>2, <2>5, TakeFirst DEF Pop, IInv, QueueTypeOK
    <3>2. Abstract!Start(Head(items))
      BY <2>5, <3>1 DEF Pop
    <3>3. QED
      BY <3>1, <3>2
  <2>6. CASE PopNothing
    BY <2>6 DEF PopNothing
  <2>7. CASE SyncReturns
    BY <1>2, <2>7 DEF SyncReturns, IInv, QueueTypeOK
  <2>8. CASE Woken
    BY <2>8 DEF Woken
  <2>9. CASE StopRun
    BY <1>2, <2>9 DEF StopRun, IInv, QueueTypeOK
  <2>10. CASE UNCHANGED queueVars
    BY <2>10 DEF queueVars
  <2>11. QED
    BY <1>2, <2>1, <2>2, <2>3, <2>4, <2>5, <2>6, <2>7, <2>8, <2>9, <2>10 DEF QueueNext, Run
<1>3. QED
  BY <1>1, <1>2, Invariance, PTL DEF QueueSpec, CoalescesSafely, Abstract!CQSafeSpec

-----------------------------------------------------------------------------
(* The controller.                                                         *)

\* What Stop has brought about comes after it has closed stopCh.
StopOnly == (stopped \/ shutdown \/ worker = "done") => stopCh

\* A configuration under construction that is out of date is going to be built
\* again.
Rebuilt ==
  ~stopCh =>
    /\ step # "metadata" /\ read.metadata # metadata => seen # metadata \/ Scheduled
    /\ step = "apply" /\ read.certs # dir => cache # dir \/ Scheduled

\* Nobody has seen a version that is yet to come.
NothingAhead == seen <= metadata /\ cache <= dir

SInv == IInv /\ TypeOK /\ StopOnly /\ NothingAhead /\ Rebuilt /\ NothingForgotten

\* Every step of the controller is a step of its queue or leaves it alone.
LEMMA QueueSteps == [Next]_vars => [QueueNext]_queueVars
<1> SUFFICES ASSUME [Next]_vars PROVE [QueueNext]_queueVars
  OBVIOUS
<1> USE KeyAssumption, CallersAssumption DEF Watchers
<1>1. ASSUME NEW c \in Callers, Schedule(c) PROVE [QueueNext]_queueVars
  BY <1>1 DEF Schedule, QueueNext
<1>2. CASE Environment \/ VersionFails \/ PollCertsFails \/ PollCerts(TRUE)
  BY <1>2 DEF Environment, MetadataChange, DirChange, VersionFails, PollCertsFails, PollCerts
<1>3. ASSUME NEW w \in Watchers, Watch(w) PROVE [QueueNext]_queueVars
  BY <1>1, <1>3 DEF Watch, VersionArrives, PollCerts, Notify
<1>4. CASE QueueStep
  BY <1>4 DEF QueueStep, QueueNext, Run
<1>5. CASE Sync
  BY <1>5 DEF Sync, SkipSync, ReadMetadata, ReadCerts, ApplySucceeds, SyncFails, QueueNext, Run
<1>6. ASSUME NEW r \in Retriers, Requeue(r) PROVE [QueueNext]_queueVars
  BY <1>1, <1>6 DEF Requeue, ReadBackoff, AddInterval, Sleep, Retry
<1>7. CASE Stop
  BY <1>7 DEF Stop, QueueNext
<1>8. CASE UNCHANGED vars
  BY <1>8 DEF vars
<1>9. QED
  BY <1>2, <1>3, <1>4, <1>5, <1>6, <1>7, <1>8 DEF Next

\* Initially both watchers still have to notice the first version.
LEMMA InitSInv == Init => SInv
<1> SUFFICES ASSUME Init PROVE SInv
  OBVIOUS
<1>1. IInv
  BY InitIInv DEF Init
<1>2. TypeOK
  BY <1>1 DEF Init, QueueInit, TypeOK, IInv, Nothing, RetryStates
<1>3. StopOnly /\ NothingAhead /\ Rebuilt /\ NothingForgotten
  BY DEF Init, QueueInit, StopOnly, NothingAhead, Rebuilt, NothingForgotten, MetadataPending, CertsPending
<1>4. QED
  BY <1>1, <1>2, <1>3 DEF SInv

\* After ScheduleApplyConfig or a retry the key is pending, unless the
\* controller is stopped.
LEMMA ScheduleFacts ==
  ASSUME NEW c, Schedule(c)
  PROVE  /\ (stopped => stopCh) /\ ~stopCh => Key \in pending'
         /\ pending \subseteq pending'
         /\ UNCHANGED <<stopCh, stopped, worker, current>>
  BY DEF Schedule, Enqueue, Ignored, queueVars

\* A change of the metadata or of the directory is still to be noticed.
LEMMA EnvironmentStep == ASSUME SInv, IInv', Environment PROVE SInv'
<1> USE DEF SInv, TypeOK, StopOnly, NothingAhead, Rebuilt, NothingForgotten, MetadataPending,
            CertsPending, Scheduled, IInv, queueVars, syncVars, retryVars
<1>1. CASE MetadataChange
  BY <1>1 DEF MetadataChange
<1>2. CASE DirChange
  BY <1>2 DEF DirChange
<1>3. QED
  BY <1>1, <1>2, Environment DEF Environment

\* A watcher that takes a version over is about to schedule a reconciliation.
LEMMA WatchStep ==
  ASSUME SInv, IInv',
         VersionFails \/ PollCertsFails \/ PollCerts(TRUE) \/ \E w \in Watchers : Watch(w)
  PROVE  SInv'
<1> USE DEF SInv, TypeOK, StopOnly, NothingAhead, Rebuilt, NothingForgotten, MetadataPending,
            CertsPending, Scheduled, IInv
<1>1. CASE VersionFails
  BY <1>1 DEF VersionFails, queueVars, syncVars, retryVars
<1>2. CASE PollCertsFails
  BY <1>2 DEF PollCertsFails, queueVars, syncVars, retryVars
<1>3. CASE VersionArrives
  BY <1>3 DEF VersionArrives, queueVars, syncVars, retryVars, Watchers
<1>4. ASSUME NEW force \in BOOLEAN, PollCerts(force) PROVE SInv'
  BY <1>4 DEF PollCerts, queueVars, syncVars, retryVars, Watchers
<1>5. ASSUME NEW w \in Watchers, Notify(w) PROVE SInv'
  <2>1. /\ ~stopCh => Key \in pending'
        /\ UNCHANGED <<stopCh, stopped, worker, current>>
    BY <1>5, ScheduleFacts DEF Notify
  <2>2. QED
    BY <1>5, <2>1 DEF Notify, syncVars, retryVars
<1>6. QED
  BY <1>1, <1>2, <1>3, <1>4, <1>5 DEF Watch

\* A reconciliation ends with its versions applied, a retry spawned or the
\* controller stopped.
LEMMA SyncStep == ASSUME SInv, IInv', Sync PROVE SInv'
<1> USE DEF SInv, TypeOK, StopOnly, NothingAhead, Rebuilt, NothingForgotten, MetadataPending,
            CertsPending, Scheduled, IInv
<1>1. CASE SkipSync
  BY <1>1 DEF SkipSync, Syncing, SyncReturns, watchVars, syncVars, retryVars
<1>2. CASE ReadMetadata
  BY <1>2 DEF ReadMetadata, Syncing, queueVars, watchVars, retryVars
<1>3. CASE ReadCerts
  BY <1>3 DEF ReadCerts, Syncing, queueVars, watchVars, retryVars
<1>4. CASE ApplySucceeds
  BY <1>4 DEF ApplySucceeds, Syncing, SyncReturns, watchVars
<1>5. ASSUME NEW r \in Retriers, SyncFails(r) PROVE SInv'
  BY <1>5 DEF SyncFails, SyncReturns, watchVars, RetryStates
<1>6. QED
  BY <1>1, <1>2, <1>3, <1>4, <1>5, Sync DEF Sync

\* A retry is forgotten only in the step that schedules the key.
LEMMA RequeueStep == ASSUME SInv, IInv', NEW r \in Retriers, Requeue(r) PROVE SInv'
<1> USE DEF SInv, TypeOK, StopOnly, NothingAhead, Rebuilt, NothingForgotten, MetadataPending,
            CertsPending, Scheduled, IInv, RetryAt, RetryStates
<1>1. CASE ReadBackoff(r)
  BY <1>1 DEF ReadBackoff, queueVars, watchVars, syncVars
<1>2. CASE AddInterval(r)
  BY <1>2 DEF AddInterval, queueVars, watchVars, syncVars
<1>3. CASE Sleep(r)
  BY <1>3 DEF Sleep, queueVars, watchVars, syncVars
<1>4. CASE Retry(r)
  <2>1. /\ ~stopCh => Key \in pending'
        /\ UNCHANGED <<stopCh, stopped, worker, current>>
    BY <1>4, ScheduleFacts DEF Retry
  <2>2. QED
    BY <1>4, <2>1 DEF Retry, watchVars, syncVars
<1>5. QED
  BY <1>1, <1>2, <1>3, <1>4, Requeue(r) DEF Requeue

\* The worker takes the key out of the queue only to begin a reconciliation
\* that reads everything anew.
LEMMA QueueOnlyStep == ASSUME SInv, IInv', QueueStep PROVE SInv'
<1> USE DEF SInv, TypeOK, StopOnly, NothingAhead, Rebuilt, NothingForgotten, MetadataPending,
            CertsPending, Scheduled, IInv
<1> UNCHANGED <<watchVars, syncVars, retryVars>>
  BY DEF QueueStep
<1>1. CASE Pop
  <2>1. step = "metadata"
    BY <1>1 DEF Pop
  <2>2. QED
    BY <1>1, <2>1 DEF Pop, watchVars, syncVars, retryVars
<1>2. CASE PopNothing
  BY <1>2 DEF PopNothing, watchVars, syncVars, retryVars
<1>3. CASE Woken
  BY <1>3 DEF Woken, watchVars, syncVars, retryVars
<1>4. CASE StopRun
  BY <1>4 DEF StopRun, watchVars, syncVars, retryVars
<1>5. ASSUME NEW c \in Callers, Wake(c) PROVE SInv'
  BY <1>5 DEF Wake, watchVars, syncVars, retryVars
<1>6. QED
  BY <1>1, <1>2, <1>3, <1>4, <1>5 DEF QueueStep

\* No step of the controller breaks the invariant.
LEMMA NextSInv == SInv /\ [Next]_vars => SInv'
<1> SUFFICES ASSUME SInv, [Next]_vars PROVE SInv'
  OBVIOUS
<1>1. IInv'
  BY QueueSteps, NextIInv DEF SInv
<1>2. CASE Stop
  BY <1>1, <1>2 DEF Stop, CloseStop, SInv, TypeOK, StopOnly, NothingAhead, Rebuilt, NothingForgotten,
     MetadataPending, CertsPending, Scheduled, IInv, queueVars, watchVars, syncVars, retryVars
<1>3. CASE UNCHANGED vars
  BY <1>1, <1>3 DEF SInv, TypeOK, StopOnly, NothingAhead, Rebuilt, NothingForgotten, MetadataPending,
     CertsPending, Scheduled, IInv, vars, queueVars, watchVars, syncVars, retryVars
<1>4. QED
  BY <1>1, <1>2, <1>3, EnvironmentStep, WatchStep, QueueOnlyStep, SyncStep, RequeueStep DEF Next

\* The invariant holds in every reachable state.
LEMMA SInvariance == Spec => []SInv
  BY InitSInv, NextSInv, PTL DEF Spec

\* The state of the controller stays in its types, and a configuration is
\* applied only after the certificates were polled.
THEOREM ControllerTypeCorrect == Spec => []TypeOK
<1>1. SInv => TypeOK
  BY DEF SInv
<1>2. QED
  BY <1>1, SInvariance, PTL

\* No change of the metadata or the certificates is forgotten while the
\* controller runs, whatever fails and whoever else schedules reconciliations.
THEOREM ChangesAreNotForgotten == Spec => []NothingForgotten
<1>1. SInv => NothingForgotten
  BY DEF SInv
<1>2. QED
  BY <1>1, SInvariance, PTL

-----------------------------------------------------------------------------
(* The queue within the controller.                                        *)

\* ScheduleApplyConfig, requeue, sync and Stop use the queue as any callers do:
\* whatever they and the watchers do, it behaves as utils.TaskQueue does.
THEOREM ControllerUsesQueue == Spec => QueueSpec
<1>1. Init => QueueInit
  BY DEF Init
<1>2. QED
  BY <1>1, QueueSteps, PTL DEF Spec, QueueSpec

\* A reconciliation asked for while one runs is neither lost nor merged into it,
\* and no two reconciliations of the controller run at a time.
THEOREM ControllerCoalesces == Spec => CoalescesSafely
  BY ControllerUsesQueue, QueueCoalesces, PTL

\* The worker of the controller's queue does not wait while a reconciliation is
\* asked for, unless a wakeup is there or on its way.
THEOREM ControllerKeepsWakeups == Spec => []NoLostWakeup
  BY ControllerUsesQueue, WakeupsAreKept, PTL
=============================================================================
