----------------------- MODULE DrainCompletionProofs ------------------------
(***************************************************************************)
(* The drain list of DrainEvents never keeps an endpoint nobody attends,   *)
(* for any number of events and endpoints.  What AddEndpointForDrain and   *)
(* IsEndpointDrained answer, for any number of sessions and processes of   *)
(* HAProxy, too: no session that a drain has to wait for is left when it   *)
(* is seen complete, or when it is said not to be needed.                  *)
(***************************************************************************)
EXTENDS DrainCompletion, TLAPS

-----------------------------------------------------------------------------
(* The drain list.                                                         *)

\* NoOrphanDrain alone is not inductive: that one attending event leaves must
\* not orphan the endpoint, so every event that asked attends it.
AllAttend ==
  \A t \in drainList :
    /\ asked[t] # {}
    /\ \A e \in asked[t] : Target[e] = t /\ Attends(e)

IInv == TypeOK /\ AllAttend

\* Initially the drain list is empty.
LEMMA InitIInv == Init => IInv
  BY TargetAssumption, NoneAssumption
  DEF Init, IInv, TypeOK, AllAttend, HandlerStates, PollerStates, TimerStates

\* HandleDrainEvent keeps the invariant: whoever lists an endpoint, or finds it
\* listed, goes on to spawn a poller.
LEMMA HandleStep == ASSUME IInv, NEW e \in Events, Handle(e) PROVE IInv'
<1> USE TargetAssumption, NoneAssumption
<1> USE DEF IInv, TypeOK, AllAttend, Attends, Draining, HandlerStates, PollerStates, TimerStates
<1>1. CASE CheckEvent(e)
  BY <1>1 DEF CheckEvent
<1>2. CASE JoinDrain(e) \/ StartDrain(e)
  <2>1. TypeOK'
    BY <1>2 DEF JoinDrain, StartDrain
  <2>2. ASSUME NEW t \in drainList', t # Target[e]
        PROVE  asked'[t] # {} /\ \A d \in asked'[t] : Target[d] = t /\ Attends(d)'
    <3>1. t \in drainList /\ asked'[t] = asked[t]
      BY <1>2, <2>2 DEF JoinDrain, StartDrain
    <3>2. \A d \in asked[t] : d \in Events /\ d # e
      BY <2>2, <3>1
    <3>3. \A d \in Events : d # e => (Attends(d)' <=> Attends(d))
      BY <1>2 DEF JoinDrain, StartDrain
    <3>4. QED
      BY <3>1, <3>2, <3>3
  <2>3. ASSUME Target[e] \in drainList'
        PROVE  /\ asked'[Target[e]] # {}
               /\ \A d \in asked'[Target[e]] : Target[d] = Target[e] /\ Attends(d)'
    <3>1. /\ handler' = [handler EXCEPT ![e] = "spawn"]
          /\ poller' = poller
          /\ \/ Draining(e) /\ asked'[Target[e]] = asked[Target[e]] \cup {e}
             \/ asked'[Target[e]] = {e}
      BY <1>2, <2>3 DEF JoinDrain, StartDrain
    <3>2. \A d \in Events : Attends(d) => Attends(d)'
      BY <3>1
    <3>3. Attends(e)'
      BY <3>1
    <3>4. QED
      BY <3>1, <3>2, <3>3
  <2>4. QED
    BY <2>1, <2>2, <2>3
<1>3. CASE RefuseDrain(e)
  BY <1>3 DEF RefuseDrain
<1>4. CASE ReplyNotNeeded(e)
  BY <1>4 DEF ReplyNotNeeded, Publish, Accepted, Lost
<1>5. CASE SaveEvent(e)
  BY <1>5 DEF SaveEvent
<1>6. CASE SaveAndSpawn(e)
  <2>1. TypeOK'
    BY <1>6 DEF SaveAndSpawn
  <2>2. AllAttend'
    BY <1>6 DEF SaveAndSpawn
  <2>3. QED
    BY <2>1, <2>2
<1>7. QED
  BY <1>1, <1>2, <1>3, <1>4, <1>5, <1>6, Handle(e) DEF Handle

\* pollOnDrainResults keeps the invariant: a poller stops attending only when
\* its endpoint is not listed or in the step that takes it out of the list.
LEMMA PollStep == ASSUME IInv, NEW e \in Events, Poll(e) PROVE IInv'
<1> USE TargetAssumption, NoneAssumption
<1> USE DEF IInv, TypeOK, AllAttend, Attends, Draining, HandlerStates, PollerStates, TimerStates, PollerAt
<1>1. CASE PollerChecks(e)
  BY <1>1 DEF PollerChecks, Publish, Accepted, Lost
<1>2. CASE PollerAsks(e)
  BY <1>2 DEF PollerAsks, LookUp
<1>3. ASSUME NEW drained \in BOOLEAN, PollerHears(e, drained) PROVE IInv'
  BY <1>3 DEF PollerHears, Hear
<1>4. CASE PollerRemoves(e)
  BY <1>4 DEF PollerRemoves, RemoveFromDrain
<1>5. CASE PollerReplies(e)
  BY <1>5 DEF PollerReplies, ReplyToEvent, Publish, Accepted, Lost
<1>6. CASE PollerForgets(e)
  BY <1>6 DEF PollerForgets, RemoveFromEventMap
<1>7. QED
  BY <1>1, <1>2, <1>3, <1>4, <1>5, <1>6, Poll(e) DEF Poll

\* doOnDrainTimeout keeps the invariant: it only takes endpoints out.
LEMMA TimeStep == ASSUME IInv, NEW e \in Events, Time(e) PROVE IInv'
<1> USE TargetAssumption, NoneAssumption
<1> USE DEF IInv, TypeOK, AllAttend, Attends, Draining, HandlerStates, PollerStates, TimerStates, TimerAt
<1>1. CASE TimerTicks(e)
  BY <1>1 DEF TimerTicks, Publish, Accepted, Lost
<1>2. CASE TimerAsks(e)
  BY <1>2 DEF TimerAsks, LookUp
<1>3. ASSUME NEW drained \in BOOLEAN, TimerHears(e, drained) PROVE IInv'
  BY <1>3 DEF TimerHears, Hear
<1>4. CASE TimerRemoves(e)
  BY <1>4 DEF TimerRemoves, RemoveFromDrain
<1>5. CASE TimerReplies(e)
  BY <1>5 DEF TimerReplies, ReplyToEvent, Publish, Accepted, Lost
<1>6. CASE TimerForgets(e)
  BY <1>6 DEF TimerForgets, RemoveFromEventMap
<1>7. QED
  BY <1>1, <1>2, <1>3, <1>4, <1>5, <1>6, Time(e) DEF Time

\* No step of any goroutine breaks the invariant.
LEMMA NextIInv == IInv /\ [Next]_vars => IInv'
<1> SUFFICES ASSUME IInv, [Next]_vars PROVE IInv'
  OBVIOUS
<1>1. CASE UNCHANGED vars
  BY <1>1 DEF vars, IInv, TypeOK, AllAttend, Attends
<1>2. ASSUME NEW e \in Events, Handle(e) \/ Poll(e) \/ Time(e) PROVE IInv'
  BY <1>2, HandleStep, PollStep, TimeStep
<1>3. QED
  BY <1>1, <1>2 DEF Next

\* The invariant holds in every reachable state.
LEMMA Invariance == Spec => []IInv
  BY InitIInv, NextIInv, PTL DEF Spec

\* The variables of the event handler stay in their types, and a saved event is
\* about the endpoint it is saved under.
THEOREM EventTypes == Spec => []TypeOK
<1>1. IInv => TypeOK
  BY DEF IInv
<1>2. QED
  BY <1>1, Invariance, PTL

\* Every endpoint in the drain list is attended by a goroutine that will take
\* it out, whatever events arrive and however their goroutines interleave.
THEOREM NoDrainIsOrphaned == Spec => []NoOrphanDrain
<1>1. IInv => NoOrphanDrain
  BY DEF IInv, AllAttend, NoOrphanDrain
<1>2. QED
  BY <1>1, Invariance, PTL

-----------------------------------------------------------------------------
(* AnsweredAfterDrain.  An event that has not got as far as being saved is *)
(* not answered by anybody; while the drain of an event that is alone with *)
(* its endpoint is on, the event goes through its goroutines in order, and *)
(* its timer goes past its poll only if the drain was seen complete.       *)

Untouched(e) ==
  /\ poller[e] = "none"
  /\ timer[e] = "none"
  /\ e \notin answered
  /\ eventMap[Target[e]] # e

EarlyUntouched ==
  \A e \in Events :
    /\ handler[e] \in {"new", "drain", "save", "spawn"} => Untouched(e)
    /\ handler[e] = "reply" => poller[e] = "none" /\ timer[e] = "none" /\ eventMap[Target[e]] # e

InOrder(e) ==
  /\ handler[e] \in {"spawn", "done"}
  /\ timer[e] = "asked" => <<e, "timer">> \in fresh
  /\ timer[e] \in {"reply", "unmap", "stopped"} => Target[e] \in complete
  /\ e \in answered => Target[e] \in complete

LoneInOrder == \A e \in Events : Alone(e) /\ Target[e] \in drainList => InOrder(e)

AInv == IInv /\ EarlyUntouched /\ LoneInOrder

\* Initially no event has come and nothing is listed.
LEMMA InitAInv == Init => AInv
<1> SUFFICES ASSUME Init PROVE AInv
  OBVIOUS
<1>1. IInv
  BY InitIInv
<1>2. EarlyUntouched /\ LoneInOrder
  BY TargetAssumption, NoneAssumption DEF Init, EarlyUntouched, Untouched, LoneInOrder
<1>3. QED
  BY <1>1, <1>2 DEF AInv

\* The handlers of other events do not touch an event; its own brings it from
\* place to place.
LEMMA HandleKeepsOrder ==
  ASSUME AInv, NEW e \in Events, Handle(e) PROVE EarlyUntouched' /\ LoneInOrder'
<1> USE TargetAssumption, NoneAssumption
<1> USE DEF AInv, IInv, TypeOK, EarlyUntouched, Untouched, LoneInOrder, InOrder, Alone, Draining
<1> USE DEF HandlerStates, PollerStates, TimerStates
<1>1. CASE CheckEvent(e)
  BY <1>1 DEF CheckEvent
<1>2. CASE JoinDrain(e)
  BY <1>2 DEF JoinDrain
<1>3. CASE StartDrain(e)
  BY <1>3 DEF StartDrain
<1>4. CASE RefuseDrain(e)
  BY <1>4 DEF RefuseDrain
<1>5. CASE ReplyNotNeeded(e)
  BY <1>5 DEF ReplyNotNeeded, Publish, Accepted, Lost
<1>6. CASE SaveEvent(e)
  BY <1>6 DEF SaveEvent
<1>7. CASE SaveAndSpawn(e)
  BY <1>7 DEF SaveAndSpawn
<1>8. QED
  BY <1>1, <1>2, <1>3, <1>4, <1>5, <1>6, <1>7, Handle(e) DEF Handle

\* A poller answers events of its endpoint only, after it has ended their drain.
LEMMA PollKeepsOrder ==
  ASSUME AInv, NEW e \in Events, Poll(e) PROVE EarlyUntouched' /\ LoneInOrder'
<1> USE TargetAssumption, NoneAssumption
<1> USE DEF AInv, IInv, TypeOK, EarlyUntouched, Untouched, LoneInOrder, InOrder, Alone, Draining
<1> USE DEF HandlerStates, PollerStates, TimerStates, PollerAt, AllAttend, Attends
<1>1. CASE PollerChecks(e)
  BY <1>1 DEF PollerChecks, Publish, Accepted, Lost
<1>2. CASE PollerAsks(e)
  BY <1>2 DEF PollerAsks, LookUp
<1>3. ASSUME NEW drained \in BOOLEAN, PollerHears(e, drained)
      PROVE  EarlyUntouched' /\ LoneInOrder'
  BY <1>3 DEF PollerHears, Hear
<1>4. CASE PollerRemoves(e)
  BY <1>4 DEF PollerRemoves, RemoveFromDrain
<1>5. CASE PollerReplies(e)
  BY <1>5 DEF PollerReplies, ReplyToEvent, Publish, Accepted, Lost
<1>6. CASE PollerForgets(e)
  BY <1>6 DEF PollerForgets, RemoveFromEventMap
<1>7. QED
  BY <1>1, <1>2, <1>3, <1>4, <1>5, <1>6, Poll(e) DEF Poll

\* A timer answers after it has ended the drain or has seen it complete.
LEMMA TimeKeepsOrder ==
  ASSUME AInv, NEW e \in Events, Time(e) PROVE EarlyUntouched' /\ LoneInOrder'
<1> USE TargetAssumption, NoneAssumption
<1> USE DEF AInv, IInv, TypeOK, EarlyUntouched, Untouched, LoneInOrder, InOrder, Alone, Draining
<1> USE DEF HandlerStates, PollerStates, TimerStates, TimerAt
<1>1. CASE TimerTicks(e)
  BY <1>1 DEF TimerTicks, Publish, Accepted, Lost
<1>2. CASE TimerAsks(e)
  BY <1>2 DEF TimerAsks, LookUp
<1>3. ASSUME NEW drained \in BOOLEAN, TimerHears(e, drained)
      PROVE  EarlyUntouched' /\ LoneInOrder'
  BY <1>3 DEF TimerHears, Hear
<1>4. CASE TimerRemoves(e)
  BY <1>4 DEF TimerRemoves, RemoveFromDrain
<1>5. CASE TimerReplies(e)
  BY <1>5 DEF TimerReplies, ReplyToEvent, Publish, Accepted, Lost
<1>6. CASE TimerForgets(e)
  BY <1>6 DEF TimerForgets, RemoveFromEventMap
<1>7. QED
  BY <1>1, <1>2, <1>3, <1>4, <1>5, <1>6, Time(e) DEF Time

\* No step of any goroutine breaks the invariant.
LEMMA NextAInv == AInv /\ [Next]_vars => AInv'
<1> SUFFICES ASSUME AInv, [Next]_vars PROVE AInv'
  OBVIOUS
<1>1. IInv'
  BY NextIInv DEF AInv
<1>2. CASE UNCHANGED vars
  BY <1>1, <1>2 DEF vars, AInv, EarlyUntouched, Untouched, LoneInOrder, InOrder, Alone
<1>3. ASSUME NEW e \in Events, Handle(e) \/ Poll(e) \/ Time(e) PROVE AInv'
  BY <1>1, <1>3, HandleKeepsOrder, PollKeepsOrder, TimeKeepsOrder DEF AInv
<1>4. QED
  BY <1>2, <1>3 DEF Next

\* An event for whose sake alone an endpoint is drained is not answered before
\* the drain has been ended or seen complete.
THEOREM AnswersWait == Spec => []AnsweredAfterDrain
<1>1. AInv => AnsweredAfterDrain
  <2> SUFFICES ASSUME AInv, NEW t \in drainList, NEW e \in asked[t] \cap answered, Alone(e)
               PROVE  t \in complete
    BY DEF AnsweredAfterDrain
  <2>1. e \in Events /\ Target[e] = t
    BY DEF AInv, IInv, TypeOK, AllAttend
  <2>2. InOrder(e)
    BY <2>1 DEF AInv, LoneInOrder
  <2>3. QED
    BY <2>1, <2>2 DEF InOrder
<1>2. QED
  BY <1>1, InitAInv, NextAInv, PTL DEF Spec

-----------------------------------------------------------------------------
(* The answers of the provider.                                            *)

\* The drain of t waits for sessions of the process it is listed with.
OwedInEntry ==
  \A t \in drainList : entry[t] # 0 => \A s \in Of(t) \cap owed : openIn[s] = entry[t]

\* Since the sessions of the endpoint were counted to be none, none of those
\* that are waited for is in the running process.
CountedIdle ==
  /\ add.at = "older" => add.idle
  /\ ~Unlocked /\ add.idle => \A s \in Of(Target[add.by]) \cap owed : openIn[s] # pid

\* A poll that found the present drain knows its entry, and if it has come to
\* ask for older processes, no session waited for is in the running one.
FreshPoll(c) ==
  /\ poll[c].at # "none"
  /\ poll[c].listed = entry[Target[c[1]]]
  /\ poll[c].at = "older" =>
       poll[c].listed = 0 /\ \A s \in Of(Target[c[1]]) \cap owed : openIn[s] # pid

FreshPolls == \A c \in fresh : FreshPoll(c)

CInv == AInv /\ CompletionTypeOK /\ OwedInEntry /\ CountedIdle /\ FreshPolls

\* The invariant is made of parts that are kept one by one.
LEMMA InitCInv == CompletionInit => CInv
<1> SUFFICES ASSUME CompletionInit PROVE CInv
  OBVIOUS
<1> USE TargetAssumption, NoneAssumption, ServesAssumption, MaxPidAssumption
<1> USE DEF CompletionInit, Init
<1>1. AInv
  BY InitAInv
<1>2. CompletionTypeOK
  BY DEF CompletionTypeOK, NoAdd, NoPoll, AddStates, PollStates, Callers, Unlocked, PollAt, Open
<1>3. OwedInEntry /\ CountedIdle /\ FreshPolls
  BY DEF OwedInEntry, CountedIdle, FreshPolls, FreshPoll, NoAdd, Unlocked
<1>4. QED
  BY <1>1, <1>2, <1>3 DEF CInv

\* Every step is a step of the event goroutines or leaves their state alone.
LEMMA EventSteps == CompletionNext => [Next]_vars
<1> SUFFICES ASSUME CompletionNext PROVE [Next]_vars
  OBVIOUS
<1>1. ASSUME NEW e \in Events, Adds(e) PROVE Handle(e) \/ UNCHANGED vars
  BY <1>1
  DEF Adds, Joins, CannotCount, Counts, CannotZero, ListsProcess, Zeroes, ListsOlder, NotNeeded, Lists, Handle
<1>2. ASSUME NEW e \in Events, NEW who \in {"poller", "timer"}, IsEndpointDrained(e, who)
      PROVE  Poll(e) \/ Time(e) \/ UNCHANGED vars
  <2>1. ASSUME NEW drained \in BOOLEAN, Answers(e, who, drained) PROVE Poll(e) \/ Time(e)
    BY <2>1 DEF Answers, Poll, Time
  <2>2. CASE Asks(e, who)
    BY <2>2 DEF Asks, Poll, Time
  <2>3. QED
    BY <1>2, <2>1, <2>2
    DEF IsEndpointDrained, CannotTell, AsksProcess, ReadsPid, ReadsStats, GoesOn, AsksOlder
<1>3. ASSUME NEW e \in Events, Handling(e) PROVE [Next]_vars
  BY <1>1, <1>3 DEF Handling, Handle, Next
<1>4. ASSUME NEW e \in Events, Polling(e) PROVE [Next]_vars
  BY <1>2, <1>4 DEF Polling, Poll, Next
<1>5. ASSUME NEW e \in Events, Timing(e) PROVE [Next]_vars
  BY <1>2, <1>5 DEF Timing, Time, Next
<1>6. CASE Haproxy
  BY <1>6 DEF Haproxy, Opens, Closes, Reload, OldExits
<1>7. QED
  BY <1>3, <1>4, <1>5, <1>6 DEF CompletionNext

-----------------------------------------------------------------------------
(* AddEndpointForDrain keeps the invariant: what it lists is what the      *)
(* sessions were counted for.                                              *)

LEMMA AddsKeep ==
  ASSUME CInv, NEW e \in Events, Adds(e)
  PROVE  CompletionTypeOK' /\ OwedInEntry' /\ CountedIdle' /\ FreshPolls'
<1> USE TargetAssumption, NoneAssumption, ServesAssumption, MaxPidAssumption
<1> USE DEF CInv, AInv, IInv, TypeOK, CompletionTypeOK, OwedInEntry, CountedIdle, FreshPolls, FreshPoll
<1> USE DEF AddStates, PollStates, Callers, Unlocked, PollAt, Open, Of, NoAdd, Draining
<1> USE DEF haproxy, provider
<1>1. CASE Joins(e)
  BY <1>1 DEF Joins, JoinDrain
<1>2. CASE CannotCount(e)
  BY <1>2 DEF CannotCount, RefuseDrain
<1>3. CASE Counts(e)
  <2>1. CompletionTypeOK'
    BY <1>3 DEF Counts, vars, Busy
  <2>2. OwedInEntry'
    BY <1>3 DEF Counts, vars, Busy
  <2>3. CountedIdle'
    BY <1>3 DEF Counts, vars, Busy
  <2>4. FreshPolls'
    BY <1>3 DEF Counts, vars, Busy
  <2>5. QED
    BY <2>1, <2>2, <2>3, <2>4
<1>4. CASE CannotZero(e)
  BY <1>4 DEF CannotZero, RefuseDrain, At
<1>5. CASE ListsProcess(e)
  BY <1>5 DEF ListsProcess, Lists, StartDrain, At
<1>6. CASE Zeroes(e)
  BY <1>6 DEF Zeroes, At, vars
<1>7. CASE ListsOlder(e)
  BY <1>7 DEF ListsOlder, Lists, StartDrain, At
<1>8. CASE NotNeeded(e)
  BY <1>8 DEF NotNeeded, RefuseDrain, At
<1>9. QED
  BY <1>1, <1>2, <1>3, <1>4, <1>5, <1>6, <1>7, <1>8, Adds(e) DEF Adds

\* IsEndpointDrained keeps the invariant.
LEMMA PollsKeep ==
  ASSUME CInv, NEW e \in Events, NEW who \in {"poller", "timer"}, IsEndpointDrained(e, who)
  PROVE  CompletionTypeOK' /\ OwedInEntry' /\ CountedIdle' /\ FreshPolls'
<1> USE TargetAssumption, NoneAssumption, ServesAssumption, MaxPidAssumption
<1> USE DEF CInv, AInv, IInv, TypeOK, CompletionTypeOK, OwedInEntry, CountedIdle, FreshPolls, FreshPoll
<1> USE DEF AddStates, PollStates, Callers, Unlocked, PollAt, Open, Of, NoPoll, Draining
<1> USE DEF haproxy, provider, HandlerStates, PollerStates, TimerStates, PollerAt, TimerAt
<1>1. CASE Asks(e, who)
  BY <1>1 DEF Asks, PollerAsks, TimerAsks, LookUp
<1>2. ASSUME NEW drained \in BOOLEAN, Answers(e, who, drained)
      PROVE  CompletionTypeOK' /\ OwedInEntry' /\ CountedIdle' /\ FreshPolls'
  BY <1>2 DEF Answers, PollerHears, TimerHears, Hear
<1>3. CASE ReadsPid(e, who)
  <2>1. CompletionTypeOK'
    BY <1>3 DEF ReadsPid, vars
  <2>2. OwedInEntry'
    BY <1>3 DEF ReadsPid, vars
  <2>3. CountedIdle'
    BY <1>3 DEF ReadsPid, vars
  <2>4. FreshPolls'
    <3> SUFFICES ASSUME NEW c \in fresh PROVE FreshPoll(c)'
      BY <1>3 DEF ReadsPid, vars
    <3>1. c \in Callers /\ FreshPoll(c) /\ <<e, who>> \in Callers
      OBVIOUS
    <3>2. CASE c = <<e, who>>
      BY <1>3, <3>1, <3>2 DEF ReadsPid, vars
    <3>3. CASE c # <<e, who>>
      <4>1. poll'[c] = poll[c]
        BY <1>3, <3>1, <3>3 DEF ReadsPid
      <4>2. QED
        BY <1>3, <3>1, <4>1 DEF ReadsPid, vars
    <3>4. QED
      BY <3>2, <3>3
  <2>5. QED
    BY <2>1, <2>2, <2>3, <2>4
<1>4. CASE GoesOn(e, who)
  <2>1. CompletionTypeOK'
    BY <1>4 DEF GoesOn, vars, Busy
  <2>2. OwedInEntry'
    BY <1>4 DEF GoesOn, vars, Busy
  <2>3. CountedIdle'
    BY <1>4 DEF GoesOn, vars, Busy
  <2>4. FreshPolls'
    <3> SUFFICES ASSUME NEW c \in fresh PROVE FreshPoll(c)'
      BY <1>4 DEF GoesOn, vars
    <3>1. c \in Callers /\ FreshPoll(c) /\ <<e, who>> \in Callers
      OBVIOUS
    <3>2. CASE c = <<e, who>>
      BY <1>4, <3>1, <3>2 DEF GoesOn, vars, Busy
    <3>3. CASE c # <<e, who>>
      <4>1. poll'[c] = poll[c]
        BY <1>4, <3>1, <3>3 DEF GoesOn
      <4>2. QED
        BY <1>4, <3>1, <4>1 DEF GoesOn, vars
    <3>4. QED
      BY <3>2, <3>3
  <2>5. QED
    BY <2>1, <2>2, <2>3, <2>4
<1>5. QED
  BY <1>1, <1>2, <1>3, <1>4, IsEndpointDrained(e, who)
  DEF IsEndpointDrained, CannotTell, AsksProcess, ReadsStats, AsksOlder

\* The steps of the goroutines that do not ask HAProxy keep the invariant.
LEMMA OthersKeep ==
  ASSUME CInv, NEW e \in Events,
         \/ CheckEvent(e) /\ LooksUp
         \/ (ReplyNotNeeded(e) \/ SaveEvent(e) \/ SaveAndSpawn(e)) /\ GoesAlone
         \/ (PollerChecks(e) \/ TimerTicks(e)) /\ LooksUp
         \/ (PollerRemoves(e) \/ TimerRemoves(e)) /\ Removes(e)
         \/ (PollerReplies(e) \/ PollerForgets(e) \/ TimerReplies(e) \/ TimerForgets(e)) /\ GoesAlone
  PROVE  CompletionTypeOK' /\ OwedInEntry' /\ CountedIdle' /\ FreshPolls'
<1> USE TargetAssumption, NoneAssumption, ServesAssumption, MaxPidAssumption
<1> USE DEF CInv, AInv, IInv, TypeOK, CompletionTypeOK, OwedInEntry, CountedIdle, FreshPolls, FreshPoll
<1> USE DEF AddStates, PollStates, Callers, Unlocked, PollAt, Open, Of, NoPoll, Draining
<1> USE DEF haproxy, provider, HandlerStates, PollerStates, TimerStates, PollerAt, TimerAt
<1> USE DEF LooksUp, GoesAlone
<1>1. CASE CheckEvent(e) /\ LooksUp
  BY <1>1 DEF CheckEvent
<1>2. CASE (ReplyNotNeeded(e) \/ SaveEvent(e) \/ SaveAndSpawn(e)) /\ GoesAlone
  <2>1. CompletionTypeOK'
    <3>1. CASE ReplyNotNeeded(e)
      BY <1>2, <3>1 DEF ReplyNotNeeded, Publish, Accepted, Lost
    <3>2. CASE SaveEvent(e)
      BY <1>2, <3>2 DEF SaveEvent
    <3>3. CASE SaveAndSpawn(e)
      BY <1>2, <3>3 DEF SaveAndSpawn, EarlyUntouched, Untouched
    <3>4. QED
      BY <1>2, <3>1, <3>2, <3>3
  <2>2. OwedInEntry'
    BY <1>2 DEF ReplyNotNeeded, SaveEvent, SaveAndSpawn, Publish, Accepted, Lost
  <2>3. CountedIdle'
    BY <1>2 DEF ReplyNotNeeded, SaveEvent, SaveAndSpawn, Publish, Accepted, Lost
  <2>4. FreshPolls'
    BY <1>2 DEF ReplyNotNeeded, SaveEvent, SaveAndSpawn, Publish, Accepted, Lost
  <2>5. QED
    BY <2>1, <2>2, <2>3, <2>4
<1>3. CASE (PollerChecks(e) \/ TimerTicks(e)) /\ LooksUp
  BY <1>3 DEF PollerChecks, TimerTicks, Publish, Accepted, Lost
<1>4. CASE (PollerRemoves(e) \/ TimerRemoves(e)) /\ Removes(e)
  BY <1>4 DEF PollerRemoves, TimerRemoves, RemoveFromDrain, Removes
<1>5. CASE (PollerReplies(e) \/ TimerReplies(e)) /\ GoesAlone
  BY <1>5 DEF PollerReplies, TimerReplies, ReplyToEvent, Publish, Accepted, Lost
<1>6. CASE (PollerForgets(e) \/ TimerForgets(e)) /\ GoesAlone
  BY <1>6 DEF PollerForgets, TimerForgets, RemoveFromEventMap
<1>7. QED
  BY <1>1, <1>2, <1>3, <1>4, <1>5, <1>6

\* Sessions, reloads and exits keep the invariant: only sessions that end leave
\* those that are waited for, and a new process has none of them.
LEMMA HaproxyKeeps ==
  ASSUME CInv, Haproxy
  PROVE  CompletionTypeOK' /\ OwedInEntry' /\ CountedIdle' /\ FreshPolls'
<1> USE TargetAssumption, NoneAssumption, ServesAssumption, MaxPidAssumption
<1> USE DEF CInv, AInv, IInv, TypeOK, CompletionTypeOK, OwedInEntry, CountedIdle, FreshPolls, FreshPoll
<1> USE DEF AddStates, PollStates, Callers, Unlocked, PollAt, Open, Of, Draining, provider, vars
<1>1. ASSUME NEW s \in Sessions, Opens(s)
      PROVE  CompletionTypeOK' /\ OwedInEntry' /\ CountedIdle' /\ FreshPolls'
  BY <1>1 DEF Opens
<1>2. ASSUME NEW s \in Sessions, Closes(s)
      PROVE  CompletionTypeOK' /\ OwedInEntry' /\ CountedIdle' /\ FreshPolls'
  BY <1>2 DEF Closes
<1>3. CASE Reload
  BY <1>3 DEF Reload
<1>4. ASSUME NEW p \in procs, OldExits(p)
      PROVE  CompletionTypeOK' /\ OwedInEntry' /\ CountedIdle' /\ FreshPolls'
  BY <1>4 DEF OldExits
<1>5. QED
  BY <1>1, <1>2, <1>3, <1>4, Haproxy DEF Haproxy

-----------------------------------------------------------------------------
\* No step breaks the invariant.
LEMMA NextCInv == CInv /\ [CompletionNext]_allVars => CInv'
<1> SUFFICES ASSUME CInv, [CompletionNext]_allVars PROVE CInv'
  OBVIOUS
<1>1. CASE UNCHANGED allVars
  <2>1. AInv'
    BY <1>1, NextAInv DEF CInv, allVars
  <2>2. CompletionTypeOK' /\ OwedInEntry' /\ CountedIdle' /\ FreshPolls'
    BY <1>1
    DEF CInv, CompletionTypeOK, OwedInEntry, CountedIdle, FreshPolls, FreshPoll,
        Unlocked, Draining, PollAt, Open, allVars, haproxy, provider, vars
  <2>3. QED
    BY <2>1, <2>2 DEF CInv
<1>2. CASE CompletionNext
  <2>1. AInv'
    BY <1>2, EventSteps, NextAInv DEF CInv
  <2>2. ASSUME NEW e \in Events, Handling(e) \/ Polling(e) \/ Timing(e)
        PROVE  CompletionTypeOK' /\ OwedInEntry' /\ CountedIdle' /\ FreshPolls'
    BY <2>2, AddsKeep, PollsKeep, OthersKeep DEF Handling, Polling, Timing
  <2>3. QED
    BY <1>2, <2>1, <2>2, HaproxyKeeps DEF CompletionNext, CInv
<1>3. QED
  BY <1>1, <1>2

\* The invariant holds in every reachable state.
LEMMA CompletionInvariance == CompletionSpec => []CInv
  BY InitCInv, NextCInv, PTL DEF CompletionSpec

\* The state of HAProxy, of the drain list and of every call under way stays in
\* its type, and no session is open in a process that does not exist.
THEOREM CompletionTypes == CompletionSpec => []CompletionTypeOK
<1>1. CInv => CompletionTypeOK
  BY DEF CInv
<1>2. QED
  BY <1>1, CompletionInvariance, PTL

\* A step that lets a drain be seen complete is the answer of a poll that found
\* this drain.
LEMMA SeenByFreshPoll ==
  ASSUME CInv, CompletionNext, NEW t \in complete' \ complete
  PROVE  \E e \in Events, who \in {"poller", "timer"} :
           /\ Answers(e, who, TRUE)
           /\ IsEndpointDrained(e, who)
           /\ <<e, who>> \in fresh
           /\ Target[e] = t
<1>1. ASSUME NEW e \in Events, Handling(e) PROVE FALSE
  <2>1. complete' \subseteq complete
    BY <1>1
    DEF Handling, CheckEvent, ReplyNotNeeded, SaveEvent, SaveAndSpawn, Adds, Joins, JoinDrain,
        CannotCount, RefuseDrain, Counts, CannotZero, ListsProcess, Lists, StartDrain, Zeroes,
        ListsOlder, NotNeeded, vars
  <2>2. QED
    BY <2>1
<1>2. ASSUME NEW e \in Events, NEW who \in {"poller", "timer"}, IsEndpointDrained(e, who)
      PROVE  /\ Answers(e, who, TRUE)
             /\ <<e, who>> \in fresh
             /\ Target[e] = t
  <2>1. CASE Asks(e, who) \/ ReadsPid(e, who) \/ GoesOn(e, who)
    BY <2>1 DEF Asks, PollerAsks, TimerAsks, ReadsPid, GoesOn, vars
  <2>2. ASSUME NEW drained \in BOOLEAN, Answers(e, who, drained)
        PROVE  drained /\ <<e, who>> \in fresh /\ Target[e] = t
    BY <2>2 DEF Answers, PollerHears, TimerHears, Hear
  <2>3. QED
    BY <1>2, <2>1, <2>2 DEF IsEndpointDrained, CannotTell, AsksProcess, ReadsStats, AsksOlder
<1>3. ASSUME NEW e \in Events, Polling(e) \/ Timing(e)
      PROVE  \E who \in {"poller", "timer"} : IsEndpointDrained(e, who)
  <2>1. CASE \/ PollerChecks(e) \/ PollerRemoves(e) \/ PollerReplies(e) \/ PollerForgets(e)
             \/ TimerTicks(e) \/ TimerRemoves(e) \/ TimerReplies(e) \/ TimerForgets(e)
    <3>1. complete' \subseteq complete
      BY <2>1
      DEF PollerChecks, PollerRemoves, PollerReplies, PollerForgets,
          TimerTicks, TimerRemoves, TimerReplies, TimerForgets, RemoveFromDrain
    <3>2. QED
      BY <3>1
  <2>2. QED
    BY <1>3, <2>1 DEF Polling, Timing
<1>4. CASE Haproxy
  BY <1>4 DEF Haproxy, Opens, Closes, Reload, OldExits, vars
<1>5. QED
  BY <1>1, <1>2, <1>3, <1>4 DEF CompletionNext

\* When a poll that found the present drain says that it is complete, no session
\* is left that it has to wait for, or a reload has come between two readings.
LEMMA FreshAnswerIsTrue ==
  ASSUME CInv, NEW e \in Events, NEW who \in {"poller", "timer"},
         Answers(e, who, TRUE), IsEndpointDrained(e, who), <<e, who>> \in fresh
  PROVE  Of(Target[e]) \cap owed = {} \/ Overtaken(Target[e])
<1> DEFINE c == <<e, who>>
<1> USE DEF CInv, CompletionTypeOK, Of, Open, PollAt
<1>1. /\ c \in Callers /\ c[1] = e
      /\ Target[e] \in drainList
      /\ FreshPoll(c)
  BY DEF AInv, IInv, TypeOK, FreshPolls, Callers
<1>2. poll'[c] = NoPoll
  BY <1>1 DEF Answers
<1>3. CASE AsksProcess(e, who) /\ poll[c].listed \notin procs
  BY <1>1, <1>3 DEF AsksProcess, FreshPoll, OwedInEntry
<1>4. CASE ReadsStats(e, who) /\ ~Busy(Target[e])
  BY <1>1, <1>4 DEF ReadsStats, FreshPoll, OwedInEntry, Overtaken, Busy
<1>5. CASE AsksOlder(e, who) /\ ~OlderExists
  BY <1>1, <1>5 DEF AsksOlder, FreshPoll, OlderExists
<1>6. ASSUME NEW drained \in BOOLEAN, Answers(e, who, drained) PROVE drained
  <2>1. CASE who = "poller"
    <3>1. poller'[e] = "remove" /\ poller'[e] = IF drained THEN "remove" ELSE "check"
      BY <1>6, <2>1 DEF Answers, PollerHears, PollerAt, AInv, IInv, TypeOK
    <3>2. QED
      BY <3>1
  <2>2. CASE who = "timer"
    <3>1. timer'[e] = "reply" /\ timer'[e] = IF drained THEN "reply" ELSE "remove"
      BY <1>6, <2>2 DEF Answers, TimerHears, TimerAt, AInv, IInv, TypeOK
    <3>2. QED
      BY <3>1
  <2>3. QED
    BY <2>1, <2>2
<1>7. ~Asks(e, who) /\ ~ReadsPid(e, who) /\ ~GoesOn(e, who)
  BY <1>1, <1>2 DEF Asks, PollerAsks, TimerAsks, ReadsPid, GoesOn, NoPoll, FreshPoll, Draining
<1>8. QED
  BY <1>3, <1>4, <1>5, <1>6, <1>7, IsEndpointDrained(e, who)
  DEF IsEndpointDrained, CannotTell, AsksProcess, ReadsStats, AsksOlder

\* A drain is not seen complete before every session it has to wait for is over,
\* unless a reload comes between two readings of one poll.
THEOREM ServedWhenComplete == CompletionSpec => CompleteWhenServed
<1>1. CInv /\ [CompletionNext]_allVars =>
        [\A t \in complete' \ complete : Of(t) \cap owed = {} \/ Overtaken(t)]_allVars
  <2> SUFFICES ASSUME CInv, CompletionNext, NEW t \in complete' \ complete
               PROVE  Of(t) \cap owed = {} \/ Overtaken(t)
    OBVIOUS
  <2>1. PICK e \in Events, who \in {"poller", "timer"} :
          /\ Answers(e, who, TRUE)
          /\ IsEndpointDrained(e, who)
          /\ <<e, who>> \in fresh
          /\ Target[e] = t
    BY SeenByFreshPoll
  <2>2. QED
    BY <2>1, FreshAnswerIsTrue
<1>2. QED
  BY <1>1, CompletionInvariance, PTL DEF CompletionSpec, CompleteWhenServed

\* An event is told that no drain is needed only when every session that was
\* open at its call is over.
THEOREM ServedWhenNotNeeded == CompletionSpec => NotNeededWhenServed
<1> DEFINE Refused ==
      \A e \in Events : At(e, "older") /\ handler'[e] = "reply" => Of(Target[e]) \cap owed = {}
<1>1. CInv /\ [CompletionNext]_allVars => [Refused]_allVars
  <2> SUFFICES ASSUME CInv, CompletionNext, NEW e \in Events, At(e, "older"), handler'[e] = "reply"
               PROVE  Of(Target[e]) \cap owed = {}
    OBVIOUS
  <2>1. handler[e] = "drain" /\ add.by = e /\ ~Unlocked /\ add.at = "older" /\ add.idle
    BY DEF CInv, CompletionTypeOK, CountedIdle, At, Unlocked
  <2>2. ~OlderExists
    <3>1. ASSUME NEW d \in Events, Handling(d) PROVE ~OlderExists
      BY <2>1, <3>1
      DEF Handling, CheckEvent, LooksUp, ReplyNotNeeded, SaveEvent, SaveAndSpawn, Adds, Joins, At,
          CannotCount, Counts, CannotZero, ListsProcess, Lists, StartDrain, Zeroes, ListsOlder,
          NotNeeded, Unlocked, vars, CInv, AInv, IInv, TypeOK
    <3>2. ASSUME NEW d \in Events, Polling(d) \/ Timing(d) PROVE handler' = handler
      BY <3>2
      DEF Polling, Timing, IsEndpointDrained, Asks, PollerAsks, TimerAsks, CannotTell, Answers,
          PollerHears, TimerHears, AsksProcess, ReadsPid, ReadsStats, GoesOn, AsksOlder, vars,
          PollerChecks, PollerRemoves, PollerReplies, PollerForgets,
          TimerTicks, TimerRemoves, TimerReplies, TimerForgets
    <3>3. CASE Haproxy
      BY <2>1, <3>3 DEF Haproxy, Opens, Closes, Reload, OldExits, vars
    <3>4. QED
      BY <2>1, <3>1, <3>2, <3>3 DEF CompletionNext
  <2>3. QED
    BY <2>1, <2>2 DEF CInv, CountedIdle, CompletionTypeOK, OlderExists, Of, Open
<1>2. QED
  BY <1>1, CompletionInvariance, PTL DEF CompletionSpec, NotNeededWhenServed

-----------------------------------------------------------------------------
(* The goroutines of the events, with the provider they call.              *)

\* The answers that AddEndpointForDrain and IsEndpointDrained arrive at are among
\* those that the goroutines of rancher_events_handler.go reckon with.
THEOREM CompletionServesEvents == CompletionSpec => Spec
<1>1. CompletionInit => Init
  BY DEF CompletionInit
<1>2. [CompletionNext]_allVars => [Next]_vars
  BY EventSteps DEF allVars
<1>3. QED
  BY <1>1, <1>2, PTL DEF CompletionSpec, Spec

\* With sessions, reloads and several processes of HAProxy, too, an endpoint in
\* the drain list has a goroutine that will take it out (pollOnDrainResults).
THEOREM NoDrainIsOrphanedByProvider == CompletionSpec => []NoOrphanDrain
  BY CompletionServesEvents, NoDrainIsOrphaned, PTL

\* ... and an event that is alone with its endpoint is not answered while its
\* drain is on and was not seen complete by IsEndpointDrained.
THEOREM AnswersWaitForProvider == CompletionSpec => []AnsweredAfterDrain
  BY CompletionServesEvents, AnswersWait, PTL
=============================================================================
