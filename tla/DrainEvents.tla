---------------------------- MODULE DrainEvents ----------------------------
(***************************************************************************)
(* The target.drain events of the control plane (REventsHandler in         *)
(* controller/rancher/rancher_events_handler.go).  Every event is handled  *)
(* by a goroutine of its own; an event that starts a drain spawns two      *)
(* more, one polling for completion and one waiting for the timeout.  They *)
(* share the provider's drain list and the handler's event map, each under *)
(* its own lock, and hold no lock between two calls.                       *)
(*                                                                         *)
(* Of the provider only the drain list is kept here; whether a drain is    *)
(* needed and when it is complete are free answers, which DrainCompletion  *)
(* ties to the sessions of HAProxy.  Every event names an address: one     *)
(* whose address is null is answered at once and one without the field is  *)
(* dropped, and neither touches the shared state.                          *)
(***************************************************************************)
EXTENDS Naturals, FiniteSets

CONSTANTS
  Events,      \* target.drain events
  Endpoints,   \* endpoint names
  Target,      \* Target[e]: the endpoint event e is about
  Parsable,    \* events whose drainTimeout is a duration
  None         \* "no event"

ASSUME TargetAssumption == Target \in [Events -> Endpoints]
ASSUME ParsableAssumption == Parsable \subseteq Events
ASSUME NoneAssumption == None \notin Events

VARIABLES
  drainList,   \* drainMgr.drainList
  eventMap,    \* REventsHandler.EventMap
  handler,     \* where the goroutine of HandleDrainEvent is
  poller,      \* where the goroutine of pollOnDrainResults is
  timer,       \* where the goroutine of doOnDrainTimeout is
  answered,    \* events a reply was published to
  unsent,      \* events the publication of a reply failed for
  \* history
  asked,       \* events for whose sake the present drain of an endpoint is on
  complete,    \* endpoints whose present drain was seen complete
  fresh        \* polls under way that found the present drain in the list

vars == <<drainList, eventMap, handler, poller, timer, answered, unsent, asked, complete, fresh>>

HandlerStates == {"new", "drain", "reply", "save", "spawn", "done"}
PollerStates == {"none", "check", "poll", "asked", "remove", "reply", "unmap", "done"}
TimerStates == {"none", "armed", "poll", "asked", "remove", "reply", "unmap", "stopped", "done"}

Init ==
  /\ drainList = {}
  /\ eventMap = [t \in Endpoints |-> None]
  /\ handler = [e \in Events |-> "new"]
  /\ poller = [e \in Events |-> "none"]
  /\ timer = [e \in Events |-> "none"]
  /\ answered = {}
  /\ unsent = {}
  /\ asked = [t \in Endpoints |-> {}]
  /\ complete = {}
  /\ fresh = {}

Draining(e) == Target[e] \in drainList

\* CreateAndPublishReply: the control plane takes the reply or it is lost.
Accepted(e) == answered' = answered \cup {e} /\ UNCHANGED unsent
Lost(e) == unsent' = unsent \cup {e} /\ UNCHANGED answered
Publish(e) == Accepted(e) \/ Lost(e)

\* DoOnTimeout: RemoveEndpointFromDrain.
RemoveFromDrain(e) ==
  /\ drainList' = drainList \ {Target[e]}
  /\ complete' = complete \ {Target[e]}
  /\ fresh' = {c \in fresh : Target[c[1]] # Target[e]}

\* A plausible mistake: the drain list is not consulted.
LookUpUnlisted(e, who) == fresh' = fresh \cup {<<e, who>>}

\* PollStatus first looks the endpoint up in the drain list and then, holding
\* no lock, asks HAProxy.
LookUp(e, who) ==
  /\ Draining(e)
  /\ fresh' = fresh \cup {<<e, who>>}

\* Its answer may come after the drain it found has been ended by another
\* goroutine, even after a new one has begun.  A weight of zero does not keep
\* persistent sessions away, so that a drain seen complete may be seen
\* incomplete later.
Hear(e, who, drained) ==
  /\ complete' = IF drained /\ <<e, who>> \in fresh THEN complete \cup {Target[e]} ELSE complete
  /\ fresh' = fresh \ {<<e, who>>}

-----------------------------------------------------------------------------
(* HandleDrainEvent and, where it asks for one, the reply of handle.       *)

CheckEvent(e) ==
  /\ handler[e] = "new"
  /\ handler' = [handler EXCEPT ![e] = IF Draining(e) THEN "save" ELSE "drain"]
  /\ UNCHANGED <<drainList, eventMap, poller, timer, answered, unsent, asked, complete, fresh>>

\* Plausible mistakes: an endpoint whose drain fails is listed all the same, or
\* an event that needs no drain is not answered.
RefuseDrainListed(e) ==
  /\ handler[e] = "drain"
  /\ ~Draining(e)
  /\ handler' = [handler EXCEPT ![e] = "reply"]
  /\ drainList' = drainList \cup {Target[e]}
  /\ asked' = [asked EXCEPT ![Target[e]] = {e}]
  /\ UNCHANGED <<eventMap, poller, timer, answered, unsent, complete, fresh>>

ReplyNotNeededSilent(e) ==
  /\ handler[e] = "reply"
  /\ handler' = [handler EXCEPT ![e] = "done"]
  /\ UNCHANGED <<drainList, eventMap, poller, timer, answered, unsent, asked, complete, fresh>>

\* DoOnEvent: true if the endpoint has meanwhile come into the list ...
JoinDrain(e) ==
  /\ handler[e] = "drain"
  /\ Draining(e)
  /\ handler' = [handler EXCEPT ![e] = "spawn"]
  /\ asked' = [asked EXCEPT ![Target[e]] = @ \cup {e}]
  /\ UNCHANGED <<drainList, eventMap, poller, timer, answered, unsent, complete, fresh>>

\* ... or is put there ...
StartDrain(e) ==
  /\ handler[e] = "drain"
  /\ ~Draining(e)
  /\ handler' = [handler EXCEPT ![e] = "spawn"]
  /\ drainList' = drainList \cup {Target[e]}
  /\ asked' = [asked EXCEPT ![Target[e]] = {e}]
  /\ UNCHANGED <<eventMap, poller, timer, answered, unsent, complete, fresh>>

\* ... and false if no drain is needed, if setting the weights fails, or if no
\* PID can be read, which is found before the list is looked at.
RefuseDrain(e) ==
  /\ handler[e] = "drain"
  /\ handler' = [handler EXCEPT ![e] = "reply"]
  /\ UNCHANGED <<drainList, eventMap, poller, timer, answered, unsent, asked, complete, fresh>>

ReplyNotNeeded(e) ==
  /\ handler[e] = "reply"
  /\ Publish(e)
  /\ handler' = [handler EXCEPT ![e] = "done"]
  /\ UNCHANGED <<drainList, eventMap, poller, timer, asked, complete, fresh>>

\* A drain is under way: its goroutines will answer the event saved last.
SaveEvent(e) ==
  /\ handler[e] = "save"
  /\ eventMap' = [eventMap EXCEPT ![Target[e]] = e]
  /\ handler' = [handler EXCEPT ![e] = "done"]
  /\ UNCHANGED <<drainList, poller, timer, answered, unsent, asked, complete, fresh>>

SaveAndSpawn(e) ==
  /\ handler[e] = "spawn"
  /\ eventMap' = [eventMap EXCEPT ![Target[e]] = e]
  /\ handler' = [handler EXCEPT ![e] = "done"]
  /\ poller' = [poller EXCEPT ![e] = "check"]
  /\ timer' = [timer EXCEPT ![e] = IF e \in Parsable THEN "armed" ELSE "done"]
  /\ UNCHANGED <<drainList, answered, unsent, asked, complete, fresh>>

Handle(e) ==
  \/ CheckEvent(e)
  \/ JoinDrain(e)
  \/ StartDrain(e)
  \/ RefuseDrain(e)
  \/ ReplyNotNeeded(e)
  \/ SaveEvent(e)
  \/ SaveAndSpawn(e)

-----------------------------------------------------------------------------
(* replyToEvent, common to the poller and the timer of e: answer the event *)
(* saved last, or e; only a saved event whose reply was accepted is        *)
(* forgotten.                                                              *)

ReplyToEvent(e, forget) ==
  LET saved == eventMap[Target[e]] IN
  \/ saved # None /\ forget /\ Accepted(saved)
  \/ saved # None /\ ~forget /\ Lost(saved)
  \/ saved = None /\ ~forget /\ Publish(e)

RemoveFromEventMap(e) == eventMap' = [eventMap EXCEPT ![Target[e]] = None]

-----------------------------------------------------------------------------
(* pollOnDrainResults.                                                     *)

PollerAt(e, here, next) == poller[e] = here /\ poller' = [poller EXCEPT ![e] = next]

PollerChecks(e) ==
  /\ \/ Draining(e) /\ PollerAt(e, "check", "poll") /\ UNCHANGED <<answered, unsent>>
     \/ ~Draining(e) /\ PollerAt(e, "check", "done") /\ Publish(e)
  /\ UNCHANGED <<drainList, eventMap, handler, timer, asked, complete, fresh>>

PollerAsks(e) ==
  /\ \/ LookUp(e, "poller") /\ PollerAt(e, "poll", "asked")
     \/ ~Draining(e) /\ PollerAt(e, "poll", "check") /\ UNCHANGED fresh
  /\ UNCHANGED <<drainList, eventMap, handler, timer, answered, unsent, asked, complete>>

PollerHears(e, drained) ==
  /\ PollerAt(e, "asked", IF drained THEN "remove" ELSE "check")
  /\ Hear(e, "poller", drained)
  /\ UNCHANGED <<drainList, eventMap, handler, timer, answered, unsent, asked>>

PollerRemoves(e) ==
  /\ PollerAt(e, "remove", "reply")
  /\ RemoveFromDrain(e)
  /\ UNCHANGED <<eventMap, handler, timer, answered, unsent, asked>>

PollerReplies(e) ==
  /\ \/ ReplyToEvent(e, TRUE) /\ PollerAt(e, "reply", "unmap")
     \/ ReplyToEvent(e, FALSE) /\ PollerAt(e, "reply", "done")
  /\ UNCHANGED <<drainList, eventMap, handler, timer, asked, complete, fresh>>

PollerForgets(e) ==
  /\ PollerAt(e, "unmap", "done")
  /\ RemoveFromEventMap(e)
  /\ UNCHANGED <<drainList, handler, timer, answered, unsent, asked, complete, fresh>>

Poll(e) ==
  \/ PollerChecks(e)
  \/ PollerAsks(e)
  \/ \E drained \in BOOLEAN : PollerHears(e, drained)
  \/ PollerRemoves(e)
  \/ PollerReplies(e)
  \/ PollerForgets(e)

-----------------------------------------------------------------------------
(* doOnDrainTimeout.  After ticker.Stop its loop waits for ever ("stopped").*)

TimerAt(e, here, next) == timer[e] = here /\ timer' = [timer EXCEPT ![e] = next]

TimerTicks(e) ==
  /\ \/ Draining(e) /\ TimerAt(e, "armed", "poll") /\ UNCHANGED <<answered, unsent>>
     \/ ~Draining(e) /\ TimerAt(e, "armed", "done") /\ Publish(e)
  /\ UNCHANGED <<drainList, eventMap, handler, poller, asked, complete, fresh>>

TimerAsks(e) ==
  /\ \/ LookUp(e, "timer") /\ TimerAt(e, "poll", "asked")
     \/ ~Draining(e) /\ TimerAt(e, "poll", "remove") /\ UNCHANGED fresh
  /\ UNCHANGED <<drainList, eventMap, handler, poller, answered, unsent, asked, complete>>

\* A plausible mistake: a drain that is not complete is not ended either.
TimerHearsOnly(e, drained) ==
  /\ TimerAt(e, "asked", "reply")
  /\ Hear(e, "timer", drained)
  /\ UNCHANGED <<drainList, eventMap, handler, poller, answered, unsent, asked>>

TimerHears(e, drained) ==
  /\ TimerAt(e, "asked", IF drained THEN "reply" ELSE "remove")
  /\ Hear(e, "timer", drained)
  /\ UNCHANGED <<drainList, eventMap, handler, poller, answered, unsent, asked>>

TimerRemoves(e) ==
  /\ TimerAt(e, "remove", "reply")
  /\ RemoveFromDrain(e)
  /\ UNCHANGED <<eventMap, handler, poller, answered, unsent, asked>>

TimerReplies(e) ==
  /\ \/ ReplyToEvent(e, TRUE) /\ TimerAt(e, "reply", "unmap")
     \/ ReplyToEvent(e, FALSE) /\ TimerAt(e, "reply", "stopped")
  /\ UNCHANGED <<drainList, eventMap, handler, poller, asked, complete, fresh>>

TimerForgets(e) ==
  /\ TimerAt(e, "unmap", "stopped")
  /\ RemoveFromEventMap(e)
  /\ UNCHANGED <<drainList, handler, poller, answered, unsent, asked, complete, fresh>>

Time(e) ==
  \/ TimerTicks(e)
  \/ TimerAsks(e)
  \/ \E drained \in BOOLEAN : TimerHears(e, drained)
  \/ TimerRemoves(e)
  \/ TimerReplies(e)
  \/ TimerForgets(e)

-----------------------------------------------------------------------------
Next == \E e \in Events : Handle(e) \/ Poll(e) \/ Time(e)

Spec == Init /\ [][Next]_vars

\* Events need not come.  A goroutine that can take a step does: each is
\* scheduled by itself, and the step it waits for (a lock, a sleep, a tick) is
\* always granted in the end.
Fairness ==
  \A e \in Events :
    /\ WF_vars(handler[e] # "new" /\ Handle(e))
    /\ WF_vars(Poll(e))
    /\ WF_vars(Time(e))

FairSpec == Spec /\ Fairness

-----------------------------------------------------------------------------
(* Properties.                                                             *)

\* The variables stay in their types, and a saved event is about the endpoint
\* it is saved under.
TypeOK ==
  /\ drainList \subseteq Endpoints
  /\ eventMap \in [Endpoints -> Events \cup {None}]
  /\ \A t \in Endpoints : eventMap[t] # None => Target[eventMap[t]] = t
  /\ handler \in [Events -> HandlerStates]
  /\ poller \in [Events -> PollerStates]
  /\ timer \in [Events -> TimerStates]
  /\ answered \subseteq Events
  /\ unsent \subseteq Events
  /\ asked \in [Endpoints -> SUBSET Events]
  /\ complete \subseteq drainList
  /\ fresh \subseteq Events \X {"poller", "timer"}
  /\ \A c \in fresh : Target[c[1]] \in drainList

\* The goroutine that handles e is about to spawn a poller, or has done so and
\* the poller has not finished.
Attends(e) == handler[e] = "spawn" \/ poller[e] \in {"check", "poll", "asked", "remove"}

\* HandleDrainEvent and pollOnDrainResults: an endpoint in the drain list has
\* a goroutine that will take it out, that of the event that put it there,
\* however many events for the endpoint, pollers and timers come and go.
NoOrphanDrain ==
  \A t \in drainList : \E e \in asked[t] : Target[e] = t /\ Attends(e)

\* pollOnDrainResults and doOnDrainTimeout together end every drain that an
\* event with a timeout that can be parsed has asked for, or have seen it
\* complete by then.
DrainEndsOrCompletes ==
  \A t \in Endpoints :
    t \in drainList /\ asked[t] \cap Parsable # {} ~> t \notin drainList \/ t \in complete

\* No other event about the endpoint of e has come.
Alone(e) == \A f \in Events \ {e} : Target[f] = Target[e] => handler[f] = "new"

\* HandleDrainEvent, pollOnDrainResults and doOnDrainTimeout: an event whose
\* timeout can be parsed is answered in the end, or the control plane refuses
\* the reply, unless another one about the same endpoint comes.
EveryEventAnswered ==
  \A e \in Parsable : handler[e] # "new" ~> e \in answered \cup unsent \/ ~Alone(e)

\* doOnDrainTimeout and pollOnDrainResults reply after the drain: an event for
\* whose sake a drain is on, and no other, is not answered while the endpoint
\* is in the drain list and sessions are left.
AnsweredAfterDrain ==
  \A t \in drainList : \A e \in asked[t] \cap answered : Alone(e) => t \in complete

\* README.md:53, "After drain completion or timeout": a drain ends because it
\* was seen complete or because the timeout of an event that asked for it has
\* passed.
EndsOnCompletionOrTimeout ==
  [][\A t \in drainList \ drainList' :
       t \in complete \/ \E e \in asked[t] : timer[e] \in {"remove", "reply", "unmap", "stopped"}]_vars
=============================================================================
