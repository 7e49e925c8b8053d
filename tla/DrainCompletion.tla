-------------------------- MODULE DrainCompletion --------------------------
(***************************************************************************)
(* Whether a drain is needed and when it is complete: AddEndpointForDrain  *)
(* and IsEndpointDrained of provider/haproxy/haproxy.go, composed with the *)
(* goroutines of DrainEvents that call them.                               *)
(*                                                                         *)
(* HAProxy is a number of processes.  The one in the PID file answers at   *)
(* the socket; a reload starts the next one, and its predecessors exit     *)
(* when their sessions are over.  AddEndpointForDrain holds runtimeMu and  *)
(* the mutex of the drain list throughout, so that no reload and no look   *)
(* into the list comes between its steps; IsEndpointDrained holds nothing  *)
(* while it asks.                                                          *)
(*                                                                         *)
(* The weights are the business of DrainRecovery.  A weight of zero does   *)
(* not keep persistent sessions away, so sessions may open at any time.    *)
(***************************************************************************)
EXTENDS DrainEvents

CONSTANTS
  Sessions,    \* sessions of HAProxy with its servers
  Serves,      \* Serves[s]: the endpoint session s is with
  MaxPid       \* bounds the processes of HAProxy

ASSUME ServesAssumption == Serves \in [Sessions -> Endpoints]
ASSUME MaxPidAssumption == MaxPid \in Nat \ {0}

VARIABLES
  pid,         \* the process in the PID file
  procs,       \* the processes that exist
  openIn,      \* openIn[s]: the process session s is open in, or 0
  entry,       \* drainMgr.drainList[t]: a process, or 0 for ""
  add,         \* the AddEndpointForDrain under way: its event and its place
  poll,        \* the IsEndpointDrained of each poller and timer
  \* history
  owed         \* open sessions the drain of their endpoint has to wait for

haproxy == <<pid, procs, openIn>>
provider == <<entry, add, poll>>
allVars == <<vars, haproxy, provider, owed>>

Pids == 1..MaxPid
Callers == Events \X {"poller", "timer"}

NoAdd == [by |-> None, at |-> "free", idle |-> FALSE]
NoPoll == [at |-> "none", listed |-> 0]

AddStates == [by : Events \cup {None}, at : {"free", "zero", "older"}, idle : BOOLEAN]
PollStates == [at : {"none", "pid", "stats", "older"}, listed : 0..MaxPid]

CompletionInit ==
  /\ Init
  /\ pid = 1
  /\ procs = {1}
  /\ openIn = [s \in Sessions |-> 0]
  /\ entry = [t \in Endpoints |-> 0]
  /\ add = NoAdd
  /\ poll = [c \in Callers |-> NoPoll]
  /\ owed = {}

Of(t) == {s \in Sessions : Serves[s] = t}
Open == {s \in Sessions : openIn[s] # 0}

\* readCurrentStats: scur of the endpoint at the socket is not "0".
Busy(t) == \E s \in Of(t) : openIn[s] = pid

\* A plausible mistake: the process in the PID file is counted as well.
AnyExists == procs # {}

\* olderPidExists: pidof names more than one process.
OlderExists == procs # {pid}

\* runtimeMu and the mutex of the drain list are free.
Unlocked == add.at = "free"

-----------------------------------------------------------------------------
(* DrainEndpoint, called by the handler of event e.                        *)

Joins(e) ==
  /\ Unlocked
  /\ JoinDrain(e)
  /\ UNCHANGED <<haproxy, provider, owed>>

\* No PID can be read, whether the endpoint is listed or not, or there are no
\* statistics of an endpoint that is not.
CannotCount(e) ==
  /\ Unlocked
  /\ RefuseDrain(e)
  /\ UNCHANGED <<haproxy, provider, owed>>

Counts(e) ==
  /\ Unlocked
  /\ handler[e] = "drain"
  /\ ~Draining(e)
  /\ add' = [by |-> e, at |-> "zero", idle |-> ~Busy(Target[e])]
  /\ owed' = (owed \ Of(Target[e])) \cup (Of(Target[e]) \cap Open)
  /\ UNCHANGED <<vars, haproxy, entry, poll>>

At(e, here) == add.by = e /\ add.at = here

Lists(e, p) ==
  /\ StartDrain(e)
  /\ entry' = [entry EXCEPT ![Target[e]] = p]
  /\ add' = NoAdd
  /\ UNCHANGED <<haproxy, poll>>

\* readServerStates or drainEndpoint fails.
CannotZero(e) ==
  /\ At(e, "zero")
  /\ RefuseDrain(e)
  /\ add' = NoAdd
  /\ UNCHANGED <<haproxy, entry, poll, owed>>

\* Sessions were counted: the drain waits for those of this process.
ListsProcess(e) ==
  /\ At(e, "zero")
  /\ ~add.idle
  /\ Lists(e, pid)
  /\ owed' = (owed \ Of(Target[e])) \cup {s \in Of(Target[e]) : openIn[s] = pid}

Zeroes(e) ==
  /\ At(e, "zero")
  /\ add.idle
  /\ add' = [by |-> e, at |-> "older", idle |-> TRUE]
  /\ UNCHANGED <<vars, haproxy, entry, poll, owed>>

\* No session was counted, but there may be some in older processes; if pidof
\* fails there are taken to be.
ListsOlder(e) ==
  /\ At(e, "older")
  /\ Lists(e, 0)
  /\ owed' = (owed \ Of(Target[e])) \cup (Of(Target[e]) \cap Open)

\* A plausible mistake: older processes are not looked for.
NotNeededUnasked(e) ==
  /\ At(e, "older")
  /\ RefuseDrain(e)
  /\ add' = NoAdd
  /\ UNCHANGED <<haproxy, entry, poll, owed>>

NotNeeded(e) ==
  /\ At(e, "older")
  /\ ~OlderExists
  /\ RefuseDrain(e)
  /\ add' = NoAdd
  /\ UNCHANGED <<haproxy, entry, poll, owed>>

Adds(e) ==
  \/ Joins(e)
  \/ CannotCount(e)
  \/ Counts(e)
  \/ CannotZero(e)
  \/ ListsProcess(e)
  \/ Zeroes(e)
  \/ ListsOlder(e)
  \/ NotNeeded(e)

-----------------------------------------------------------------------------
(* IsEndpointDrained, called by the poller or the timer of event e.        *)

Asks(e, who) ==
  /\ Unlocked
  /\ \/ who = "poller" /\ PollerAsks(e)
     \/ who = "timer" /\ TimerAsks(e)
  /\ poll' = [poll EXCEPT ![<<e, who>>] =
                IF Draining(e) THEN [at |-> "pid", listed |-> entry[Target[e]]] ELSE @]
  /\ UNCHANGED <<haproxy, entry, add, owed>>

Answers(e, who, drained) ==
  /\ \/ who = "poller" /\ PollerHears(e, drained)
     \/ who = "timer" /\ TimerHears(e, drained)
  /\ poll' = [poll EXCEPT ![<<e, who>>] = NoPoll]
  /\ UNCHANGED <<haproxy, entry, add, owed>>

PollAt(e, who, here) == poll[<<e, who>>].at = here

\* readPid, the statistics or pidof fail: not drained.
CannotTell(e, who) ==
  /\ poll[<<e, who>>].at # "none"
  /\ Answers(e, who, FALSE)

\* A plausible mistake: a process that has been replaced is taken to be gone.
AsksNoProcess(e, who) ==
  /\ PollAt(e, who, "pid")
  /\ poll[<<e, who>>].listed \notin {0, pid}
  /\ Answers(e, who, TRUE)

\* The drain began in a process that has been replaced: it is complete when
\* that process is gone.
AsksProcess(e, who) ==
  LET listed == poll[<<e, who>>].listed IN
  /\ PollAt(e, who, "pid")
  /\ listed \notin {0, pid}
  /\ Answers(e, who, listed \notin procs)

ReadsPid(e, who) ==
  /\ PollAt(e, who, "pid")
  /\ poll[<<e, who>>].listed \in {0, pid}
  /\ poll' = [poll EXCEPT ![<<e, who>>] = [at |-> "stats", listed |-> poll[<<e, who>>].listed]]
  /\ UNCHANGED <<vars, haproxy, entry, add, owed>>

\* The socket is that of the process running now, which need not be the one
\* whose PID was read.
ReadsStats(e, who) ==
  /\ PollAt(e, who, "stats")
  /\ poll[<<e, who>>].listed # 0 \/ Busy(Target[e])
  /\ Answers(e, who, ~Busy(Target[e]))

GoesOn(e, who) ==
  /\ PollAt(e, who, "stats")
  /\ poll[<<e, who>>].listed = 0
  /\ ~Busy(Target[e])
  /\ poll' = [poll EXCEPT ![<<e, who>>] = [at |-> "older", listed |-> 0]]
  /\ UNCHANGED <<vars, haproxy, entry, add, owed>>

AsksOlder(e, who) ==
  /\ PollAt(e, who, "older")
  /\ Answers(e, who, ~OlderExists)

IsEndpointDrained(e, who) ==
  \/ Asks(e, who)
  \/ CannotTell(e, who)
  \/ AsksProcess(e, who)
  \/ ReadsPid(e, who)
  \/ ReadsStats(e, who)
  \/ GoesOn(e, who)
  \/ AsksOlder(e, who)

-----------------------------------------------------------------------------
(* RemoveEndpointFromDrain, and the steps of DrainEvents that do not call  *)
(* the provider or only ask whether an endpoint is listed.                 *)

\* A plausible mistake: the entry stays.
RemovesNothing(e) ==
  /\ Unlocked
  /\ UNCHANGED <<haproxy, provider, owed>>

Removes(e) ==
  /\ Unlocked
  /\ entry' = [entry EXCEPT ![Target[e]] = 0]
  /\ owed' = owed \ Of(Target[e])
  /\ UNCHANGED <<haproxy, add, poll>>

LooksUp == Unlocked /\ UNCHANGED <<haproxy, provider, owed>>

GoesAlone == UNCHANGED <<haproxy, provider, owed>>

Handling(e) ==
  \/ CheckEvent(e) /\ LooksUp
  \/ Adds(e)
  \/ ReplyNotNeeded(e) /\ GoesAlone
  \/ SaveEvent(e) /\ GoesAlone
  \/ SaveAndSpawn(e) /\ GoesAlone

Polling(e) ==
  \/ PollerChecks(e) /\ LooksUp
  \/ IsEndpointDrained(e, "poller")
  \/ PollerRemoves(e) /\ Removes(e)
  \/ PollerReplies(e) /\ GoesAlone
  \/ PollerForgets(e) /\ GoesAlone

Timing(e) ==
  \/ TimerTicks(e) /\ LooksUp
  \/ IsEndpointDrained(e, "timer")
  \/ TimerRemoves(e) /\ Removes(e)
  \/ TimerReplies(e) /\ GoesAlone
  \/ TimerForgets(e) /\ GoesAlone

-----------------------------------------------------------------------------
(* HAProxy.                                                                *)

\* A process that is finishing may still have requests on its connections.
Opens(s) ==
  /\ openIn[s] = 0
  /\ \E p \in procs : openIn' = [openIn EXCEPT ![s] = p]
  /\ UNCHANGED <<vars, pid, procs, provider, owed>>

Closes(s) ==
  /\ openIn[s] # 0
  /\ openIn' = [openIn EXCEPT ![s] = 0]
  /\ owed' = owed \ {s}
  /\ UNCHANGED <<vars, pid, procs, provider>>

\* ApplyConfig reloads under runtimeMu.
Reload ==
  /\ Unlocked
  /\ pid < MaxPid
  /\ pid' = pid + 1
  /\ procs' = procs \cup {pid + 1}
  /\ UNCHANGED <<vars, openIn, provider, owed>>

OldExits(p) ==
  /\ p # pid
  /\ \A s \in Sessions : openIn[s] # p
  /\ procs' = procs \ {p}
  /\ UNCHANGED <<vars, pid, openIn, provider, owed>>

Haproxy ==
  \/ \E s \in Sessions : Opens(s) \/ Closes(s)
  \/ Reload
  \/ \E p \in procs : OldExits(p)

-----------------------------------------------------------------------------
CompletionNext == (\E e \in Events : Handling(e) \/ Polling(e) \/ Timing(e)) \/ Haproxy

CompletionSpec == CompletionInit /\ [][CompletionNext]_allVars

PollersOf(t) == {e \in Events : Target[e] = t}

\* The goroutines of an event go on.  Sessions end, and an older process without
\* any exits.  A question to HAProxy about an endpoint that is asked for ever by
\* pollers is answered some time.
CompletionFairness ==
  /\ \A e \in Events :
       /\ WF_allVars(handler[e] # "new" /\ Handling(e))
       /\ WF_allVars(Polling(e))
       /\ WF_allVars(Timing(e))
  /\ \A t \in Endpoints :
       /\ SF_allVars(\E e \in PollersOf(t) : AsksProcess(e, "poller") \/ ReadsPid(e, "poller"))
       /\ SF_allVars(\E e \in PollersOf(t) : ReadsStats(e, "poller") \/ GoesOn(e, "poller"))
       /\ SF_allVars(\E e \in PollersOf(t) : AsksOlder(e, "poller"))
  /\ \A s \in Sessions : WF_allVars(Closes(s))
  /\ WF_allVars(\E p \in procs : OldExits(p))

CompletionFairSpec == CompletionSpec /\ CompletionFairness

-----------------------------------------------------------------------------
(* Properties.                                                             *)

\* The state of HAProxy, of the drain list's entries and of the calls under way
\* stays in its type, and sessions are open in processes that exist.
CompletionTypeOK ==
  /\ pid \in procs
  /\ procs \subseteq 1..pid /\ pid <= MaxPid
  /\ openIn \in [Sessions -> procs \cup {0}]
  /\ entry \in [Endpoints -> 0..pid]
  /\ \A t \in Endpoints \ drainList : entry[t] = 0
  /\ add \in AddStates
  /\ ~Unlocked => add.by \in Events /\ handler[add.by] = "drain" /\ ~Draining(add.by)
  /\ poll \in [Callers -> PollStates]
  /\ \A e \in Events : PollAt(e, "poller", "none") <=> poller[e] # "asked"
  /\ \A e \in Events : PollAt(e, "timer", "none") <=> timer[e] # "asked"
  /\ owed \subseteq Open

\* IsEndpointDrained, asked by a goroutine that found the present drain of t in
\* the list, has read the PID the drain began in, and by the time it reads the
\* statistics they are those of the next process.
Overtaken(t) ==
  \E c \in fresh : Target[c[1]] = t /\ poll[c].at = "stats" /\ poll[c].listed \notin {0, pid}

\* IsEndpointDrained: a drain is not seen complete while a session is open that
\* was open in the process it began in (in any process, if it began in none)
\* when the weights had been set to zero, whatever reloads and sessions come
\* since, unless a reload comes between its reading of the PID and of the
\* statistics.
CompleteWhenServed ==
  [][\A t \in complete' \ complete : Of(t) \cap owed = {} \/ Overtaken(t)]_allVars

\* AddEndpointForDrain: an event is told that no drain is needed only if every
\* session that was open in any process when it was called is over; failures to
\* read or set weights are answered in the same way and do not come here.
NotNeededWhenServed ==
  [][\A e \in Events :
       At(e, "older") /\ handler'[e] = "reply" => Of(Target[e]) \cap owed = {}]_allVars

\* IsEndpointDrained: when no more sessions open, a drain is over or seen
\* complete in the end, however long its timeout and however many reloads it
\* has been through.
DrainCompletes ==
  <>[][\A s \in Sessions : ~Opens(s)]_allVars =>
     \A t \in Endpoints : t \in drainList ~> t \notin drainList \/ t \in complete
=============================================================================
