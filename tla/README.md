# A formal model of load-balancer-controller

TLA+ modules, TLC runs and TLAPS proofs about the load-balancer controller of this
repository: the Go program that turns port rules of the metadata service into an
HAProxy configuration, reloads HAProxy, and drains targets when the control plane
asks for it. Paths and line numbers are those of the repository; `PROJECT.json` maps
every definition that models code to the lines it stands for.

1. [The system](#1-the-system)
2. [Modules](#2-modules)
3. [Runs: what is checked, within which bounds](#3-runs)
4. [Fairness](#4-fairness)
5. [Proofs](#5-proofs)
6. [Where code and documentation disagree](#6-where-code-and-documentation-disagree)
7. [What is not modelled, and what the models leave out](#7-what-is-not-modelled)
8. [Plan](#8-plan)

To run a check: `tlc -config MCDrainRecovery.cfg MCDrainRecovery`; to check a proof:
`tlapm DrainRecoveryProofs.tla`.

## 1. The system

One process, one HAProxy, many goroutines.

| component | state | operations | made hard by |
|---|---|---|---|
| drain weight recovery (`provider/haproxy/drain_recovery.go`, parts of `haproxy.go`) | `drainMgr`: drain list, saved weights per server, desired servers; `recoveryBlocked`; outside: the weights of the running HAProxy | drain an endpoint, end a drain, publish a new desired configuration, reconcile every five seconds | an operator and health checks change servers between any two socket commands; commands whose answer is lost; reloads that replace the process; restarts |
| apply and reload (`haproxy.go`, `scripts/haproxy_reload`) | `haproxy_new.cfg`, `certs/new`, `haproxy.cfg`, `certs/current`, the running HAProxy | `ApplyConfig`, the reload script, `StartHaproxy` | any command may fail, the container may restart between two commands, the files stay |
| drain completion (`haproxy.go:229-305`, `375-416`) | the PID each drained endpoint is listed with; outside: HAProxy's processes and their sessions | is a drain needed, is it complete | sessions open and end, processes come and go between any two questions |
| drain event handler (`controller/rancher/rancher_events_handler.go`) | the event map; per event a handler, a poller and a timer goroutine | handle `target.drain`, poll, time out, answer | goroutines of several events work on one endpoint; answers get lost |
| task queue (`utils/utils.go`) | items, pending set, wake channel, stop | enqueue, pop, run, shut down | wakeups against the decision to sleep; duplicates against a running reconciliation |
| controller synchronisation (`controller/rancher/rancher.go`) | shutdown flag, backoff, the queue | `ScheduleApplyConfig`, `sync`, `requeue`, `Stop` | watchers, retries and the worker interleave; the backoff is unlocked |
| metadata client and watcher (`internal/metadata/client.go`) | last version seen | wait for a version, call back; look up services | failed requests |
| certificate fetcher (`certificate_fetcher.go`) | certificate cache, default certificate, "first poll done" | poll two directories, call back, hand out certificates | files renewed one by one and read one by one; a cache replaced while a configuration is built from it; unreadable files |
| configuration from metadata (`rancher.go`, `metadata_util.go`, `config/config.go`) | none (a function of the metadata) | build, merge, sort | the order of rules decides where a request goes |
| selectors (`selector_util.go`) | none | match labels | parsing of operators |
| event router (`internal/events`) | the current websocket, per connection a ping and a pong goroutine, a pool of 250 workers | subscribe, read, ping, time out, hand out work | dead peers, reconnection while goroutines of the last connection still run, full pool |
| HAProxy text (`haproxy_config_util.go`, template) | none | read custom configuration, join it with the defaults, render | lines from four origins, of which a later one may undo an earlier one |
| locks, external handler registration, log server, health endpoint, main, generated API client, build and packaging | see section 7 | | |

How they interact. The metadata watcher and the certificate poller call
`ScheduleApplyConfig`, which enqueues the controller's one key. The worker of the
queue calls `sync`: it builds a configuration from metadata and certificates and
calls `ApplyConfig` of the provider; on an error a goroutine sleeps for the backoff
and enqueues again. `ApplyConfig` writes files, publishes the desired servers to the
drain manager, runs the reload script, and reconciles drains. Independently the
event router receives `target.drain` events and gives each to a worker, which drains
the endpoint through the provider and leaves a poller and a timer behind that end
the drain and answer. The provider's ticker reconciles drains. `Provider.runtimeMu`
serialises `ApplyConfig`, draining and reconciling; nothing serialises the operator
at HAProxy's socket.

What has to be right, per component:

* drain recovery - a zero the controller wrote is never forgotten; a zero from before a
  drain, the unexplained zero of a replaced process and an operator's setting that
  has been read are left alone (one that has not been read may be overwritten,
  section 6); a weight that is given back is one the latest configuration allows; an
  ended drain is recovered in the end;
* apply and reload - a success means that HAProxy runs the configuration; HAProxy is
  never started without its certificates;
* certificates - whatever is renewed while it is polled or applied, HAProxy ends up
  with what is in the directories;
* drain completion - no drain is taken for complete, or for unnecessary, while a
  session it has to wait for is open;
* drain events - no endpoint stays drained with nobody to end it; a drain ends
  because it is complete or has timed out; every event is answered, and not before
  its drain is over;
* queue and synchronisation - no change is lost, a key asked for during its own
  reconciliation is reconciled again, no key starves, the last version is applied;
* routing - the rules are tried in the documented order, merged rules lose no
  target, a backend has the servers of exactly the services that are asked for, and
  requests go to servers of rules they match;
* custom configuration - what the user writes ends up where it belongs and no default
  undoes a value the user gives; a stopping container gets nothing whatever the user writes;
* event router - a dead peer is noticed, a live connection is not closed, no worker
  is lost.

`PROJECT.json` lists under `hazards` the places where these can go wrong and which
property watches each.

## 2. Modules

| module | models | uses |
|---|---|---|
| `WeightCustody` | *abstract*: what draining promises about weights | |
| `DrainRecovery` | drain weights, reconciliation, HAProxy processes | implements `WeightCustody` (`Custody`) |
| `DrainEvents` | handler, poller and timer of drain events | |
| `DrainCompletion` | `DrainEndpoint`, `IsEndpointDrained`, `RemoveEndpointFromDrain` call by call; sessions in several processes | extends `DrainEvents`: composes the two |
| `Reload` | files, reload script, container restarts | |
| `CertificateFetcher` | the poll of the certificate directories | |
| `CertificateDelivery` | `sync` between the poll and `ApplyConfig` | extends `Reload` and `CertificateFetcher`: composes the three |
| `CoalescingQueue` | *abstract*: what a coalescing queue promises | |
| `TaskQueue` | `utils.TaskQueue` | implements `CoalescingQueue` (`Abstract`) |
| `ControllerSync` | `Run`, `sync`, `requeue`, `Stop`, the two watchers | extends `TaskQueue`: composes the two |
| `EventRouter` | subscription, pings, pongs, worker pool | |
| `Selectors` | `IsSelectorMatch`, as operators on tokens | |
| `RoutingRules` | `processSelector`, `BuildConfigFromMetadata`, `Less`, the frontends' rules | extends `Selectors` |
| `CustomConfig` | `BuildCustomConfig`, the sections of the written configuration | extends `RoutingRules`: its next step |
| `*Proofs` | theorems | extend the component and `TLAPS` |
| `SequenceLemmas` | lemmas about folds, `FlattenSeq` and links, for any sequences | used by `RoutingRulesProofs` |
| `MC*` | instances for TLC | extend the component |

`ControllerSyncProofs` has the proofs about `TaskQueue`, too, `DrainCompletionProofs` those
about `DrainEvents`, `CertificateDeliveryProofs` those about `Reload` and
`CertificateFetcher`; `CustomConfigProofs` extends `RoutingRulesProofs`. `MCReload` and `MCDrainEvents` are only used by runs that
exhibit a disagreement; the passing runs check `Reload` and `DrainEvents` within the
compositions.

Operators called "fault" or "plausible mistake" in a module's comments are not used by its
specification. Each is a wrong version of the definition that follows it and is used
to see that a property notices the mistake.

### DrainRecovery

`pid`, `alive`, `srv`, `file` are HAProxy: the process in the PID file, its servers
(`show servers state`), and `haproxy.cfg`. `drainList`, `weights`, `desired`,
`recoveryBlocked` are the fields of `drainMgr` and `Provider`. `holder` says which
operation is running under `runtimeMu`; `snap` is what it has read from HAProxy and
still has to deal with, `cmd` the command it has sent but not read back. Every
socket command is a step of its own (`Issue`), and so is its readback
(`VerifySucceeds`, `VerifyFails`), so that the operator, health checks and the
resolver act in between. A command that fails may have been carried out all the
same. `reconcileDrains` is one action per branch (`FollowActiveDrain`,
`RecoverEndedDrain`). `writer` and `claimed` are history: who wrote the present
weight, and which servers this process was sent a zero for, with no operator's setting read of
them since.

`WeightCustody` knows neither operations nor records bound to processes, only which
weights have been taken into custody (`custody`), for which endpoints that may be done
(`draining`), which zeros are the controller's (`zeros`), and what has been read and may
be acted on though it is out of date (`found`). A record of `weights` is custody of a
weight; `drainList` and the endpoint that `DrainEndpoint` is at are being drained
(`Draining`); `snap` is what was found; `Asked` is what the configuration passed last
wants. Commands, retries and the following of reloads become steps that change
nothing, or the same step again.

### DrainEvents

Each event has a `handler`, a `poller` and a `timer` with the place each is at;
`drainList` and `eventMap` are shared. Steps end where the code takes or releases a
lock or makes a call. `asked[t]` is history: the events for whose sake the present
drain of `t` is on; `complete` the endpoints `IsEndpointDrained` has said to be
drained. `answered` and `unsent` record what became of the reply.

### DrainCompletion

`procs` are the processes of HAProxy, `pid` the one in the PID file, which answers at
the socket; `openIn[s]` is the process session `s` is open in. `AddEndpointForDrain`
is split at every call that leaves the program (`Counts`, `Zeroes`, `Lists`,
`NotNeeded`), and holds `runtimeMu` throughout; `IsEndpointDrained` is split in the
same way (`ReadsPid`, `ReadsStats`, `AsksOlder`) and holds nothing. `entry[t]` is the
PID the endpoint is listed with. `owed` is history: the sessions, still open, that
the present drain has to wait for.

### Reload

A configuration is a text and a set of certificates; either may change without the
other. `pc` is the next command of the controller or the script. `FailureEffect` is what a
command that fails, or is cut off by a restart, leaves in the files. `sound` is
history: whether at the call nothing was left over and `haproxy.cfg` was not already
this configuration without being loaded.

### CertificateFetcher and CertificateDelivery

`disk` has two files per subdirectory. The poll lists a subdirectory and reads its
certificate in one step (`OpenSubdir`) and its key in another (`ReadKey`), while files
are written, replaced and removed (`FileChanges`). `tempCertsMap`, `CertsCache`,
`DefaultCert` and `initPollDone` are the fetcher's fields; `touched` is history: the
subdirectories that changed during the poll or could not be read. `sync` fetches the
default certificate and the others in two steps and then calls `ApplyConfig`; the
queue between the notification and `sync` is the flag `scheduled`. `masked` is
history: a reload has failed after the files were replaced, and HAProxy has not been
started since.

### TaskQueue, CoalescingQueue, ControllerSync

A critical section of the queue's mutex is a step; the send to `wake` that comes
after it is another. `CoalescingQueue` has a set of wanted keys and a running one;
the refinement forgets the order, the wakeups and the callers. In `ControllerSync`,
metadata and certificates are version numbers; a configuration is the pair it was
built from. `requeue` is split at every access to the unlocked backoff.

### EventRouter

`stream` numbers the connections; `peer` is the other end. `pinger` and `timer` are
the two goroutines of a connection. `ping[n]` follows one ping through an interval:
due, sent, answered, handled. `quiet[n]` is the time since the last pong in
intervals. `Ping` writes to the connection that is current when the ticker fires,
which need not be the one the goroutine was started for. Time enters through
`IntervalOver`: a peer that is up and goroutines of this end are quicker than the
five seconds between two checks.

### Selectors, RoutingRules and CustomConfig

`IsSelectorMatch` is a fold over the tokens of a selector, character classes and case
being left out; it is the code's reading of selectors, of which `Asks` is the
reference for those that are lists of equations.

The rules are processed one per step. `processSelector` replaces a rule with a
selector by rules for the services it finds in this or another environment; then `SkipRule`, `MergeRule`
and `AddRule` build the backends of each port, from services, load balancer services,
containers, external services and aliases; then the backends are sorted with the
insertion sort that Go uses for up to twelve elements, comparing with `Less` as it is
written. `Chosen` says which backend HAProxy takes for a request according to the
rendered ACLs and `use_backend` lines.

`CustomConfig` goes on where the backends are sorted. `customConfigMap` and
`defaultConfig` are the variables of `BuildCustomConfig`; its first loop is one step
per line (`SkipBlank`, `OpenSection`, `ReadServerLine`, `ReadDirective`), and
`AppendDefaults` appends what is left of the defaults. The loop over the frontends
changes nothing that is read again but the name of the cookie, and is given by
operators: `FrontendText`, `BackendText`, `ServerText`, `Extra` and `DefaultsText` are
the sections of the written file, and `EffectiveWeight` is the weight HAProxy makes
of a server line.

## 3. Runs

| run | configuration | bounds | shows |
|---|---|---|---|
| `drain_recovery` | `MCDrainRecovery.cfg` | one server, weights 0-2, six configurations, two processes | `TypeOK`, `ZeroIsOwned`, `RestoresOnlyOwnZero`, `RestoreHonoursLatestConfig` |
| `drain_recovery_ends` | `MCDrainLive.cfg` | one server, weights 0-2, running and stopping, three processes | `RecoveryEnds`, `CustodyIsKept` (refinement) |
| `drain_events` | `MCDrainCompletion.cfg` | two events for one endpoint, one with a timeout that cannot be parsed, one session, two processes | `TypeOK`, `CompletionTypeOK`, `NoOrphanDrain`, `AnsweredAfterDrain`, `CompleteWhenServed`, `NotNeededWhenServed`, `DrainEndsOrCompletes`, `EveryEventAnswered`, `DrainCompletes` |
| `controller_sync` | `MCControllerSync.cfg` | two versions each, one failure, one key and one retrying caller | `TypeOK`, `NoLostWakeup`, `Coalesces` (refinement with fairness), `NothingForgotten`, `Converges` |
| `reload_files` | `MCCertificateDelivery.cfg` | one certificate and one default certificate, two issues, two kinds of rules, two events | `TypeOK`, `DeliveryTypeOK`, `SoundSuccess`, `LaunchesComplete`, `NothingLostOnTheWay`, `CacheFollowsDisk`, `RenewalArrives` |
| `event_router` | `MCEventRouter.cfg` | two connections, two events, one worker | `TypeOK`, `TimerClosesItsOwn`, `HealthyConnectionIsKept`, `DeadPeerIsNoticed` |
| `routing_rules` | `MCRoutingRules.cfg` | sequences of up to four rules out of sets of eight to nineteen; up to five custom lines | `TypeOK`, `InDocumentedOrder`, `MergedTargetsComplete`, `TargetsAsAsked`, `RoutedByMatchingRule`, `CustomLinesWritten`, `DefaultsYield`, `WeightsAsRuled` |

Five more runs exhibit a disagreement each (section 6).

Why the bounds are enough to be interesting:

* **DrainRecovery.** `reconcileDrains` treats servers independently of each other;
  what couples them is the order of commands, which the environment's steps stand in
  for. Two processes are what a reload across a drain needs, and two weights besides
  zero tell a configured weight from an edited one and from an operator's. `MaxPid`
  bounds the number of HAProxy processes; when it is reached, no reload or restart
  of HAProxy succeeds any more. The proofs of section 5 have none of these bounds
  for the safety properties. The temporal check multiplies the states, so the run for
  `RecoveryEnds` and `CustodyIsKept` has two configurations, a running service and
  a stopping one, and an operator who sets one weight, different from the configured
  one. It has three processes: a drain begun in the first, a stopping reload and a
  running reload, after which a weight may be the one to give back. Edits of the
  configuration are in the other run, and in the theorem.
* **DrainEvents, DrainCompletion.** A second event for the endpoint is what makes
  goroutines meet; each may come or not, at any time. The timeout of one cannot be
  parsed, so that there is a drain without a timer as well as one with it. Two
  processes (`MaxPid`) are enough for a drain that begins before a reload and ends
  after it, and for one that begins while an older process is around; the proofs
  have no such bound. One session may open and close any number of times.
* **ControllerSync and its queue.** The program has one key and, besides the watchers,
  one caller that retries; a request meets every step of the worker, that for a key
  which is being reconciled included. Several keys behind each other, several
  retrying goroutines, and `Shutdown`, which the program never calls, are left to the
  proofs. A second version that may come during any step of building the
  first; `MaxVersion` and `MaxFailures` bound changes and failures. The one
  goroutine that retries is used again after it ended.
* **CertificateDelivery.** A renewal of a certificate takes two writes, which is
  what `MaxEvents` allows; instead of them a file may be unreadable, a command fail,
  the container restart, or the metadata change, two of these in all. Polls, forced
  polls, reconciliations and refusals are not bounded. One certificate besides the
  default one is enough, as the code treats each on its own; a key fits a
  certificate of the same issue only, and one kind of rules is refused by HAProxy.
* **EventRouter.** A full pool needs one worker and two events; a goroutine that
  outlives its connection needs a second connection. `MaxConns` bounds the
  connections.
* **RoutingRules.** Every class of the documented order has a member, some have
  several, there is a path below another, a default, priorities, a host
  name that becomes another's backend name, and services that are inactive,
  stopping, remote, external, aliases or single containers, on ports of four
  protocols. Up to four of the rules that sorting is about (`MaxOrdered`), up to
  three of those that merging is about (`MaxRules`), up to two of those with
  selectors and other ports (`MaxSelected`).
* **CustomConfig.** Up to two of sixteen lines (`MaxLines`) put every kind of line
  into every kind of section: merged, written or not, of the user's own, and none.
  A section that is opened again after another line takes five lines
  (`MaxRepeated`), here of four kinds. Three sets of rules give it backends with and
  without health checks, on ports with and without stickiness, one that is not
  supported, a host name to resolve, stopping containers, and weights that are
  usual, zero and out of bounds. The run that exhibits a disagreement has but the
  lines of `FlagInputs`.

Notes on the properties.

* `ZeroIsOwned` is the core of weight recovery: for a zero written by the controller
  there is an ownership record, bound to the running process, with a weight to go
  back to. `RestoresOnlyOwnZero` and `RestoreHonoursLatestConfig` are its
  counterparts for the step that raises a weight.
* `RestoresOnlyOwnZero` is about what `reconcileDrains` goes by: the reading at its
  beginning, and the zero it has sent before. It does not say that the weight which is
  overwritten was the controller's: between the reading and the command an operator may
  have set another, and his zero after the controller's looks the same. That is
  `OverridesArePreserved`, which the code does not keep (section 6).
* `RestoreHonoursLatestConfig` refers to the configuration last *passed* to
  `ApplyConfig`, applied or not; it is what `recoveryBlocked` is for.
* `CustodyIsKept` says of a weight's whole way what the other properties of
  `DrainRecovery` say of single steps: what is given back was found by the drain that
  took it, however many processes, configurations, failed commands and further drains
  came in between. A further drain of a server in custody does not take its weight
  again, though README.md:51-52 may be read so (section 6).
* `DrainEndsOrCompletes` has a second alternative because the code needs it: a
  timeout that finds the drain complete leaves the endpoint in the list to the
  poller, which may not see it complete again. Without it TLC shows a drain that
  goes on past its timeout for ever.
* `EveryEventAnswered` and `AnsweredAfterDrain` are about events that are alone with
  their endpoint. An event that joins a drain may be forgotten, or answered by the
  goroutines of the other event. `EveryEventAnswered` is moreover about events with a
  timeout that can be parsed; for the others there is `DrainCompletes`.
* `CompleteWhenServed` has an exception (`Overtaken`) because the code needs it:
  `IsEndpointDrained` reads the PID and then the statistics without a lock, and a
  reload in between makes it take the new process for the old one.
* `NotNeededWhenServed` is about drains that are not needed. When the sessions cannot
  be counted or the weights not be set, the event is answered in the same way.
* `SoundSuccess` says under which circumstances a success of `ApplyConfig` means
  what one would think; section 6 shows what happens otherwise.
* `DeliveryTypeOK` is the type invariant of `CertificateFetcher` (`FetcherTypeOK`) and
  of `sync`'s variables.
* `NothingLostOnTheWay` is the part of `RenewalArrives` that is no matter of fairness,
  and covers what it leaves out: the metadata. A change is found, announced, read and
  applied in steps that others interleave with and that may fail; if nothing is
  announced any more, HAProxy has it. The exception is the masked failure of section 6.
* `RenewalArrives` says what has to be the case from some time on, for events are
  bounded and so come to an end: HAProxy runs with what is in the directories, if it
  accepts that, or a failure has been masked (section 6). It holds whatever was left
  over by failed attempts, since a forced certificate update comes again and again
  and repairs it.
* `CacheFollowsDisk` is about the subdirectories that did not change during the walk;
  what is read of the others may be a pair that never was in the directory. A later
  poll reads them again.
* `TargetsAsAsked` leaves out selectors that are not lists of equations, which the
  code reads in ways nobody asked for (section 6), and rules whose region could not
  be read, which are dropped. A rule that selects services of this environment by a
  region is an input of the run: the build then fails (`Failed`), nothing is sorted
  or written, and the property says that this happens for such rules only. `MergedTargetsComplete` allows an alias to list a
  service twice that it leads to in two ways.
* `DefaultsYield` says nothing of a default that the user writes without a value: the
  code writes it once more, against its own comment (`defaults_written_twice`).
* `RoutedByMatchingRule` assumes that rules are not ambiguous: no two rules that
  differ only in the wildcard of the host (they are merged under the first one's
  comparator), no two backends of one name (the servers of the first are
  written, the ACLs of both are), and no wildcard in an SNI rule, which the template
  matches literally.
* `InDocumentedOrder` is not obvious: `Less` answers that a rule with host and path
  is less than any other, itself included, and is therefore no order at all.
* Deadlock is checked for `DrainRecovery`, `Reload` and `CertificateDelivery`, which
  never stop. The other
  systems may: when all events are dealt with, after `Stop`, when all rules are
  read.

## 4. Fairness

* `DrainRecovery`: an operation that holds the lock goes on (WF of the controller's
  steps while it is held); Go's mutexes do not starve a waiter, so that the ticker
  gets the lock again and again (SF of `BeginReconcile`); a socket command retried
  every five seconds gets through some time (SF of a `Restore` that reaches HAProxy
  and of its readback). Nothing is assumed of operators, drains or configurations;
  `RecoveryEnds` is about behaviours in which they leave the server alone from some
  time on (`Calm`).
* `DrainCompletion`: WF per goroutine that has started, since sleeps and ticks end.
  No event need come. A question to HAProxy that is repeated every few seconds gets
  an answer some time: SF per endpoint of its pollers' three questions. WF of the end
  of each session and of the exit of a process without any, which is what HAProxy
  does after `-sf`. `DrainCompletes` moreover is about behaviours in which no more
  sessions open from some time on; the other liveness properties are not.
* `TaskQueue`, `ControllerSync`: WF of the worker, of each caller past its critical
  section, and of each retry; SF of each watcher, whose polls fail and are repeated.
  Forced certificate updates have none, so that convergence does not rest on their
  repetition.
* `EventRouter`: WF of the subscriber's and the connection's goroutines. `StopTimer`
  is a rendezvous with a `select` that a ticker interrupts; Go chooses at random
  between ready cases, hence SF. None for peers, connections and handlers.
* `CertificateDelivery`: WF of the polling goroutine (`PollStep`) and of the worker
  (`SyncStep`). `LookForCertUpdates` forces an update when none was found for a
  while; as long as nothing is found to have changed, that time comes, hence SF of
  `ForcedPoll`. None for the environment and for failures.
* `RoutingRules` and `CustomConfig` have no liveness properties: they end when all rules and lines are dealt with.

## 5. Proofs

Proved by TLAPS for every value of the constants that satisfies the named
assumptions of the modules (weights are naturals, `None` is no value of another
kind, the certificates of a configuration are certificates, and so on). Besides
these nothing is assumed.

| module | theorem | property |
|---|---|---|
| `DrainRecoveryProofs` | `TypeCorrect` | `TypeOK` |
| | `ZeroStaysOwned` | `ZeroIsOwned` |
| | `OnlyOwnZerosAreRestored` | `RestoresOnlyOwnZero` |
| | `LatestConfigIsHonoured` | `RestoreHonoursLatestConfig` |
| | `WeightsAreKeptInCustody` | `CustodyIsKept`: `DrainRecovery` implements `WeightCustody` |
| `DrainCompletionProofs` | `EventTypes` | `TypeOK`, of `DrainEvents` |
| | `NoDrainIsOrphaned` | `NoOrphanDrain` |
| | `AnswersWait` | `AnsweredAfterDrain` |
| | `CompletionTypes` | `CompletionTypeOK` |
| | `ServedWhenComplete` | `CompleteWhenServed` |
| | `ServedWhenNotNeeded` | `NotNeededWhenServed` |
| | `CompletionServesEvents` | `DrainCompletion` implements `DrainEvents` |
| | `NoDrainIsOrphanedByProvider` | `NoOrphanDrain`, in the composition |
| | `AnswersWaitForProvider` | `AnsweredAfterDrain`, in the composition |
| `CertificateDeliveryProofs` | `ReloadTypeCorrect` | `TypeOK` |
| | `SuccessIsSound` | `SoundSuccess` |
| | `LaunchesAreComplete` | `LaunchesComplete` |
| | `DeliveryTypeCorrect` | `DeliveryTypeOK` |
| | `CachesFollowDisk` | `CacheFollowsDisk` |
| | `ChangesAreDelivered` | `NothingLostOnTheWay` |
| | `DeliveryIsReload` | the composition implements `Reload` |
| | `DeliverySuccessIsSound` | `SoundSuccess`, in the composition |
| | `DeliveryLaunchesAreComplete` | `LaunchesComplete`, in the composition |
| `ControllerSyncProofs` | `QueueTypeCorrect` | `QueueTypeOK` |
| | `WakeupsAreKept` | `NoLostWakeup` |
| | `QueueCoalesces` | the safety part of `Coalesces` |
| | `ControllerTypeCorrect` | `TypeOK` |
| | `ChangesAreNotForgotten` | `NothingForgotten` |
| | `ControllerUsesQueue` | `ControllerSync` implements `TaskQueue` (safety) |
| | `ControllerCoalesces` | the safety part of `Coalesces`, in the controller |
| | `ControllerKeepsWakeups` | `NoLostWakeup`, in the controller |
| `EventRouterProofs` | `RouterTypeCorrect` | `TypeOK` |
| | `TimersStayHome` | `TimerClosesItsOwn` |
| | `HealthyConnectionsLive` | `HealthyConnectionIsKept` |
| `RoutingRulesProofs` | `TypesHold` | `TypeOK` |
| | `BackendsInDocumentedOrder` | `InDocumentedOrder` |
| | `TargetsComplete` | `MergedTargetsComplete` |
| | `RequestsRouted` | `RoutedByMatchingRule` |
| | `TargetsAsRulesAsk` | `TargetsAsAsked` |
| `CustomConfigProofs` | `CustomConfigKeepsBackends` | `CustomConfig` implements `RoutingRules` |
| | `UserLinesWritten` | `CustomLinesWritten` |
| | `DefaultsYielding` | `DefaultsYield` |
| | `WeightsRuled` | `WeightsAsRuled` |

Each proof strengthens its property to an inductive invariant and shows that every
action keeps it, one lemma or step per action.

* **Drain recovery.** `ZeroIsOwned` is about HAProxy as it is; the code acts on what
  it read some time ago. `IInv` adds what a running operation may rely on
  (`OperationInv`), and that a zero of the controller which a pending snapshot entry
  does not show was not there when it was read and has not come since
  (`PendingInv`): only the lock holder writes such zeros. A record is therefore
  dropped (`ForgetStep`) only if the server shows no zero of this process, or has
  been forfeited. `OInv` adds where the binding of a record to the running process
  comes from (`OriginInv`: the process was sent a zero and no operator's setting was
  read since, or it was started with one for a stopping target; or such a setting has
  just been read and the record is about to be dropped, `OverrideSeen`) and that a recovery which is not blocked works with the
  configuration passed last (`ConfigInv`). Only one branch raises a weight
  (`RaisedByRestore`), and what it has read decides between the cases of the two
  action properties. For the custody of weights `CInv` adds that a drain has only read
  servers of the endpoint it drains (`LookedAt`). Every step then is a step of
  `WeightCustody` or none: `PendingInv` is what makes dropping a record a `LetGo`, which
  must not leave a zero behind, and `ConfigInv` what makes a restored weight the one
  that is due by the configuration passed last.
* **Drain events.** `NoOrphanDrain` asks for *one* attending event; if it leaves,
  another has to be there. `AllAttend` says that every event on whose behalf the
  drain is on attends it. `AInv` adds what each goroutine knows about the drain it
  attends, for `AnsweredAfterDrain`.
* **Drain completion.** Every step is one of `DrainEvents` or leaves it alone
  (`EventSteps`). `OwedInEntry`: if a drain is listed with a process, the sessions it
  waits for are in that process, so that the end of the process is theirs.
  `CountedIdle` and `FreshPolls` carry the answers of earlier questions to the last
  one: since the count, no session that is waited for is in the running process.
* **Apply, reload and certificates.** `RInv`: the certificates of the call are in
  `certs/new` and then in `certs/current` (`CertsOnTheWay`), and while `sound` holds
  there are no others (`SoundSoFar`). `FInv`: what has been read of a subdirectory
  that was not touched is what is there (`AsOnDisk`), and comes from the directory
  that is walked (`InTheWalk`); at the end of a walk that is `CacheFollowsDisk`. It
  also makes what `sync` builds an input of `ApplyConfig` (`BuiltIsInput`), by which
  every step of the composition is one of `Reload` or leaves it alone. For
  `NothingLostOnTheWay` there are three more parts, since `sync` reads rules, default
  certificate and certificates at different times: what it has read so far is up to date
  or something is outstanding (`UpToDate`); a success of `ApplyConfig` means that its
  files are in place (`Answered`); and while the script has not touched the files, they
  are loaded, unless HAProxy refuses them or a failure was masked
  (`LoadedUnlessMasked`).
* **Task queue.** `NoLostWakeup` with `QueueTypeOK` is inductive; the refinement
  maps every step to a step of `CoalescingQueue` or to none.
* **Controller.** Every step is a step of the queue or leaves it alone
  (`QueueSteps`), so the queue's invariant is reused. `Rebuilt` says that a
  configuration under construction that is out of date is going to be built again;
  without it `ApplySucceeds` could end on an old version with nothing scheduled.
  `NothingAhead` and `StopOnly` rule out watchers ahead of their source and a queue
  stopped without `Stop`.
* **Event router.** `HealthyConnectionIsKept` needs that a pong timer never waits
  longer on a connection whose peer is up than a ping takes: `HealthIsWatched`
  relates `quiet`, `ping` and the pinging goroutine.
* **Routing rules.** `IInv`: no two backends of a port are for one path (in `Typed`),
  and each backend is what the rules that have been taken for its path make of it
  (`Merges`, of which `MergedTargetsComplete` is the end). `MergedTargetsComplete` by
  itself is not inductive, as it says nothing before the last rule; nor would it say
  that a backend has the comparator of one of its rules, or that every rule that was
  taken has a backend, which `RoutedByMatchingRule` needs: with `Unambiguous`, a backend
  matches a request just when the rules it is made of do (`MatchesLikeItsRules`), and
  the backend that is written under its name is itself (`FoundByName`). Sorting keeps
  the set of backends, hence `Merges`; that it also puts them in order is a fact about
  insertion: to the left of the place where `b` stops is an element it is not less
  than, to the right are only elements it is less than, and `Less` is wrong only
  between rules of the same class. `TargetsAsAsked` has a second invariant,
  `ReadRules`: the rules so far are exactly those that the metadata's rules that have
  been read, and could be, become.
* **Custom configuration.** `TextInv`: the lines under a key are those the user has
  given for it so far (`GivenUntil`), server lines are under server keys only, and
  the default that is left under a key is the one whose name none of the user's lines
  with a value has. What is written is then a matter of the order of
  concatenation. `WeightsAsRuled` combines it with `IInv`, which says of which rule
  and which container a server comes.

A component that is composed with another keeps what was proved about it:
`DrainCompletion`, `CertificateDelivery`, `ControllerSync` and `CustomConfig` are
each shown to implement the specification they build on, by which its theorems
hold of the composition without a proof of their own.

The operators of `RoutingRules` and `CustomConfig` are folds and recursive functions over
sequences of any length. What they compute is proved by induction on a *set* of
numbers, which needs no operator as a parameter: a set of naturals that has 0 and
with every number the next one has all of them (`NatsBySteps`). From it
`SequenceLemmas` derives that a fold is the last of a sequence of intermediate results
(`FoldIsRun`), of which one may prove each from the one before; what `FlattenSeq`
consists of, position by position (`FlattenElements`, by `Places`); and recursion along
links without a circle (`RecursionAlongLinks`), which `EndpointsOf` is.
`RoutingRulesProofs` has the facts about `Sort`, `AddEndpoints` and the reading of
selectors that rest on these, among them that for a list of equations of any length
`IsSelectorMatch` is `Asks`.

`CertificateDelivery` assumes that HAProxy accepts no configuration without
`haproxy.cfg` (`AcceptedAssumption`), `DrainRecovery` that `None` is none of the values
it stands beside. What `RoutingRules` and `CustomConfig` assume of their inputs, as
named assumptions:
source ports are different, and their numbers are not 0 (`PortsAssumption`); a rule
has all its fields, a weight that is an integer, and names a service of the metadata
unless it has a selector; a rule without a host has no wildcard (`InputsAssumption`);
labels are pairs, no service has the name that stands for none, links lead to services of the metadata, and form no circle
(`ServicesAssumption`); the default lines of a section have different names, as they
are keys of a Go map (`DefaultConfigAssumption`); a section the user opens has no name
that ends in `_$IP`, which the code would take for the server lines of another section
(`CustomAssumption`); an absent name is none of the keywords (`NoneAssumption`).
The theorem about the order is about insertion sort of any number of backends;
`sort.Sort` is insertion sort up to twelve elements, and for more of them nothing is
claimed.

Only model-checked: the liveness properties (`RecoveryEnds`, `DrainEndsOrCompletes`,
`EveryEventAnswered`, `DrainCompletes`, `Converges`, `RenewalArrives`,
`DeadPeerIsNoticed`, the fairness part of `Coalesces`), which TLAPS cannot prove as
they need ENABLED. Every invariant and every action property that a passing run
checks is also a theorem.

## 6. Where code and documentation disagree

| run | property | what TLC shows |
|---|---|---|
| `retry_overrides_operator` | `ReappliesOnlyInitialWeight` | README.md:71-73 promises that an active drain is never reapplied to a custom weight seen in the replacement process. A reapplication whose command fails leaves `retry` set and the record bound to the new process (`drain_recovery.go:239-241`); if an operator then sets a weight, the next reconciliation no longer compares it with the initial weight and overwrites it. |
| `restore_overrides_operator` | `OverridesArePreserved` | README.md:57-59 promises that later overrides in the same process are preserved. `reconcileDrains` reads all servers once (`drain_recovery.go:189`) and sends its commands by that reading (301); a weight an operator sets in between is overwritten by the restored one, and the record is then dropped. |
| `drain_ended_early` | `EndsOnCompletionOrTimeout` | README.md:53 speaks of drain completion or timeout. A timer recognises its drain by the endpoint's name only; one left by an earlier event ends a later drain before its time. |
| `reload_failure_masked` | `SuccessMeansLoaded` | A failed `ApplyConfig` is retried until it is applied (`rancher.go:830`). The reload script overwrites the files it compares with before HAProxy has accepted them, so the retry finds nothing changed and reports success while HAProxy still runs the old configuration. |
| `defaults_written_twice` | `PresentDefaultsExcluded` | The comment at `haproxy_config_util.go:128` says that defaults are excluded if they are present in the custom configuration. Line 131 compares the custom line with a default and a space, or with the section's name; a default without a value, as `daemon`, is not excluded and follows the user's own. |

TLC also reaches behaviours that no document clearly rules out and that a maintainer may
want to know of: a further drain of a server that still has a record, which does not
record the weight it replaces, as README.md:51-52 may be read, but keeps the one of the
earlier drain (`drain_recovery.go:160-166`); a retry of a failed reconciliation that is
queued at once because a reconciliation reset the shared backoff meanwhile; an ownership record dropped as
"overridden" for a server that was under maintenance when its endpoint was drained,
whose zero was never written; an event that joins a drain just as its poller ends
and is never answered.

The models also contain, and the properties make exceptions for:

* *Drains.* `IsEndpointDrained` reads the PID and then the statistics without
  `runtimeMu`, so that a reload in between makes it judge by the new process. A
  comment speaks of checking "if any old pid exists" (`haproxy.go:250-252`), whereas
  the code looks only at the listed one (`haproxy.go:258-272`), which is enough. A
  failure to read the sessions or to set the weights is answered like a drain that
  is not needed.
* *Certificates.* A file that cannot be read takes its certificate out of the
  configuration until the next poll. With several default certificates each poll
  may take another one (`certificate_fetcher.go:265`), and HAProxy is reloaded each
  time. A certificate written by an attempt that failed is loaded along with later
  configurations until something else changes or an update is forced.
* *Selectors.* The operators `in`, `notin` and `!=` are never recognised
  (`selector_util.go:180-209`). Rules that come from a selector lose their priority.
  A rule whose region cannot be looked up is dropped with a warning
  (`rancher.go:543-546`), and nothing tries again.
* *Regions.* A selector rule that names a region but no environment selects among the
  services of this environment (`rancher.go:489-496`), but names each of them
  `region//stack/service` (`rancher.go:498-508`); that name is looked up in an
  environment without a name, which fails, and with it the whole build
  (`rancher.go:329-332`), whatever else has changed. One that names an environment that
  does not exist selects nothing, without an error (`client.go:316`).
* *Custom configuration.* The comment at `haproxy_config_util.go:128` speaks of
  excluding defaults that are present in the custom configuration; those without a
  value (`daemon`, `option redispatch`) are not excluded (`defaults_written_twice`).
  To have them twice does no harm; but `no option redispatch`, which is no line of
  that name, is undone by the default that follows it. Lines under `GLOBAL`, `DEFAULTS` or `BACKEND` are recognised and then
  dropped (line 253), as are those of a frontend for udp. Options from a second
  server line of a backend, and all that is added to a server, end up on a line
  of their own that HAProxy refuses. A weight above 256 is left out, which makes
  it 1. Cookies of all backends have the name of the first one if the policy
  gives none.
* *Merging.* A second rule for a path does not add an endpoint whose address is
  there already, even with another target port (`rancher.go:383`). An alias lists
  the endpoints of linked services that are inactive, and those of a service twice
  to which it leads in two ways.
* *SNI.* Host names are matched exactly even if the rule has a wildcard
  (`haproxy_template.cfg:31-33`).

Seen while reading, and not in any run: a selector whose last character has several
bytes loses its last constraint; a certificate directory that does not exist counts
as an empty one, as the error of the walk comes with no file information and is
swallowed (`certificate_fetcher.go:284`); a default certificate and another of the
same directory name overwrite each other's PEM file; a certificate that the control
plane does not find is written as `.pem`, which `rm -f certs/new/*` never removes;
events that come while all 250 workers are busy are dropped (`worker.go:49`); the
goroutine that pings a connection that was closed goes on with the next one if that
is made within five seconds, which sends more pings than intended and does no other
harm; `Subscribe` is retried without a pause (`rancher.go:201`); `Stop` answers
"shutdown already in progress" even when it was not, so that the program always
exits with 1 (`rancher.go:267`).

## 7. What is not modelled

Components: certificates from the control
plane (`FetchRancherCertificate`), one request per certificate, whose failure ends
the build like any other; `UpdateEndpoints`, which nothing calls; `internal/locks`
(the subscriber's pool has no locker, so that the program never takes them);
`external_handler.go` (only called from `EventRouter.Start`, which the program does
not use); the log-level server, log safety, health endpoint, flag parsing; build,
packaging and vendored code.

The generated client of the control plane's API, `internal/rancherclient`, is about
23,700 of the repository's 28,300 lines of implementation: types and HTTP calls
without control of their own. The program uses it to publish answers and to read
certificates; publishing is the step of `DrainEvents` that may be lost.

Abstractions, by module:

* `DrainRecovery`: HAProxy is its servers' weights, initial weights, admin state
  (none, RMAINT only, anything an operator sets) and health. The number of sessions,
  the text of the socket protocol and the names are left out. Several lines for one
  server in a configuration are not distinguished. Process numbers do not repeat,
  whereas PIDs may. The order in which Go walks a map is arbitrary and so is that of
  the model. The PID in the drain list matters to `IsEndpointDrained` only and is
  left out.
* `DrainEvents`: whether a drain is needed and whether it is complete are free
  choices, which `DrainCompletion` makes. Timeouts that do not parse are a constant;
  those that are zero or negative, which make the controller exit, are left out.
* `DrainCompletion`: a session belongs to an endpoint; weights, and whether HAProxy
  would still give an endpoint sessions, are left out, so that sessions may open
  whatever the weight. The answer of a question is that of the moment it is asked.
* `Reload`: an error of `reconcileDrains` after a successful reload (`haproxy.go:201`)
  is not a failure of `ApplyConfig` here or in `ControllerSync`: it only makes
  the reconciliation come again; its effect on the drains is in `DrainRecovery`. Contents are names, or torn by a copy that was cut
  short. What `haproxy
  -c` says of a torn file is arbitrary. Processes that outlive `-sf` are left out.
* `CertificateFetcher`: both directories are given, and exist; subdirectories have
  different names and hold nothing but the two files; a subdirectory is listed and
  its certificate read in one step. The contents of a file are an issue number,
  read as it was at one moment.
* `CertificateDelivery`: the queue is a flag (see `ControllerSync` for the queue and
  the backoff); the configuration consists of the kind of rules, which stands for
  everything from the metadata, and the name of the default certificate. The order in
  which the certificates are written is arbitrary.
* `ControllerSync`: metadata are read in several requests; the first one counts, as
  the later ones can only see newer versions. The certificates are one version of one
  directory.
* `EventRouter`: time in intervals; pings and checks have the same one, as in
  `DefaultPingConfig`. Unparsable messages and the ping *event* have no effect on
  the state that is modelled.
* `RoutingRules`: the name of a service is the service, but for one the lookup cannot
  find (`NameFor`), which is `None`; services that rules name are those of the
  metadata. The rules of one source port have one protocol; SNI rules have no
  paths; paths are sequences of segments, host names with a wildcard are longer than
  two characters, as the code has it; the backend name is a function of port, host and
  path given as a constant. Links between aliases form no circle, in which
  `getServiceEndpoints` would not end. The order of the servers
  is left out. An error of the metadata service ends the whole build and is
  `SyncFails` in `ControllerSync`, but for that of another environment. Where the
  rules themselves make the build fail (`Failed`), it fails at every retry;
  `ControllerSync`, which bounds failures, does not have these.
* `CustomConfig`: lines are records, so that the splitting of text is left out, and a
  line has the name of one default at most, as no default's name of several words
  begins another; left out are
  the parameters of health checks (`option httpchk` included) and of cookies, and the
  order of the sections the user adds. Names of sections are compared as they are.

## 8. Plan

In the order of importance; the first nine steps are done.

1. `DrainRecovery` with its proofs: the runtime state that is hardest to test.
2. `DrainEvents`, `TaskQueue`/`CoalescingQueue`, `ControllerSync` with proofs: the
   interleavings.
3. `Reload`: crashes and partial failures.
4. `EventRouter` with proofs, `RoutingRules`.
5. `DrainCompletion` with proofs, composed with `DrainEvents`: sessions on several
   HAProxy processes.
6. `RoutingRules` extended by several ports, alias and external services;
   `Selectors` compared with a reference over bounded inputs.
7. `CertificateFetcher` and `CertificateDelivery` with proofs: renewal of certificates
   from the file to HAProxy.
8. `CustomConfig`: from the rules to the written file.
9. `WeightCustody`: the abstract specification that `DrainRecovery` implements, and
   `NothingLostOnTheWay` with its proof.
10. Certificates of the control plane, with those that are not found.

Theorems still worth proving: the steps of `DrainRecovery` and `DrainCompletion` as one
system.
New questions about a component are added to its run where the bounds allow it, so
that the whole suite stays quick enough to be run with every change.
