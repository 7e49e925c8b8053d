--------------------------- MODULE ControllerSync ---------------------------
(***************************************************************************)
(* The reconciliation loop of the controller: Run, ScheduleApplyConfig,    *)
(* sync, requeue and Stop of controller/rancher/rancher.go, over the task  *)
(* queue they use and the two watchers that call ScheduleApplyConfig:      *)
(* OnChange of internal/metadata/client.go and LookForCertUpdates of       *)
(* controller/rancher/certificate_fetcher.go with a certificate directory. *)
(*                                                                         *)
(* The metadata and the directory are abstracted to version numbers, 0     *)
(* being "nothing yet".  A configuration is the pair of the versions it    *)
(* was built from; the metadata are read in several requests, of which the *)
(* first counts, as the later ones can only see newer versions.            *)
(***************************************************************************)
EXTENDS TaskQueue

CONSTANTS
  Key,           \* the controller's name, the only key it queues
  Retriers,      \* goroutines running requeue
  MaxVersion,    \* bound on the versions of metadata and directory
  MaxFailures    \* bound on the reconciliations that fail

Watchers == {"metadata", "certs"}

ASSUME KeyAssumption == Keys = {Key}
ASSUME CallersAssumption == Callers = Watchers \cup Retriers /\ Watchers \cap Retriers = {}
ASSUME BoundsAssumption == MaxVersion \in Nat \ {0} /\ MaxFailures \in Nat

VARIABLES
  metadata,   \* version the metadata service has
  dir,        \* version in the certificate directory
  seen,       \* version OnChange compares with, 0 for "init"
  cache,      \* version in CertsCache
  polled,     \* initPollDone
  notifying,  \* watchers that are about to call ScheduleApplyConfig
  step,       \* where sync is: "metadata", "certs" or "apply"
  read,       \* versions the configuration under construction is built from
  applied,    \* versions of the configuration last applied
  shutdown,   \* lbc.shutdown
  backoff,    \* lbc.incrementalBackoff, in intervals
  retry,      \* where a goroutine running requeue is
  delay,      \* the backoff it has read, or the time it sleeps
  failures    \* number of failed reconciliations

watchVars == <<metadata, dir, seen, cache, polled, notifying>>
syncVars == <<step, read, applied, shutdown>>
retryVars == <<backoff, retry, delay, failures>>
vars == <<queueVars, watchVars, syncVars, retryVars>>

RetryStates == {"none", "spawned", "adding", "added", "asleep", "waking"}

Nothing == [metadata |-> 0, certs |-> 0]

Init ==
  /\ QueueInit
  /\ metadata = 1 /\ dir = 1
  /\ seen = 0 /\ cache = 0 /\ polled = FALSE
  /\ notifying = {}
  /\ step = "metadata" /\ read = Nothing /\ applied = Nothing
  /\ shutdown = FALSE
  /\ backoff = 0 /\ failures = 0
  /\ retry = [r \in Retriers |-> "none"]
  /\ delay = [r \in Retriers |-> 0]

\* Enqueue of the controller's key by goroutine c, ignored or not.
Schedule(c) ==
  \/ Enqueue(c, Key)
  \/ Ignored(Key) /\ UNCHANGED queueVars

-----------------------------------------------------------------------------
(* The environment.                                                        *)

MetadataChange ==
  /\ metadata < MaxVersion
  /\ metadata' = metadata + 1
  /\ UNCHANGED <<queueVars, dir, seen, cache, polled, notifying, syncVars, retryVars>>

DirChange ==
  /\ dir < MaxVersion
  /\ dir' = dir + 1
  /\ UNCHANGED <<queueVars, metadata, seen, cache, polled, notifying, syncVars, retryVars>>

-----------------------------------------------------------------------------
(* The watchers.                                                           *)

Watching(w) == w \notin notifying /\ caller[w] = "idle"

\* waitVersion returns; OnChangeWithError calls back if the version is new.
VersionArrives ==
  /\ Watching("metadata")
  /\ metadata # seen
  /\ seen' = metadata
  /\ notifying' = notifying \cup {"metadata"}
  /\ UNCHANGED <<queueVars, metadata, dir, cache, polled, syncVars, retryVars>>

\* waitVersion fails; OnChange starts again from "init".
VersionFails ==
  /\ Watching("metadata")
  /\ seen' = 0
  /\ UNCHANGED <<queueVars, metadata, dir, cache, polled, notifying, syncVars, retryVars>>

\* A plausible mistake: only a forced update is reported.
PollCertsSilently(force) ==
  /\ Watching("certs")
  /\ polled' = TRUE
  /\ cache' = dir
  /\ notifying' = IF force THEN notifying \cup {"certs"} ELSE notifying
  /\ UNCHANGED <<queueVars, metadata, dir, seen, syncVars, retryVars>>

\* pollCertificateDirectories reads the directory; it updates the cache and
\* calls back if the two differ or an update is forced.
PollCerts(force) ==
  /\ Watching("certs")
  /\ polled' = TRUE
  /\ cache' = dir
  /\ notifying' = IF force \/ dir # cache THEN notifying \cup {"certs"} ELSE notifying
  /\ UNCHANGED <<queueVars, metadata, dir, seen, syncVars, retryVars>>

\* pollCertificateDirectories fails to read the directory, which counts as a
\* poll all the same.
PollCertsFails ==
  /\ Watching("certs")
  /\ polled' = TRUE
  /\ UNCHANGED <<queueVars, metadata, dir, seen, cache, notifying, syncVars, retryVars>>

\* ScheduleApplyConfig.
Notify(w) ==
  /\ w \in notifying
  /\ Schedule(w)
  /\ notifying' = notifying \ {w}
  /\ UNCHANGED <<metadata, dir, seen, cache, polled, syncVars, retryVars>>

-----------------------------------------------------------------------------
(* sync, the function the worker of the queue calls.                       *)

Syncing(s) == worker = "sync" /\ step = s

SkipSync ==
  /\ Syncing("metadata")
  /\ shutdown
  /\ SyncReturns
  /\ UNCHANGED <<watchVars, syncVars, retryVars>>

ReadMetadata ==
  /\ Syncing("metadata")
  /\ ~shutdown
  /\ read' = [read EXCEPT !.metadata = metadata]
  /\ step' = "certs"
  /\ UNCHANGED <<queueVars, watchVars, applied, shutdown, retryVars>>

\* A plausible mistake: the certificates are taken before the first poll.
ReadCertsEarly ==
  /\ Syncing("certs")
  /\ read' = [read EXCEPT !.certs = cache]
  /\ step' = "apply"
  /\ UNCHANGED <<queueVars, watchVars, applied, shutdown, retryVars>>

\* FetchCertificates waits for the first poll.
ReadCerts ==
  /\ Syncing("certs")
  /\ polled
  /\ read' = [read EXCEPT !.certs = cache]
  /\ step' = "apply"
  /\ UNCHANGED <<queueVars, watchVars, applied, shutdown, retryVars>>

ApplySucceeds ==
  /\ Syncing("apply")
  /\ applied' = read
  /\ step' = "metadata"
  /\ backoff' = 0
  /\ SyncReturns
  /\ UNCHANGED <<watchVars, read, shutdown, retry, delay, failures>>

\* A plausible mistake: a failure is logged and left at that.
SyncFailsSilently(r) ==
  /\ worker = "sync"
  /\ step # "metadata" \/ ~shutdown
  /\ failures < MaxFailures
  /\ retry[r] = "none" /\ caller[r] = "idle"
  /\ step' = "metadata"
  /\ failures' = failures + 1
  /\ SyncReturns
  /\ UNCHANGED <<watchVars, read, applied, shutdown, backoff, retry, delay>>

\* GetLBConfigs fails at any of its requests, or ApplyConfig fails; sync spawns
\* the goroutine r, which retries.
SyncFails(r) ==
  /\ worker = "sync"
  /\ step # "metadata" \/ ~shutdown
  /\ failures < MaxFailures
  /\ retry[r] = "none" /\ caller[r] = "idle"
  /\ retry' = [retry EXCEPT ![r] = "spawned"]
  /\ step' = "metadata"
  /\ failures' = failures + 1
  /\ SyncReturns
  /\ UNCHANGED <<watchVars, read, applied, shutdown, backoff, delay>>

-----------------------------------------------------------------------------
(* requeue.  incrementalBackoff is shared with sync without a lock: it is  *)
(* read, written and read again in steps of their own.                     *)

RetryAt(r, here, next) == retry[r] = here /\ retry' = [retry EXCEPT ![r] = next]

ReadBackoff(r) ==
  /\ RetryAt(r, "spawned", "adding")
  /\ delay' = [delay EXCEPT ![r] = backoff]
  /\ UNCHANGED <<queueVars, watchVars, syncVars, backoff, failures>>

AddInterval(r) ==
  /\ RetryAt(r, "adding", "added")
  /\ backoff' = delay[r] + 1
  /\ UNCHANGED <<queueVars, watchVars, syncVars, delay, failures>>

Sleep(r) ==
  /\ RetryAt(r, "added", "asleep")
  /\ delay' = [delay EXCEPT ![r] = backoff]
  /\ UNCHANGED <<queueVars, watchVars, syncVars, backoff, failures>>

Retry(r) ==
  /\ RetryAt(r, "asleep", "none")
  /\ Schedule(r)
  /\ delay' = [delay EXCEPT ![r] = 0]
  /\ UNCHANGED <<watchVars, syncVars, backoff, failures>>

Requeue(r) == ReadBackoff(r) \/ AddInterval(r) \/ Sleep(r) \/ Retry(r)

-----------------------------------------------------------------------------
(* Stop, which closes stopCh and then sets shutdown.                       *)

Stop ==
  \/ CloseStop /\ UNCHANGED <<watchVars, syncVars, retryVars>>
  \/ /\ stopCh
     /\ ~shutdown
     /\ shutdown' = TRUE
     /\ UNCHANGED <<queueVars, watchVars, step, read, applied, retryVars>>

-----------------------------------------------------------------------------
Environment == MetadataChange \/ DirChange

Watch(w) ==
  \/ w = "metadata" /\ VersionArrives
  \/ w = "certs" /\ PollCerts(FALSE)
  \/ Notify(w)

\* The steps of the queue itself.
QueueStep ==
  /\ Pop \/ PopNothing \/ Woken \/ StopRun \/ \E c \in Callers : Wake(c)
  /\ UNCHANGED <<watchVars, syncVars, retryVars>>

Sync ==
  \/ SkipSync \/ ReadMetadata \/ ReadCerts \/ ApplySucceeds
  \/ \E r \in Retriers : SyncFails(r)

Next ==
  \/ Environment
  \/ VersionFails \/ PollCertsFails \/ PollCerts(TRUE)
  \/ \E w \in Watchers : Watch(w)
  \/ QueueStep
  \/ Sync
  \/ \E r \in Retriers : Requeue(r)
  \/ Stop

Spec == Init /\ [][Next]_vars

WorkerTurn == Sync \/ ((Pop \/ PopNothing \/ Woken \/ StopRun) /\ UNCHANGED <<watchVars, syncVars, retryVars>>)
WakeTurn(c) == Wake(c) /\ UNCHANGED <<watchVars, syncVars, retryVars>>

\* Every goroutine that can run does.  A poll, and the wait for a version, that
\* can succeed does in the end, however often it fails before.  Forced updates
\* come with no fairness: nothing is to depend on them.
Fairness ==
  /\ WF_vars(WorkerTurn)
  /\ \A c \in Callers : WF_vars(WakeTurn(c))
  /\ \A w \in Watchers : SF_vars(Watch(w))
  /\ \A r \in Retriers : WF_vars(Requeue(r))

FairSpec == Spec /\ Fairness

-----------------------------------------------------------------------------
(* Properties.                                                             *)

\* The variables stay in their types, and sync passes FetchCertificates only
\* after the first poll.
TypeOK ==
  /\ QueueTypeOK
  /\ metadata \in Nat /\ dir \in Nat
  /\ seen \in Nat /\ cache \in Nat /\ polled \in BOOLEAN
  /\ notifying \subseteq Watchers
  /\ step \in {"metadata", "certs", "apply"}
  /\ step # "metadata" => worker = "sync"
  /\ step = "apply" => polled
  /\ read \in [metadata : Nat, certs : Nat]
  /\ applied \in [metadata : Nat, certs : Nat]
  /\ shutdown \in BOOLEAN
  /\ backoff \in Nat /\ failures \in Nat
  /\ retry \in [Retriers -> RetryStates]
  /\ delay \in [Retriers -> Nat]

\* Someone is going to have the controller reconcile again.
Scheduled ==
  \/ notifying # {}
  \/ Key \in pending
  \/ \E r \in Retriers : retry[r] # "none"

MetadataPending ==
  \/ seen # metadata
  \/ worker = "sync" /\ (step = "metadata" \/ read.metadata = metadata)

CertsPending ==
  \/ cache # dir
  \/ worker = "sync" /\ (step \in {"metadata", "certs"} \/ read.certs = dir)

\* sync, requeue and the watchers: as long as the controller is not stopped, a
\* change that is not applied yet is still to be noticed by its watcher, is
\* scheduled, or is in the configuration being built.
NothingForgotten ==
  ~stopCh =>
    /\ applied.metadata # metadata => MetadataPending \/ Scheduled
    /\ applied.certs # dir => CertsPending \/ Scheduled

\* When changes and failures end, the last versions are applied and stay.
Converges ==
  <>[](stopCh \/ applied = [metadata |-> metadata, certs |-> dir])
=============================================================================
