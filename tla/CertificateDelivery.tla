------------------------ MODULE CertificateDelivery ------------------------
(***************************************************************************)
(* The way of a certificate from its directory to HAProxy: the poll of     *)
(* CertificateFetcher, sync with BuildConfigFromMetadata of                *)
(* controller/rancher/rancher.go, and ApplyConfig and the reload script of *)
(* Reload, with the files they leave behind.  The three run concurrently   *)
(* with whoever renews the certificates and with changes of the metadata.  *)
(*                                                                         *)
(* The queue between a notification and sync is a flag here; TaskQueue and *)
(* ControllerSync are about the queue.                                     *)
(***************************************************************************)
EXTENDS Reload, CertificateFetcher

CONSTANT Rules   \* what the metadata may ask for

\* The text of a configuration names the default certificate.
ASSUME DeliveryAssumption ==
  /\ Names = Subdirs
  /\ Pems = [Files -> Issues]
  /\ Configs = [rules : Rules, default : DefaultSubdirs \cup {Missing}]
  /\ Inputs = [cfg : Configs, certs : SUBSET Certs]

VARIABLES
  rules,      \* what the metadata ask for
  scheduled,  \* whether the controller's key is in the queue
  sync,       \* what sync is at
  build,      \* rules and default certificate of the configuration being built,
              \* or Missing
  masked      \* history: a command of the reload failed, HAProxy was not started
              \* since, and it would accept the files that are there

reloadVars == <<pc, desired, files, loaded, result, sound>>
syncVars == <<rules, scheduled, sync, build, masked>>
deliveryVars == <<reloadVars, fetcherVars, syncVars>>

DeliveryInit ==
  /\ Init
  /\ FetcherInit
  /\ rules \in Rules
  /\ scheduled = TRUE
  /\ sync = "idle"
  /\ build = Missing
  /\ masked = FALSE

-----------------------------------------------------------------------------
(* The environment.                                                        *)

MetadataChange(r) ==
  /\ Event
  /\ rules # r
  /\ rules' = r
  /\ scheduled' = TRUE
  /\ UNCHANGED <<reloadVars, disk, pollVars, cacheVars, sync, build, masked>>

DiskChange ==
  /\ \E d \in Subdirs, f \in Files, v \in Issues \cup {Missing} : FileChanges(d, f, v)
  /\ UNCHANGED <<reloadVars, syncVars>>

-----------------------------------------------------------------------------
(* The fetcher.                                                            *)

\* ScheduleApplyConfig.
Notify ==
  /\ DoOnUpdate
  /\ scheduled' = TRUE
  /\ UNCHANGED <<reloadVars, rules, sync, build, masked>>

\* A plausible mistake: sync holds the lock of the caches while it waits for the
\* first poll.
PollStepLocked ==
  \/ /\ polling \in {"certs", "default"} /\ WalkDone => sync # "default"
     /\ (Poll \/ BeginPoll(FALSE)) /\ UNCHANGED <<reloadVars, syncVars>>
  \/ Notify

PollStep ==
  \/ (Poll \/ BeginPoll(FALSE)) /\ UNCHANGED <<reloadVars, syncVars>>
  \/ Notify

ForcedPoll == BeginPoll(TRUE) /\ UNCHANGED <<reloadVars, syncVars>>

PollFault == (FileUnreadable \/ WalkFails) /\ UNCHANGED <<reloadVars, syncVars>>

-----------------------------------------------------------------------------
(* sync: read the metadata, fetch the default certificate and then the     *)
(* others, apply, and try again after a failure.                           *)

BeginSync ==
  /\ sync = "idle"
  /\ scheduled
  /\ scheduled' = FALSE
  /\ sync' = "default"
  /\ build' = [rules |-> rules, default |-> Missing]
  /\ UNCHANGED <<reloadVars, fetcherVars, rules, masked>>

\* A plausible mistake: the first poll is not waited for.
FetchDefaultEarly ==
  /\ sync = "default"
  /\ build' = [build EXCEPT !.default = DefaultCert]
  /\ sync' = "certs"
  /\ UNCHANGED <<reloadVars, fetcherVars, rules, scheduled, masked>>

FetchDefault ==
  /\ sync = "default"
  /\ initPollDone
  /\ build' = [build EXCEPT !.default = DefaultCert]
  /\ sync' = "certs"
  /\ UNCHANGED <<reloadVars, fetcherVars, rules, scheduled, masked>>

\* BuildConfigFromMetadata.
Built ==
  [cfg |-> [rules |-> build.rules,
            default |-> IF build.default = Missing THEN Missing ELSE build.default.name],
   certs |-> FetchedCerts \cup IF build.default = Missing THEN {} ELSE {build.default}]

\* FetchCertificates for the other certificates, and the call of ApplyConfig.
FetchAndApply ==
  /\ sync = "certs"
  /\ ApplyConfig(Built)
  /\ sync' = "apply"
  /\ build' = Missing
  /\ UNCHANGED <<fetcherVars, rules, scheduled, masked>>

\* A plausible mistake: what was scheduled while sync ran counts as done.
FinishSyncClearing ==
  /\ sync = "apply"
  /\ pc = "idle"
  /\ sync' = "idle"
  /\ scheduled' = (result = "error")
  /\ UNCHANGED <<reloadVars, fetcherVars, rules, build, masked>>

\* ApplyConfig has returned; after an error requeue schedules a retry.
FinishSync ==
  /\ sync = "apply"
  /\ pc = "idle"
  /\ sync' = "idle"
  /\ scheduled' = (scheduled \/ result = "error")
  /\ UNCHANGED <<reloadVars, fetcherVars, rules, build, masked>>

\* A command of ApplyConfig, of the script or of the start that succeeds.
Command ==
  /\ \/ desired # Absent /\ \E x \in desired.certs : WriteCert(x)
     \/ WriteConfig \/ Script \/ StartHaproxy
  /\ masked' = (masked /\ ~Launch)
  /\ UNCHANGED <<fetcherVars, rules, scheduled, sync, build>>

\* haproxy -c finds an error in the text or a key that is not the certificate's.
Refusal ==
  /\ pc = "check"
  /\ Stored \notin Accepted
  /\ Fail
  /\ UNCHANGED <<files, fetcherVars, syncVars>>

SyncStep == BeginSync \/ FetchDefault \/ FetchAndApply \/ FinishSync \/ Command \/ Refusal

-----------------------------------------------------------------------------
(* Faults.                                                                 *)

CommandFails ==
  /\ Event
  /\ Fail
  /\ masked' = (Stored' \in Accepted /\ Stored' # loaded)
  /\ UNCHANGED <<disk, pollVars, cacheVars, rules, scheduled, sync, build>>

\* The container is restarted; the watcher of the metadata calls back again.
ContainerRestarts ==
  /\ Event
  /\ Restart
  /\ FetcherRestarts
  /\ scheduled' = TRUE
  /\ sync' = "idle"
  /\ build' = Missing
  /\ masked' = FALSE
  /\ UNCHANGED rules

-----------------------------------------------------------------------------
DeliveryNext ==
  \/ DiskChange
  \/ \E r \in Rules : MetadataChange(r)
  \/ PollStep \/ ForcedPoll \/ PollFault
  \/ SyncStep
  \/ CommandFails \/ ContainerRestarts

DeliverySpec == DeliveryInit /\ [][DeliveryNext]_deliveryVars

\* The polling goroutine and the worker go on.  As long as nothing is found
\* changed, the time of a forced update comes again and again.
DeliveryFairness ==
  /\ WF_deliveryVars(PollStep)
  /\ SF_deliveryVars(ForcedPoll)
  /\ WF_deliveryVars(SyncStep)

FairDeliverySpec == DeliverySpec /\ DeliveryFairness

-----------------------------------------------------------------------------
(* Properties.                                                             *)

\* sync keeps to its types, and builds no configuration before the first poll of
\* the directories is done.
SyncTypeOK ==
  /\ rules \in Rules
  /\ scheduled \in BOOLEAN /\ masked \in BOOLEAN
  /\ sync \in {"idle", "default", "certs", "apply"}
  /\ build \in [rules : Rules, default : Certificates \cup {Missing}] \cup {Missing}
  /\ sync \in {"certs", "apply"} => initPollDone

\* LookForCertUpdates and sync: the variables stay in their types.
DeliveryTypeOK == FetcherTypeOK /\ SyncTypeOK

\* The configuration that the metadata and the caches ask for.
Present ==
  [cfg |-> [rules |-> rules,
            default |-> IF DefaultCert = Missing THEN Missing ELSE DefaultCert.name],
   certs |-> FetchedCerts \cup FetchedDefault]

\* A change that sync is going to be called for.
Outstanding == certsUpdated \/ polling = "notify" \/ scheduled

\* updateCertCache, ScheduleApplyConfig, sync and requeue together: a change of
\* the metadata, or of a cache, that is found while sync builds and applies is
\* not lost, whatever fails.  When nothing is outstanding HAProxy has the files
\* that metadata and caches ask for, and runs with them if it accepts them and
\* no failure was masked.
NothingLostOnTheWay ==
  sync = "idle" /\ ~Outstanding =>
    /\ curCfg = Present.cfg /\ Present.certs \subseteq curCerts
    /\ Stored \in Accepted => loaded = Stored \/ masked

\* The configurations for the present metadata and files.
Wanted ==
  {[cfg |-> [rules |-> rules,
             default |-> IF default = {} THEN Missing ELSE (CHOOSE c \in default : TRUE).name],
    certs |-> OnDisk(CertSubdirs) \cup default] :
     default \in IF OnDisk(DefaultSubdirs) = {} THEN {{}}
                 ELSE {{c} : c \in OnDisk(DefaultSubdirs)}}

\* LookForCertUpdates, sync, applyHaproxyConfig and haproxy_reload together: in
\* whatever order the files of a certificate are renewed, polled and applied,
\* and whatever failed meanwhile, in the end HAProxy runs with the certificates
\* that are in the directories, provided that it accepts them and that no
\* failure was masked.
RenewalArrives ==
  <>[](Wanted \subseteq Accepted => Stored \in Wanted /\ (loaded = Stored \/ masked))
=============================================================================
