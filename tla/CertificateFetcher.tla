------------------------- MODULE CertificateFetcher -------------------------
(***************************************************************************)
(* The poll of the certificate directories,                                *)
(* controller/rancher/certificate_fetcher.go, for a load balancer with     *)
(* both a certificate directory and a directory of the default             *)
(* certificate.  Every subdirectory holds a certificate and its key in two *)
(* files, which whoever renews them writes one after the other, and which  *)
(* the poll reads one after the other, with no lock between the two.       *)
(***************************************************************************)
EXTENDS Naturals, FiniteSets

CONSTANTS
  CertSubdirs,    \* subdirectories of CertDir
  DefaultSubdirs, \* subdirectories of DefaultCertDir
  Issues,         \* issues of a certificate and its key
  MaxEvents,      \* bound on changes of the environment and on faults
  Missing         \* no such file, no certificate, a nil map

Subdirs == CertSubdirs \cup DefaultSubdirs
Files == {"cert", "key"}
Certificates == [name : Subdirs, pem : [Files -> Issues]]

ASSUME SubdirsAssumption == CertSubdirs \cap DefaultSubdirs = {}
ASSUME MissingAssumption ==
  Missing \notin Issues \cup Certificates \cup [name : Subdirs, cert : Issues \cup {Missing}]
ASSUME EventsAssumption == MaxEvents \in Nat

VARIABLES
  disk,         \* the two files of each subdirectory
  events,       \* number of changes and faults so far
  polling,      \* what pollCertificateDirectories is at
  forced,       \* whether its update is forced
  unread,       \* subdirectories it still has to walk
  opened,       \* the subdirectory it is reading, with the certificate read
  tempCertsMap,
  certsUpdated,
  CertsCache, DefaultCert, initPollDone,
  touched       \* history: subdirectories that changed, or could not be read,
                \* since the poll began

pollVars == <<polling, forced, unread, opened, tempCertsMap, certsUpdated, touched>>
cacheVars == <<CertsCache, DefaultCert, initPollDone>>
fetcherVars == <<disk, events, pollVars, cacheVars>>

FetcherInit ==
  /\ disk \in [Subdirs -> [Files -> Issues \cup {Missing}]]
  /\ events = 0
  /\ polling = "idle" /\ forced = FALSE /\ certsUpdated = FALSE
  /\ unread = {} /\ opened = Missing /\ tempCertsMap = {} /\ touched = {}
  /\ CertsCache = Missing /\ DefaultCert = Missing /\ initPollDone = FALSE

\* The controller starts anew with the directories as they are.
FetcherRestarts ==
  /\ polling' = "idle" /\ forced' = FALSE /\ certsUpdated' = FALSE
  /\ unread' = {} /\ opened' = Missing /\ tempCertsMap' = {} /\ touched' = {}
  /\ CertsCache' = Missing /\ DefaultCert' = Missing /\ initPollDone' = FALSE
  /\ UNCHANGED disk

-----------------------------------------------------------------------------
(* The environment.                                                        *)

\* A change outside the controller, or a fault.
Event == events < MaxEvents /\ events' = events + 1

\* One file is written, replaced or removed.
FileChanges(d, f, v) ==
  /\ Event
  /\ disk[d][f] # v
  /\ disk' = [disk EXCEPT ![d][f] = v]
  /\ touched' = IF polling \in {"certs", "default"} THEN touched \cup {d} ELSE touched
  /\ UNCHANGED <<polling, forced, unread, opened, tempCertsMap, certsUpdated, cacheVars>>

-----------------------------------------------------------------------------
(* pollCertificateDirectories.                                             *)

\* LookForCertUpdates forces an update when the last one is too long ago.
BeginPoll(force) ==
  /\ polling = "idle"
  /\ polling' = "certs"
  /\ forced' = force
  /\ unread' = CertSubdirs
  /\ UNCHANGED <<disk, events, opened, tempCertsMap, certsUpdated, touched, cacheVars>>

\* readCertificate lists subdirectory d, which it will skip if a file is missing,
\* and reads the certificate ...
OpenSubdir(d) ==
  /\ opened = Missing
  /\ d \in unread
  /\ unread' = unread \ {d}
  /\ opened' = [name |-> d,
                cert |-> IF disk[d]["key"] = Missing THEN Missing ELSE disk[d]["cert"]]
  /\ UNCHANGED <<disk, events, polling, forced, tempCertsMap, certsUpdated, touched, cacheVars>>

\* ... and then the key; an incomplete certificate is skipped.
ReadKey ==
  /\ opened # Missing
  /\ LET key == disk[opened.name]["key"] IN
     tempCertsMap' =
       IF Missing \in {opened.cert, key} THEN tempCertsMap
       ELSE tempCertsMap \cup
              {[name |-> opened.name,
                pem |-> [f \in Files |-> IF f = "cert" THEN opened.cert ELSE key]]}
  /\ opened' = Missing
  /\ UNCHANGED <<disk, events, polling, forced, unread, certsUpdated, touched, cacheVars>>

\* One of the files cannot be read, which is logged: the certificate counts as
\* incomplete.
FileUnreadable ==
  /\ Event
  /\ opened # Missing
  /\ opened' = Missing
  /\ touched' = touched \cup {opened.name}
  /\ UNCHANGED <<disk, polling, forced, unread, tempCertsMap, certsUpdated, cacheVars>>

\* On to the default certificate, with an empty tempCertsMap.
WalkDefaultDir ==
  /\ polling' = "default"
  /\ unread' = DefaultSubdirs
  /\ opened' = Missing
  /\ tempCertsMap' = {}

\* The end of a poll; LookForCertUpdates calls doOnUpdate after an update.
PollEnds(updated) ==
  /\ polling' = IF updated THEN "notify" ELSE "idle"
  /\ forced' = FALSE
  /\ unread' = {} /\ opened' = Missing /\ tempCertsMap' = {}
  /\ certsUpdated' = FALSE
  /\ touched' = {}
  /\ initPollDone' = TRUE

\* A subdirectory cannot be listed: what the walk has found is not used.
WalkFails ==
  /\ Event
  /\ \/ /\ polling = "certs"
        /\ WalkDefaultDir
        /\ UNCHANGED <<forced, certsUpdated, touched, initPollDone>>
     \/ polling = "default" /\ PollEnds(certsUpdated)
  /\ UNCHANGED <<disk, CertsCache, DefaultCert>>

WalkDone == unread = {} /\ opened = Missing

\* A plausible mistake: tempCertsMap is not cleared between the two walks.
UpdateCertsOnce ==
  /\ polling = "certs" /\ WalkDone
  /\ CertsCache' = tempCertsMap
  /\ certsUpdated' = (forced \/ CertsCache # tempCertsMap)
  /\ polling' = "default" /\ unread' = DefaultSubdirs
  /\ UNCHANGED <<disk, events, forced, opened, tempCertsMap, touched, DefaultCert, initPollDone>>

\* A cache that differs from the directory is replaced, even if only a nil map
\* by an empty one.
UpdateCerts ==
  /\ polling = "certs"
  /\ WalkDone
  /\ CertsCache' = tempCertsMap
  /\ certsUpdated' = (forced \/ CertsCache # tempCertsMap)
  /\ WalkDefaultDir
  /\ UNCHANGED <<disk, events, forced, touched, DefaultCert, initPollDone>>

\* Any one of several default certificates is taken.
UpdateDefault ==
  /\ polling = "default"
  /\ WalkDone
  /\ DefaultCert' \in IF tempCertsMap = {} THEN {Missing} ELSE tempCertsMap
  /\ PollEnds(certsUpdated \/ forced \/ DefaultCert' # DefaultCert)
  /\ UNCHANGED <<disk, events, CertsCache>>

\* doOnUpdate is called.
DoOnUpdate ==
  /\ polling = "notify"
  /\ polling' = "idle"
  /\ UNCHANGED <<disk, events, forced, unread, opened, tempCertsMap, certsUpdated, touched, cacheVars>>

\* The steps of a poll in which nothing fails, but for its beginning and the
\* call that ends it.
Poll == UpdateCerts \/ UpdateDefault \/ ReadKey \/ \E d \in Subdirs : OpenSubdir(d)

-----------------------------------------------------------------------------
(* What FetchCertificates returns, once the first poll is done.            *)

FetchedDefault == IF DefaultCert = Missing THEN {} ELSE {DefaultCert}
FetchedCerts == IF CertsCache = Missing THEN {} ELSE CertsCache

-----------------------------------------------------------------------------
(* Properties.                                                             *)

\* The variables stay in their types: an incomplete pair gets neither into the
\* map of a walk nor into a cache (readCertificate).
FetcherTypeOK ==
  /\ disk \in [Subdirs -> [Files -> Issues \cup {Missing}]]
  /\ events \in 0..MaxEvents
  /\ polling \in {"idle", "certs", "default", "notify"}
  /\ forced \in BOOLEAN /\ certsUpdated \in BOOLEAN /\ initPollDone \in BOOLEAN
  /\ unread \subseteq Subdirs /\ touched \subseteq Subdirs
  /\ opened \in [name : Subdirs, cert : Issues \cup {Missing}] \cup {Missing}
  /\ tempCertsMap \subseteq Certificates
  /\ CertsCache \in (SUBSET Certificates) \cup {Missing}
  /\ DefaultCert \in Certificates \cup {Missing}

\* The complete certificates in a set of subdirectories.
OnDisk(dirs) ==
  {[name |-> d, pem |-> disk[d]] : d \in {e \in dirs : Missing \notin {disk[e][f] : f \in Files}}}

\* pollCertificateDirectories: after a walk the cache has what is in the
\* subdirectories that did not change meanwhile and could be read, no less and
\* no more, and the default certificate is one of its own directory.
CacheFollowsDisk ==
  [][/\ UpdateCerts =>
          /\ {c \in CertsCache' : c.name \notin touched} = OnDisk(CertSubdirs \ touched)
          /\ \A c \in CertsCache' : c.name \in CertSubdirs
     /\ UpdateDefault /\ DefaultSubdirs \cap touched = {} =>
          \/ DefaultCert' \in OnDisk(DefaultSubdirs)
          \/ DefaultCert' = Missing /\ OnDisk(DefaultSubdirs) = {}]_fetcherVars
=============================================================================
