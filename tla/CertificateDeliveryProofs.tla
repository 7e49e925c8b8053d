---------------------- MODULE CertificateDeliveryProofs ----------------------
(***************************************************************************)
(* Proofs about the way of a configuration and its certificates to         *)
(* HAProxy.                                                                *)
(*                                                                         *)
(* About Reload: its type invariant, and that a reload that succeeds under *)
(* the conditions recorded by sound has HAProxy run the configuration it   *)
(* was called for, with exactly its certificates.                          *)
(*                                                                         *)
(* About CertificateFetcher: the caches follow the directories.            *)
(*                                                                         *)
(* About CertificateDelivery: every behaviour of the composition is one of *)
(* Reload, so that what is proved about Reload holds there, too.           *)
(***************************************************************************)
EXTENDS CertificateDelivery, TLAPS

-----------------------------------------------------------------------------
(* Reload.                                                                 *)

\* Steps of ApplyConfig before haproxy.cfg is the new configuration.
Preparing == {"certs", "compare", "clean", "clear", "copycerts", "cleantemp", "copyconfig"}

\* There is a configuration to apply, and from the comparison on it is in
\* haproxy_new.cfg.
Called ==
  /\ pc = "start" => desired = Absent
  /\ pc \in Preparing => desired # Absent
  /\ pc \in Preparing \ {"certs"} => newCfg = desired.cfg

\* The certificates it needs are in certs/new until they have been copied, and
\* then in certs/current.
CertsOnTheWay ==
  /\ pc \in {"compare", "clean", "clear", "copycerts"} => desired.certs \subseteq newCerts
  /\ pc = "clean" => curCfg = newCfg /\ curCerts = newCerts
  /\ pc = "copycerts" => curCerts = {}
  /\ pc \in {"cleantemp", "copyconfig", "check", "launch"} /\ desired # Absent =>
       desired.certs \subseteq curCerts

\* If nothing was left over at the call there are no others on the way; and
\* while nothing has been copied, the files are others than those of the
\* configuration, or the ones HAProxy runs with.
SoundSoFar ==
  sound =>
    /\ desired # Absent
    /\ pc = "certs" => newCerts \subseteq desired.certs
    /\ pc \in {"compare", "clean", "clear", "copycerts"} => newCerts = desired.certs
    /\ pc \in {"cleantemp", "copyconfig", "check", "launch"} => curCerts = desired.certs
    /\ pc \in {"certs", "compare", "clean"} => Stored # desired \/ loaded = Stored

RInv == TypeOK /\ Called /\ CertsOnTheWay /\ SoundSoFar /\ SoundSuccess

\* The image has no files, and nothing has succeeded yet.
LEMMA InitReload == Init => RInv
<1> SUFFICES ASSUME Init
             PROVE  RInv
    OBVIOUS
<1>1. loaded \in [cfg : Contents, certs : SUBSET PemFiles]
      BY DEF Init, Down, Contents
<1>2. TypeOK
      BY <1>1 DEF Init, TypeOK, Contents
<1>3. Called /\ CertsOnTheWay /\ SoundSoFar /\ SoundSuccess
      BY DEF Init, Called, Preparing, CertsOnTheWay, SoundSoFar, SoundSuccess, Succeeded
<1> QED
    BY <1>2, <1>3 DEF RInv

\* A failing command, and the end of a container, write the files they would
\* have written and no others.
LEMMA FailuresKeepTypes ==
  ASSUME TypeOK, Called, FailureEffect
  PROVE  /\ newCfg' \in Contents /\ curCfg' \in Contents
         /\ newCerts' \subseteq PemFiles /\ curCerts' \subseteq PemFiles
<1>1. ASSUME NEW x \in PemFiles
      PROVE  [x EXCEPT !.pem = Torn] \in PemFiles
      BY DEF PemFiles
<1>2. CASE /\ pc = "certs"
           /\ \E x \in desired.certs : newCerts' = Over(newCerts, [x EXCEPT !.pem = Torn])
           /\ UNCHANGED <<newCfg, curCfg, curCerts>>
  <2>1. desired.certs \subseteq PemFiles
        BY <1>2, InputsAssumption DEF TypeOK, Called, Preparing, Certs, PemFiles
  <2>2. PICK x \in desired.certs : newCerts' = Over(newCerts, [x EXCEPT !.pem = Torn])
        BY <1>2
  <2>3. [x EXCEPT !.pem = Torn] \in PemFiles
        BY <1>1, <2>1
  <2> QED BY <1>2, <2>2, <2>3 DEF TypeOK, Over
<1>3. CASE /\ pc = "copycerts"
           /\ \E copied \in SUBSET newCerts :
                \/ curCerts' = copied
                \/ \E x \in newCerts \ copied :
                     curCerts' = copied \cup {[x EXCEPT !.pem = Torn]}
           /\ UNCHANGED <<newCfg, newCerts, curCfg>>
  <2>1. curCerts' \subseteq PemFiles
        BY <1>1, <1>3 DEF TypeOK
  <2> QED BY <1>3, <2>1 DEF TypeOK
<1> QED
    BY <1>2, <1>3 DEF TypeOK, FailureEffect, files, Contents

\* RInv is inductive.
LEMMA NextReload == RInv /\ [Next]_vars => RInv'
<1> SUFFICES ASSUME RInv, [Next]_vars
             PROVE  RInv'
    OBVIOUS
<1> USE InputsAssumption, ContentsAssumption DEF Certs, PemFiles
<1>1. ASSUME NEW b \in Inputs, ApplyConfig(b)
      PROVE  RInv'
      BY <1>1 DEF RInv, TypeOK, Contents, Called, Preparing, CertsOnTheWay, SoundSoFar,
                  SoundSuccess, Succeeded, Stored, ApplyConfig, files
<1>2. ASSUME desired # Absent, NEW x \in desired.certs, WriteCert(x)
      PROVE  RInv'
      BY <1>2 DEF RInv, TypeOK, Contents, Called, Preparing, CertsOnTheWay, SoundSoFar,
                  SoundSuccess, Succeeded, Stored, WriteCert, Over
<1>3. CASE WriteConfig
      BY <1>3 DEF RInv, TypeOK, Contents, Called, Preparing, CertsOnTheWay, SoundSoFar,
                  SoundSuccess, Succeeded, Stored, WriteConfig
<1>4. CASE Compare
      BY <1>4 DEF RInv, TypeOK, Contents, Called, Preparing, CertsOnTheWay, SoundSoFar,
                  SoundSuccess, Succeeded, Stored, Compare, Changed, files
<1>5. CASE SkipReload
      BY <1>5 DEF RInv, TypeOK, Contents, Called, Preparing, CertsOnTheWay, SoundSoFar,
                  SoundSuccess, Succeeded, Stored, SkipReload
<1>6. CASE ClearCurrentCerts
      BY <1>6 DEF RInv, TypeOK, Contents, Called, Preparing, CertsOnTheWay, SoundSoFar,
                  SoundSuccess, Succeeded, Stored, ClearCurrentCerts
<1>7. CASE CopyCerts
      BY <1>7 DEF RInv, TypeOK, Contents, Called, Preparing, CertsOnTheWay, SoundSoFar,
                  SoundSuccess, Succeeded, Stored, CopyCerts
<1>8. CASE CleanTempCerts
      BY <1>8 DEF RInv, TypeOK, Contents, Called, Preparing, CertsOnTheWay, SoundSoFar,
                  SoundSuccess, Succeeded, Stored, CleanTempCerts
<1>9. CASE CopyConfig
      BY <1>9 DEF RInv, TypeOK, Contents, Called, Preparing, CertsOnTheWay, SoundSoFar,
                  SoundSuccess, Succeeded, Stored, CopyConfig
<1>10. CASE Check
      BY <1>10 DEF RInv, TypeOK, Contents, Called, Preparing, CertsOnTheWay, SoundSoFar,
                   SoundSuccess, Succeeded, Stored, Check, files
<1>11. CASE Launch
      BY <1>11 DEF RInv, TypeOK, Contents, Called, Preparing, CertsOnTheWay, SoundSoFar,
                   SoundSuccess, Succeeded, Stored, Launch, files
<1>12. CASE Fail
  <2>1. TypeOK'
        BY <1>12, FailuresKeepTypes DEF RInv, TypeOK, Contents, Fail
  <2>2. Called' /\ CertsOnTheWay' /\ SoundSuccess'
        BY <1>12 DEF Called, Preparing, CertsOnTheWay, SoundSuccess, Succeeded, Fail
  <2>3. SoundSoFar'
        BY <1>12 DEF RInv, SoundSoFar, Fail
  <2> QED BY <2>1, <2>2, <2>3 DEF RInv
<1>13. CASE Restart
  <2>1. TypeOK'
        BY <1>13, FailuresKeepTypes DEF RInv, TypeOK, Contents, Restart, Down
  <2>2. Called' /\ CertsOnTheWay' /\ SoundSuccess' /\ SoundSoFar'
        BY <1>13 DEF Called, Preparing, CertsOnTheWay, SoundSuccess, Succeeded, SoundSoFar, Restart
  <2> QED BY <2>1, <2>2 DEF RInv
<1>14. CASE StartHaproxy
      BY <1>14 DEF RInv, TypeOK, Contents, Called, Preparing, CertsOnTheWay, SoundSoFar,
                   SoundSuccess, Succeeded, Stored, StartHaproxy, files
<1>15. CASE UNCHANGED vars
      BY <1>15 DEF RInv, TypeOK, Contents, Called, Preparing, CertsOnTheWay, SoundSoFar,
                   SoundSuccess, Succeeded, Stored, vars, files
<1> QED
    BY <1>1, <1>2, <1>3, <1>4, <1>5, <1>6, <1>7, <1>8, <1>9, <1>10, <1>11, <1>12, <1>13, <1>14,
       <1>15 DEF Next, Script

\* RInv always holds.
LEMMA ReloadInvariant == Spec => []RInv
BY InitReload, NextReload, PTL DEF Spec

\* The files, the place in the script and the result stay in their types, and
\* haproxy.cfg is the new configuration when it is checked for ApplyConfig,
\* whatever commands fail and whenever the container restarts.
THEOREM ReloadTypeCorrect == Spec => []TypeOK
<1>1. RInv => TypeOK
      BY DEF RInv
<1> QED
    BY <1>1, ReloadInvariant, PTL

\* applyHaproxyConfig and haproxy_reload: a success of an ApplyConfig that found
\* nothing left over, and haproxy.cfg another configuration or the one HAProxy
\* runs, means that HAProxy runs the configuration with exactly its certificates.
THEOREM SuccessIsSound == Spec => []SoundSuccess
<1>1. RInv => SoundSuccess
      BY DEF RInv
<1> QED
    BY <1>1, ReloadInvariant, PTL

\* copy_data: HAProxy is never started for an ApplyConfig without the new
\* configuration and all of its certificates.
THEOREM LaunchesAreComplete == Spec => []LaunchesComplete
<1>1. RInv => LaunchesComplete
      BY DEF RInv, TypeOK, CertsOnTheWay, LaunchesComplete
<1> QED
    BY <1>1, ReloadInvariant, PTL

-----------------------------------------------------------------------------
(* CertificateFetcher.                                                     *)

\* The steps of the fetcher and of its environment, those that change nothing of
\* the fetcher among them.
FetcherNext ==
  \/ \E d \in Subdirs, f \in Files, v \in Issues \cup {Missing} : FileChanges(d, f, v)
  \/ \E force \in BOOLEAN : BeginPoll(force)
  \/ Poll \/ DoOnUpdate \/ FileUnreadable \/ WalkFails
  \/ Event /\ (FetcherRestarts \/ UNCHANGED <<disk, pollVars, cacheVars>>)

\* The subdirectories of the directory that is walked.
Walked ==
  CASE polling = "certs" -> CertSubdirs
    [] polling = "default" -> DefaultSubdirs
    [] OTHER -> {}

\* Whatever has been read comes from the directory that is walked.
InTheWalk ==
  /\ unread \subseteq Walked
  /\ opened # Missing => opened.name \in Walked \ unread
  /\ \A c \in tempCertsMap : c.name \in Walked \ unread
  /\ opened # Missing => \A c \in tempCertsMap : c.name # opened.name
  /\ DefaultCert # Missing => DefaultCert.name \in DefaultSubdirs

Complete(d) == disk[d]["cert"] # Missing /\ disk[d]["key"] # Missing

\* What has been read of a subdirectory that did not change is what is there.
AsOnDisk ==
  /\ opened # Missing /\ opened.name \notin touched =>
       opened.cert = IF disk[opened.name]["key"] = Missing THEN Missing
                     ELSE disk[opened.name]["cert"]
  /\ \A c \in tempCertsMap :
       c.name \notin touched => Complete(c.name) /\ c.pem = disk[c.name]
  /\ \A d \in Walked \ (unread \cup touched) :
       Complete(d) => \/ opened # Missing /\ opened.name = d
                      \/ \E c \in tempCertsMap : c.name = d

FInv == FetcherTypeOK /\ InTheWalk /\ AsOnDisk

\* Nothing is read when the controller starts.
LEMMA InitFetcher == FetcherInit => FInv
<1> SUFFICES ASSUME FetcherInit
             PROVE  FInv
    OBVIOUS
<1>1. events \in 0..MaxEvents
      BY EventsAssumption DEF FetcherInit
<1>2. opened \in [name : Subdirs, cert : Issues \cup {Missing}] \cup {Missing}
      BY DEF FetcherInit
<1>3. /\ CertsCache \in (SUBSET Certificates) \cup {Missing}
      /\ DefaultCert \in Certificates \cup {Missing}
      BY DEF FetcherInit
<1>4. FetcherTypeOK
      BY <1>1, <1>2, <1>3 DEF FetcherInit, FetcherTypeOK
<1>5. InTheWalk /\ AsOnDisk
      BY DEF FetcherInit, InTheWalk, AsOnDisk, Walked
<1> QED
    BY <1>4, <1>5 DEF FInv

\* A file that changes is touched if a poll is under way.
LEMMA FileChangesKeeps ==
  ASSUME FInv, NEW d \in Subdirs, NEW f \in Files, NEW v \in Issues \cup {Missing},
         FileChanges(d, f, v)
  PROVE  FInv'
<1> USE DEF FileChanges, FInv, cacheVars
<1>1. FetcherTypeOK'
      BY EventsAssumption DEF FetcherTypeOK, Event
<1>2. InTheWalk'
      BY DEF InTheWalk, Walked
<1>3. CASE polling \in {"certs", "default"}
  <2>1. touched' = touched \cup {d}
        BY <1>3
  <2>2. \A e \in Subdirs \ {d} : disk'[e] = disk[e]
        BY DEF FetcherTypeOK
  <2>3. Walked \subseteq Subdirs
        BY DEF Walked, Subdirs
  <2> QED BY <1>1, <1>2, <2>1, <2>2, <2>3 DEF AsOnDisk, InTheWalk, Complete, Walked
<1>4. CASE polling \notin {"certs", "default"}
      BY <1>1, <1>2, <1>4 DEF AsOnDisk, InTheWalk, Walked
<1> QED
    BY <1>3, <1>4

\* A step of the poll keeps what has been read in step with the directory.
LEMMA PollKeeps ==
  ASSUME FInv,
         \/ \E force \in BOOLEAN : BeginPoll(force)
         \/ Poll \/ DoOnUpdate \/ FileUnreadable \/ WalkFails
  PROVE  FInv'
<1> USE EventsAssumption DEF FInv
<1>1. ASSUME NEW force \in BOOLEAN, BeginPoll(force)
      PROVE  FInv'
  <2>1. FetcherTypeOK'
        BY <1>1 DEF BeginPoll, FetcherTypeOK, Subdirs, cacheVars
  <2>2. InTheWalk' /\ AsOnDisk'
        BY <1>1 DEF BeginPoll, InTheWalk, AsOnDisk, Walked, cacheVars
  <2> QED BY <2>1, <2>2
<1>2. ASSUME NEW d \in Subdirs, OpenSubdir(d)
      PROVE  FInv'
  <2>1. disk[d]["key"] \in Issues \cup {Missing} /\ disk[d]["cert"] \in Issues \cup {Missing}
        BY DEF FetcherTypeOK, Files
  <2>2. FetcherTypeOK'
        BY <1>2, <2>1 DEF OpenSubdir, FetcherTypeOK, cacheVars
  <2>3. /\ opened = Missing /\ opened' # Missing /\ opened'.name = d
        /\ opened'.cert = IF disk[d]["key"] = Missing THEN Missing ELSE disk[d]["cert"]
        BY <1>2, <2>1, MissingAssumption DEF OpenSubdir
  <2>4. Walked' = Walked /\ d \in Walked /\ \A c \in tempCertsMap : c.name # d
        BY <1>2 DEF OpenSubdir, InTheWalk, Walked
  <2>5. InTheWalk'
        BY <1>2, <2>3, <2>4 DEF OpenSubdir, InTheWalk, cacheVars
  <2>6. AsOnDisk'
        BY <1>2, <2>3, <2>4 DEF OpenSubdir, AsOnDisk, Complete
  <2> QED BY <2>2, <2>5, <2>6
<1>3. CASE ReadKey
  <2> DEFINE d == opened.name
             key == disk[d]["key"]
             x == [name |-> d, pem |-> [f \in Files |-> IF f = "cert" THEN opened.cert ELSE key]]
  <2>1. d \in Subdirs /\ opened.cert \in Issues \cup {Missing} /\ key \in Issues \cup {Missing}
        BY <1>3, MissingAssumption DEF ReadKey, FetcherTypeOK, Files
  <2>2. tempCertsMap' = IF Missing \in {opened.cert, key} THEN tempCertsMap
                        ELSE tempCertsMap \cup {x}
        BY <1>3 DEF ReadKey
  <2>3. Missing \notin {opened.cert, key} => x \in Certificates
        BY <2>1 DEF Certificates, Files
  <2> HIDE DEF x
  <2>4. FetcherTypeOK'
        BY <1>3, <2>2, <2>3 DEF ReadKey, FetcherTypeOK, cacheVars
  <2>5. x.name = d
        BY DEF x
  <2>6. InTheWalk'
        BY <1>3, <2>2, <2>5 DEF ReadKey, InTheWalk, Walked, cacheVars
  <2>7. d \notin touched /\ Missing \notin {opened.cert, key} => Complete(d) /\ x.pem = disk[d]
        BY <1>3, <2>1 DEF ReadKey, AsOnDisk, Complete, x, Files, FetcherTypeOK
  <2>8. d \notin touched /\ Complete(d) => Missing \notin {opened.cert, key}
        BY <1>3 DEF ReadKey, AsOnDisk, Complete
  <2>9. AsOnDisk'
        BY <1>3, <2>2, <2>5, <2>7, <2>8 DEF ReadKey, AsOnDisk, Walked, Complete
  <2> QED BY <2>4, <2>6, <2>9
<1>4. CASE UpdateCerts
  <2>1. FetcherTypeOK'
        BY <1>4 DEF UpdateCerts, WalkDefaultDir, FetcherTypeOK, Subdirs
  <2>2. InTheWalk' /\ AsOnDisk'
        BY <1>4 DEF UpdateCerts, WalkDefaultDir, InTheWalk, AsOnDisk, Walked
  <2> QED BY <2>1, <2>2
<1>5. CASE UpdateDefault
  <2>1. FetcherTypeOK'
        BY <1>5 DEF UpdateDefault, PollEnds, FetcherTypeOK
  <2>2. DefaultCert' # Missing => DefaultCert'.name \in DefaultSubdirs
        BY <1>5 DEF UpdateDefault, InTheWalk, Walked
  <2>3. InTheWalk' /\ AsOnDisk'
        BY <1>5, <2>2 DEF UpdateDefault, PollEnds, InTheWalk, AsOnDisk, Walked
  <2> QED BY <2>1, <2>3
<1>6. CASE DoOnUpdate
  <2>1. FetcherTypeOK'
        BY <1>6 DEF DoOnUpdate, FetcherTypeOK, cacheVars
  <2>2. InTheWalk' /\ AsOnDisk'
        BY <1>6 DEF DoOnUpdate, InTheWalk, AsOnDisk, Walked, cacheVars
  <2> QED BY <2>1, <2>2
<1>7. CASE FileUnreadable
  <2>1. FetcherTypeOK'
        BY <1>7, MissingAssumption DEF FileUnreadable, Event, FetcherTypeOK, cacheVars
  <2>2. InTheWalk'
        BY <1>7 DEF FileUnreadable, InTheWalk, Walked, cacheVars
  <2>3. AsOnDisk'
        BY <1>7 DEF FileUnreadable, AsOnDisk, Walked, Complete
  <2> QED BY <2>1, <2>2, <2>3
<1>8. CASE WalkFails
  <2>1. FetcherTypeOK'
    <3>1. events' \in 0..MaxEvents
          BY <1>8 DEF WalkFails, Event, FetcherTypeOK
    <3>2. CASE polling = "certs"
          BY <1>8, <3>1, <3>2 DEF WalkFails, WalkDefaultDir, FetcherTypeOK, Subdirs
    <3>3. CASE polling = "default"
          BY <1>8, <3>1, <3>3 DEF WalkFails, PollEnds, FetcherTypeOK, Subdirs
    <3> QED BY <1>8, <3>2, <3>3 DEF WalkFails
  <2>2. InTheWalk' /\ AsOnDisk'
        BY <1>8 DEF WalkFails, WalkDefaultDir, PollEnds, InTheWalk, AsOnDisk, Walked
  <2> QED BY <2>1, <2>2
<1> QED
    BY <1>1, <1>2, <1>3, <1>4, <1>5, <1>6, <1>7, <1>8 DEF Poll

\* FInv is inductive.
LEMMA NextFetcher == FInv /\ [FetcherNext]_fetcherVars => FInv'
<1> SUFFICES ASSUME FInv, [FetcherNext]_fetcherVars
             PROVE  FInv'
    OBVIOUS
<1>1. CASE Event /\ FetcherRestarts
  <2>1. events' \in 0..MaxEvents
        BY <1>1, EventsAssumption DEF FInv, Event, FetcherTypeOK
  <2>2. FetcherTypeOK'
        BY <1>1, <2>1 DEF FInv, FetcherRestarts, FetcherTypeOK
  <2>3. InTheWalk' /\ AsOnDisk'
        BY <1>1 DEF FetcherRestarts, InTheWalk, AsOnDisk, Walked
  <2> QED BY <2>2, <2>3 DEF FInv
<1>2. CASE Event /\ UNCHANGED <<disk, pollVars, cacheVars>>
      BY <1>2, EventsAssumption DEF Event, FInv, FetcherTypeOK, InTheWalk, AsOnDisk, Walked,
                                    Complete, pollVars, cacheVars
<1>3. CASE UNCHANGED fetcherVars
      BY <1>3 DEF FInv, FetcherTypeOK, InTheWalk, AsOnDisk, Walked, Complete,
                  fetcherVars, pollVars, cacheVars
<1> QED
    BY <1>1, <1>2, <1>3, FileChangesKeeps, PollKeeps DEF FetcherNext

\* The walks find what is in the subdirectories that did not change.
LEMMA UpdatesFollowDisk ==
  ASSUME FInv
  PROVE  /\ UpdateCerts =>
              /\ {c \in CertsCache' : c.name \notin touched} = OnDisk(CertSubdirs \ touched)
              /\ \A c \in CertsCache' : c.name \in CertSubdirs
         /\ UpdateDefault /\ DefaultSubdirs \cap touched = {} =>
              \/ DefaultCert' \in OnDisk(DefaultSubdirs)
              \/ DefaultCert' = Missing /\ OnDisk(DefaultSubdirs) = {}
<1>1. ASSUME NEW dirs, NEW d \in dirs, Complete(d)
      PROVE  [name |-> d, pem |-> disk[d]] \in OnDisk(dirs)
      BY <1>1 DEF OnDisk, Complete, Files
<1>2. ASSUME NEW dirs, NEW x \in OnDisk(dirs)
      PROVE  \E d \in dirs : Complete(d) /\ x = [name |-> d, pem |-> disk[d]]
      BY <1>2 DEF OnDisk, Complete, Files
<1>3. \A c \in tempCertsMap : c = [name |-> c.name, pem |-> c.pem]
      BY DEF FInv, FetcherTypeOK, Certificates
<1>4. ASSUME UpdateCerts
      PROVE  /\ {c \in tempCertsMap : c.name \notin touched} = OnDisk(CertSubdirs \ touched)
             /\ \A c \in tempCertsMap : c.name \in CertSubdirs
  <2>1. Walked = CertSubdirs /\ unread = {} /\ opened = Missing
        BY <1>4 DEF UpdateCerts, WalkDone, Walked
  <2>2. \A c \in tempCertsMap : c.name \in CertSubdirs
        BY <2>1 DEF FInv, InTheWalk
  <2>3. ASSUME NEW c \in tempCertsMap, c.name \notin touched
        PROVE  c \in OnDisk(CertSubdirs \ touched)
        BY <1>1, <1>3, <2>2, <2>3 DEF FInv, AsOnDisk
  <2>4. ASSUME NEW x \in OnDisk(CertSubdirs \ touched)
        PROVE  x \in tempCertsMap /\ x.name \notin touched
    <3>1. PICK d \in CertSubdirs \ touched : Complete(d) /\ x = [name |-> d, pem |-> disk[d]]
          BY <1>2
    <3>2. PICK c \in tempCertsMap : c.name = d
          BY <2>1, <3>1 DEF FInv, AsOnDisk
    <3>3. c.pem = disk[d]
          BY <3>1, <3>2 DEF FInv, AsOnDisk
    <3> QED BY <1>3, <3>1, <3>2, <3>3
  <2> QED BY <2>2, <2>3, <2>4
<1>5. ASSUME UpdateDefault, DefaultSubdirs \cap touched = {}
      PROVE  \/ DefaultCert' \in OnDisk(DefaultSubdirs)
             \/ DefaultCert' = Missing /\ OnDisk(DefaultSubdirs) = {}
  <2>1. Walked = DefaultSubdirs /\ unread = {} /\ opened = Missing
        BY <1>5 DEF UpdateDefault, WalkDone, Walked
  <2>2. ASSUME NEW c \in tempCertsMap
        PROVE  c \in OnDisk(DefaultSubdirs)
        BY <1>1, <1>3, <1>5, <2>1 DEF FInv, InTheWalk, AsOnDisk
  <2>3. OnDisk(DefaultSubdirs) # {} => tempCertsMap # {}
        BY <1>2, <1>5, <2>1 DEF FInv, AsOnDisk
  <2>4. DefaultCert' \in IF tempCertsMap = {} THEN {Missing} ELSE tempCertsMap
        BY <1>5 DEF UpdateDefault
  <2> QED BY <2>2, <2>3, <2>4
<1> QED
    BY <1>4, <1>5 DEF UpdateCerts

-----------------------------------------------------------------------------
(* CertificateDelivery.                                                    *)

\* What is known of the configuration under construction.
BuildInv ==
  sync \in {"default", "certs"} =>
    build \in [rules : Rules,
               default : {c \in Certificates : c.name \in DefaultSubdirs} \cup {Missing}]

DInv == FInv /\ SyncTypeOK /\ BuildInv

\* sync is idle when the controller starts.
LEMMA InitDelivery == DeliveryInit => Init /\ DInv
<1> SUFFICES ASSUME DeliveryInit
             PROVE  Init /\ DInv
    OBVIOUS
<1>1. Init /\ FInv
      BY InitFetcher DEF DeliveryInit
<1>2. SyncTypeOK /\ BuildInv
      BY DEF DeliveryInit, SyncTypeOK, BuildInv
<1> QED
    BY <1>1, <1>2 DEF DInv

\* What sync builds is a configuration that ApplyConfig may be called with.
LEMMA BuiltIsInput == DInv /\ sync = "certs" => Built \in Inputs
<1> SUFFICES ASSUME DInv, sync = "certs"
             PROVE  Built \in Inputs
    OBVIOUS
<1>1. Certs = Certificates
      BY DeliveryAssumption DEF Certs, Certificates
<1>2. FetchedCerts \subseteq Certs
      BY <1>1 DEF FetchedCerts, DInv, FInv, FetcherTypeOK
<1>3. /\ build.rules \in Rules
      /\ build.default # Missing =>
           build.default \in Certs /\ build.default.name \in DefaultSubdirs
      BY <1>1 DEF DInv, BuildInv
<1>4. Built.cfg \in Configs /\ Built.certs \subseteq Certs
      BY <1>2, <1>3, DeliveryAssumption DEF Built
<1> QED
    BY <1>4, DeliveryAssumption DEF Built

\* Every step is one of the fetcher, or leaves it alone.
LEMMA StepOfFetcher == DeliveryNext => [FetcherNext]_fetcherVars
<1> SUFFICES ASSUME DeliveryNext
             PROVE  [FetcherNext]_fetcherVars
    OBVIOUS
<1>1. CASE DiskChange
      BY <1>1 DEF DiskChange, FetcherNext
<1>2. CASE PollStep \/ ForcedPoll \/ PollFault
      BY <1>2 DEF PollStep, Notify, ForcedPoll, PollFault, FetcherNext
<1>3. CASE SyncStep
      BY <1>3 DEF SyncStep, BeginSync, FetchDefault, FetchAndApply, FinishSync, Command, Refusal
<1>4. CASE ContainerRestarts
      BY <1>4 DEF ContainerRestarts, FetcherNext
<1>5. CASE CommandFails
      BY <1>5 DEF CommandFails, FetcherNext
<1>6. ASSUME NEW r \in Rules, MetadataChange(r)
      PROVE  [FetcherNext]_fetcherVars
      BY <1>6 DEF MetadataChange, FetcherNext
<1> QED
    BY <1>1, <1>2, <1>3, <1>4, <1>5, <1>6 DEF DeliveryNext

\* Every step is one of Reload, or leaves it alone.
LEMMA StepOfReload == DInv /\ DeliveryNext => [Next]_vars
<1> SUFFICES ASSUME DInv, DeliveryNext
             PROVE  [Next]_vars
    OBVIOUS
<1> USE DEF vars, reloadVars, syncVars, Next
<1>1. CASE DiskChange
      BY <1>1 DEF DiskChange
<1>2. CASE PollStep \/ ForcedPoll \/ PollFault
      BY <1>2 DEF PollStep, Notify, ForcedPoll, PollFault
<1>3. CASE FetchAndApply
      BY <1>3, BuiltIsInput DEF FetchAndApply
<1>4. CASE BeginSync \/ FetchDefault \/ FinishSync
      BY <1>4 DEF BeginSync, FetchDefault, FinishSync
<1>5. CASE Command \/ Refusal \/ CommandFails \/ ContainerRestarts
      BY <1>5 DEF Command, Refusal, CommandFails, ContainerRestarts
<1>6. ASSUME NEW r \in Rules, MetadataChange(r)
      PROVE  [Next]_vars
      BY <1>6 DEF MetadataChange
<1> QED
    BY <1>1, <1>2, <1>3, <1>4, <1>5, <1>6 DEF DeliveryNext, SyncStep

\* DInv is inductive.
LEMMA NextDelivery == DInv /\ [DeliveryNext]_deliveryVars => DInv'
<1> SUFFICES ASSUME DInv, [DeliveryNext]_deliveryVars
             PROVE  DInv'
    OBVIOUS
<1>1. FInv'
  <2>1. [FetcherNext]_fetcherVars
        BY StepOfFetcher DEF deliveryVars
  <2> QED BY <2>1, NextFetcher DEF DInv
<1>2. SyncTypeOK /\ BuildInv /\ FInv /\ initPollDone \in BOOLEAN /\ initPollDone' \in BOOLEAN
      BY <1>1 DEF DInv, FInv, FetcherTypeOK
<1> USE DEF syncVars
<1>3. ASSUME UNCHANGED syncVars, initPollDone' = TRUE \/ initPollDone' = initPollDone
      PROVE  SyncTypeOK' /\ BuildInv'
      BY <1>2, <1>3 DEF SyncTypeOK, BuildInv
<1>4. SyncTypeOK' /\ BuildInv'
  <2>1. CASE DiskChange
        BY <1>3, <2>1 DEF DiskChange, FileChanges, cacheVars
  <2>2. CASE ForcedPoll \/ PollFault
    <3>1. UNCHANGED syncVars
          BY <2>2 DEF ForcedPoll, PollFault
    <3>2. initPollDone' = TRUE \/ initPollDone' = initPollDone
          BY <2>2 DEF ForcedPoll, BeginPoll, PollFault, FileUnreadable, WalkFails, PollEnds,
                      cacheVars
    <3> QED BY <1>3, <3>1, <3>2
  <2>3. CASE PollStep
    <3>1. initPollDone' = TRUE \/ initPollDone' = initPollDone
          BY <2>3 DEF PollStep, Poll, BeginPoll, UpdateCerts, UpdateDefault, PollEnds, ReadKey,
                      OpenSubdir, Notify, DoOnUpdate, cacheVars
    <3>2. \/ UNCHANGED syncVars
          \/ scheduled' = TRUE /\ UNCHANGED <<rules, sync, build, masked>>
          BY <2>3 DEF PollStep, Notify
    <3> QED BY <1>2, <3>1, <3>2 DEF SyncTypeOK, BuildInv
  <2>4. CASE BeginSync
        BY <1>2, <2>4 DEF BeginSync, SyncTypeOK, BuildInv, fetcherVars, cacheVars
  <2>5. CASE FetchDefault
    <3>1. DefaultCert \in {c \in Certificates : c.name \in DefaultSubdirs} \cup {Missing}
          BY <1>2 DEF FInv, FetcherTypeOK, InTheWalk
    <3> QED BY <1>2, <2>5, <3>1 DEF FetchDefault, SyncTypeOK, BuildInv, fetcherVars, cacheVars
  <2>6. CASE FetchAndApply \/ FinishSync
        BY <1>2, <2>6 DEF FetchAndApply, FinishSync, SyncTypeOK, BuildInv, fetcherVars, cacheVars
  <2>7. CASE Command
        BY <1>2, <2>7 DEF Command, SyncTypeOK, BuildInv, fetcherVars, cacheVars
  <2>8. CASE Refusal
        BY <1>3, <2>8 DEF Refusal, fetcherVars, cacheVars
  <2>9. CASE CommandFails
        BY <1>2, <2>9 DEF CommandFails, SyncTypeOK, BuildInv, cacheVars
  <2>10. CASE ContainerRestarts
        BY <1>2, <2>10 DEF ContainerRestarts, SyncTypeOK, BuildInv
  <2>11. ASSUME NEW r \in Rules, MetadataChange(r)
         PROVE  SyncTypeOK' /\ BuildInv'
        BY <1>2, <2>11 DEF MetadataChange, SyncTypeOK, BuildInv, cacheVars
  <2>12. CASE UNCHANGED deliveryVars
        BY <1>3, <2>12 DEF deliveryVars, fetcherVars, cacheVars
  <2> QED
      BY <2>1, <2>2, <2>3, <2>4, <2>5, <2>6, <2>7, <2>8, <2>9, <2>10, <2>11, <2>12
         DEF DeliveryNext, SyncStep
<1> QED
    BY <1>1, <1>4 DEF DInv

\* DInv always holds.
LEMMA DeliveryInvariant == DeliverySpec => []DInv
BY InitDelivery, NextDelivery, PTL DEF DeliverySpec

\* readCertificate and FetchCertificates: an incomplete pair gets neither into the
\* map of a walk nor into a cache, and no configuration is built before the first
\* poll of the directories is done.
THEOREM DeliveryTypeCorrect == DeliverySpec => []DeliveryTypeOK
<1>1. DInv => DeliveryTypeOK
      BY DEF DInv, FInv, DeliveryTypeOK
<1> QED
    BY <1>1, DeliveryInvariant, PTL

\* pollCertificateDirectories: whoever changes files during a walk, the caches
\* have exactly what is in the subdirectories that were left alone.
THEOREM CachesFollowDisk == DeliverySpec => CacheFollowsDisk
<1> DEFINE Follows ==
      /\ UpdateCerts =>
           /\ {c \in CertsCache' : c.name \notin touched} = OnDisk(CertSubdirs \ touched)
           /\ \A c \in CertsCache' : c.name \in CertSubdirs
      /\ UpdateDefault /\ DefaultSubdirs \cap touched = {} =>
           \/ DefaultCert' \in OnDisk(DefaultSubdirs)
           \/ DefaultCert' = Missing /\ OnDisk(DefaultSubdirs) = {}
<1>1. DInv => Follows
      BY UpdatesFollowDisk DEF DInv
<1>2. DInv => [Follows]_fetcherVars
      BY <1>1
<1> QED
    BY <1>2, DeliveryInvariant, PTL DEF CacheFollowsDisk

\* The composition of the poll, sync, ApplyConfig and haproxy_reload: as far as
\* the files and HAProxy are concerned, it behaves as Reload does.
THEOREM DeliveryIsReload == DeliverySpec => Spec
<1>1. DInv /\ [DeliveryNext]_deliveryVars => [Next]_vars
  <2>1. UNCHANGED deliveryVars => UNCHANGED vars
        BY DEF deliveryVars, reloadVars, vars
  <2> QED BY <2>1, StepOfReload
<1>2. DeliveryInit => Init
      BY InitDelivery
<1> QED
    BY <1>1, <1>2, DeliveryInvariant, PTL DEF DeliverySpec, Spec

\* A success of ApplyConfig means the same when certificates are renewed and
\* polled meanwhile.
THEOREM DeliverySuccessIsSound == DeliverySpec => []SoundSuccess
BY DeliveryIsReload, SuccessIsSound, PTL

\* HAProxy is started with a configuration and all its certificates, too, when
\* certificates are renewed and polled meanwhile (haproxy_reload).
THEOREM DeliveryLaunchesAreComplete == DeliverySpec => []LaunchesComplete
BY DeliveryIsReload, LaunchesAreComplete, PTL

-----------------------------------------------------------------------------
(* What is found to have changed is applied.                               *)

\* An ApplyConfig that succeeds has written its configuration and certificates,
\* and one that is over has answered.
Answered ==
  pc = "idle" /\ desired # Absent =>
    /\ result # "none"
    /\ result = "ok" => curCfg = desired.cfg /\ desired.certs \subseteq curCerts

\* haproxy.cfg and certs/current have not been touched since ApplyConfig began.
Untouched == pc \in {"idle", "certs", "compare", "clean", "clear"}

LoadedUnlessMasked == Untouched /\ Stored \in Accepted => loaded = Stored \/ masked

\* What sync has read is up to date, or there is more to come; so is what it has
\* applied.
UpToDate ==
  /\ polling # "default" => ~certsUpdated
  /\ sync \in {"default", "certs"} => build.rules = rules \/ scheduled
  /\ sync = "certs" => build.default = DefaultCert \/ Outstanding
  /\ sync = "apply" => desired # Absent /\ (desired = Present \/ Outstanding)
  /\ sync = "idle" /\ ~Outstanding =>
       pc = "idle" /\ curCfg = Present.cfg /\ Present.certs \subseteq curCerts

OInv == Answered /\ LoadedUnlessMasked /\ UpToDate

\* The first reconciliation is outstanding when the controller starts.
LEMMA InitOutstanding == DeliveryInit => OInv
BY DEF DeliveryInit, Init, FetcherInit, OInv, Answered, LoadedUnlessMasked, Untouched, UpToDate,
       Outstanding

\* A step of the fetcher that replaces a cache makes an update outstanding, and
\* none makes it less so.
LEMMA CachesAnnounceChanges ==
  ASSUME DInv, UpToDate, DiskChange \/ PollStep \/ ForcedPoll \/ PollFault
  PROVE  /\ UNCHANGED <<reloadVars, rules, sync, build, masked>>
         /\ scheduled => scheduled'
         /\ polling' # "default" => ~certsUpdated'
         /\ Outstanding => Outstanding'
         /\ Outstanding' \/ UNCHANGED <<CertsCache, DefaultCert>>
<1> USE DEF syncVars, Outstanding, cacheVars
<1>1. scheduled \in BOOLEAN /\ certsUpdated \in BOOLEAN /\ forced \in BOOLEAN
      BY DEF DInv, SyncTypeOK, FInv, FetcherTypeOK
<1>2. CASE DiskChange
      BY <1>2 DEF DiskChange, FileChanges, UpToDate
<1>3. CASE ForcedPoll
      BY <1>3 DEF ForcedPoll, BeginPoll, UpToDate
<1>4. CASE PollFault
  <2>1. CASE FileUnreadable
        BY <1>4, <2>1 DEF PollFault, FileUnreadable, UpToDate
  <2>2. CASE WalkFails /\ polling = "certs"
        BY <1>4, <2>2 DEF PollFault, WalkFails, WalkDefaultDir, UpToDate
  <2>3. CASE WalkFails /\ polling = "default"
        BY <1>1, <1>4, <2>3 DEF PollFault, WalkFails, PollEnds, UpToDate
  <2> QED BY <1>4, <2>1, <2>2, <2>3 DEF PollFault, WalkFails
<1>5. CASE PollStep
  <2>1. CASE Notify
        BY <1>1, <2>1 DEF Notify, DoOnUpdate, UpToDate
  <2>2. CASE BeginPoll(FALSE) /\ UNCHANGED <<reloadVars, syncVars>>
        BY <2>2 DEF BeginPoll, UpToDate
  <2>3. CASE UpdateCerts /\ UNCHANGED <<reloadVars, syncVars>>
        BY <1>1, <2>3 DEF UpdateCerts, WalkDefaultDir, UpToDate
  <2>4. CASE UpdateDefault /\ UNCHANGED <<reloadVars, syncVars>>
        BY <1>1, <2>4 DEF UpdateDefault, PollEnds, UpToDate
  <2>5. CASE ReadKey /\ UNCHANGED <<reloadVars, syncVars>>
        BY <2>5 DEF ReadKey, UpToDate
  <2>6. ASSUME NEW d \in Subdirs, OpenSubdir(d), UNCHANGED <<reloadVars, syncVars>>
        PROVE  /\ UNCHANGED <<reloadVars, rules, sync, build, masked>>
               /\ scheduled => scheduled'
               /\ polling' # "default" => ~certsUpdated'
               /\ Outstanding => Outstanding'
               /\ Outstanding' \/ UNCHANGED <<CertsCache, DefaultCert>>
        BY <2>6 DEF OpenSubdir, UpToDate
  <2> QED BY <1>5, <2>1, <2>2, <2>3, <2>4, <2>5, <2>6 DEF PollStep, Poll
<1> QED
    BY <1>2, <1>3, <1>4, <1>5

\* A configuration is asked for by the metadata and the caches.
LEMMA PresentFollows ==
  ASSUME UNCHANGED <<rules, CertsCache, DefaultCert>>
  PROVE  Present' = Present
BY DEF Present, FetchedCerts, FetchedDefault

\* Commands of the reload: only the last one, or nothing to be done, ends in
\* success, and from the comparison to the launch the files are those asked for.
LEMMA ReloadAnswers ==
  ASSUME RInv, [Next]_vars, Answered
  PROVE  Answered'
<1> USE DEF Answered, files
<1>1. CASE SkipReload
      BY <1>1 DEF SkipReload, RInv, Called, CertsOnTheWay, Preparing
<1>2. CASE Launch
      BY <1>2 DEF Launch, RInv, TypeOK, CertsOnTheWay
<1>3. CASE Restart \/ StartHaproxy
      BY <1>3 DEF Restart, StartHaproxy, RInv, Called
<1>4. CASE Fail
      BY <1>4 DEF Fail
<1>5. CASE \E lbConfig \in Inputs : ApplyConfig(lbConfig)
      BY <1>5 DEF ApplyConfig
<1>6. CASE WriteConfig \/ \E x \in desired.certs : WriteCert(x)
      BY <1>6 DEF WriteConfig, WriteCert
<1>7. CASE Compare \/ ClearCurrentCerts \/ CopyCerts \/ CleanTempCerts \/ CopyConfig \/ Check
      BY <1>7 DEF Compare, ClearCurrentCerts, CopyCerts, CleanTempCerts, CopyConfig, Check
<1>8. CASE UNCHANGED vars
      BY <1>8 DEF vars
<1> QED
    BY <1>1, <1>2, <1>3, <1>4, <1>5, <1>6, <1>7, <1>8 DEF Next, Script

\* HAProxy runs with the files it last accepted, as long as nobody touches them
\* and unless a failure was masked.
LEMMA LoadedOrMasked ==
  ASSUME DInv, LoadedUnlessMasked, [DeliveryNext]_deliveryVars
  PROVE  LoadedUnlessMasked'
<1> USE DEF LoadedUnlessMasked, Untouched, Stored, reloadVars, syncVars, files
<1>1. CASE UNCHANGED <<reloadVars, masked>>
      BY <1>1
<1>2. CASE \/ DiskChange \/ \E r \in Rules : MetadataChange(r)
           \/ PollStep \/ ForcedPoll \/ PollFault
           \/ BeginSync \/ FetchDefault \/ FinishSync
  <2>1. UNCHANGED <<reloadVars, masked>>
        BY <1>2 DEF DiskChange, MetadataChange, PollStep, Notify, ForcedPoll, PollFault, BeginSync,
                    FetchDefault, FinishSync
  <2> QED BY <1>1, <2>1
<1>3. CASE FetchAndApply
      BY <1>3 DEF FetchAndApply, ApplyConfig
<1>4. CASE Command
  <2>1. CASE Launch
        BY <1>4, <2>1 DEF Launch
  <2>2. CASE StartHaproxy
        BY <1>4, <2>2, AcceptedAssumption DEF StartHaproxy
  <2>3. CASE WriteConfig \/ \E x \in desired.certs : WriteCert(x)
        BY <1>4, <2>3 DEF Command, WriteConfig, WriteCert, Launch
  <2>4. CASE \/ Compare \/ SkipReload \/ ClearCurrentCerts \/ CopyCerts \/ CleanTempCerts
             \/ CopyConfig \/ Check
        BY <1>4, <2>4 DEF Command, Compare, SkipReload, ClearCurrentCerts, CopyCerts, CleanTempCerts,
                          CopyConfig, Check, Launch
  <2> QED BY <1>4, <2>1, <2>2, <2>3, <2>4 DEF Command, Script
<1>5. CASE Refusal
      BY <1>5 DEF Refusal, Fail
<1>6. CASE CommandFails
      BY <1>6 DEF CommandFails, Fail
<1>7. CASE ContainerRestarts
      BY <1>7 DEF ContainerRestarts, Restart
<1>8. CASE UNCHANGED deliveryVars
      BY <1>1, <1>8 DEF deliveryVars
<1> QED
    BY <1>2, <1>3, <1>4, <1>5, <1>6, <1>7, <1>8 DEF DeliveryNext, SyncStep

\* OInv is inductive, together with what is known of the reload and the poll.
LEMMA NextOutstanding ==
  ASSUME RInv, DInv, OInv, [DeliveryNext]_deliveryVars
  PROVE  OInv'
<1> USE DEF reloadVars, syncVars
<1>1. Answered'
  <2>1. [Next]_vars
        BY StepOfReload DEF deliveryVars, vars
  <2> QED BY <2>1, ReloadAnswers DEF OInv
<1>2. LoadedUnlessMasked'
      BY LoadedOrMasked DEF OInv
<1>3. UpToDate /\ Answered
      BY DEF OInv
<1>4. UpToDate'
  <2>1. CASE DiskChange \/ PollStep \/ ForcedPoll \/ PollFault
    <3>1. /\ UNCHANGED <<reloadVars, rules, sync, build, masked>>
          /\ scheduled => scheduled'
          /\ polling' # "default" => ~certsUpdated'
          /\ Outstanding => Outstanding'
          /\ Outstanding' \/ UNCHANGED <<CertsCache, DefaultCert>>
          BY <1>3, <2>1, CachesAnnounceChanges
    <3>2. Outstanding' \/ (Present' = Present /\ DefaultCert' = DefaultCert)
          BY <3>1, PresentFollows
    <3> QED BY <1>3, <3>1, <3>2 DEF UpToDate, files
  <2>2. ASSUME NEW r \in Rules, MetadataChange(r)
        PROVE  UpToDate'
        BY <1>3, <2>2 DEF MetadataChange, UpToDate, Outstanding, pollVars, cacheVars
  <2>3. CASE BeginSync
        BY <1>3, <2>3 DEF BeginSync, UpToDate, fetcherVars, pollVars
  <2>4. CASE FetchDefault
        BY <1>3, <2>4 DEF FetchDefault, UpToDate, Outstanding, fetcherVars, pollVars, cacheVars,
                          DInv, BuildInv
  <2>5. CASE FetchAndApply
    <3>1. desired' = Built /\ desired' # Absent
          BY <2>5, BuiltIsInput, InputsAssumption, ContentsAssumption
             DEF FetchAndApply, ApplyConfig
    <3>2. Present' = Present /\ (Outstanding' <=> Outstanding)
          BY <2>5, PresentFollows DEF FetchAndApply, fetcherVars, cacheVars, pollVars, Outstanding
    <3>3. build.rules = rules /\ build.default = DefaultCert => Built = Present
          BY DEF Built, Present, FetchedDefault
    <3>4. Outstanding \/ (build.rules = rules /\ build.default = DefaultCert)
          BY <1>3, <2>5 DEF UpToDate, FetchAndApply, Outstanding
    <3> QED BY <1>3, <2>5, <3>1, <3>2, <3>3, <3>4 DEF FetchAndApply, UpToDate, fetcherVars, pollVars
  <2>6. CASE FinishSync
    <3>1. Present' = Present
          BY <2>6, PresentFollows DEF FinishSync, fetcherVars, cacheVars
    <3>2. ~Outstanding' => ~Outstanding /\ result = "ok"
          BY <1>3, <2>6 DEF FinishSync, Outstanding, fetcherVars, pollVars, UpToDate, Answered, OInv,
                            RInv, TypeOK
    <3> QED BY <1>3, <2>6, <3>1, <3>2
               DEF FinishSync, UpToDate, Answered, fetcherVars, pollVars, files
  <2>7. CASE Command \/ Refusal \/ CommandFails
    <3>1. /\ UNCHANGED <<pollVars, cacheVars, rules, scheduled, sync, build>>
          /\ desired' = desired /\ pc # "idle"
          BY <2>7 DEF Command, Refusal, CommandFails, Fail, fetcherVars, WriteCert, WriteConfig,
                      Script, Compare, SkipReload, ClearCurrentCerts, CopyCerts, CleanTempCerts,
                      CopyConfig, Check, Launch, StartHaproxy
    <3>2. Present' = Present
          BY <3>1, PresentFollows DEF cacheVars
    <3> QED BY <1>3, <3>1, <3>2 DEF UpToDate, Outstanding, pollVars, cacheVars
  <2>8. CASE ContainerRestarts
        BY <2>8 DEF ContainerRestarts, FetcherRestarts, UpToDate, Outstanding
  <2>9. CASE UNCHANGED deliveryVars
    <3>1. Present' = Present
          BY <2>9, PresentFollows DEF deliveryVars, fetcherVars, cacheVars
    <3> QED BY <1>3, <2>9, <3>1
               DEF UpToDate, Outstanding, deliveryVars, fetcherVars, pollVars, cacheVars, files
  <2> QED
      BY <2>1, <2>2, <2>3, <2>4, <2>5, <2>6, <2>7, <2>8, <2>9 DEF DeliveryNext, SyncStep
<1> QED
    BY <1>1, <1>2, <1>4 DEF OInv

\* updateCertCache, ScheduleApplyConfig, sync and requeue together: no change that
\* the poll or the watcher of the metadata finds is lost, be it found while sync
\* builds and applies, and whatever fails or restarts meanwhile.  When nothing is
\* outstanding, HAProxy has the files that are asked for, and runs with them if
\* it accepts them and no failure was masked.
THEOREM ChangesAreDelivered == DeliverySpec => []NothingLostOnTheWay
<1>1. DeliverySpec => []RInv
      BY DeliveryIsReload, ReloadInvariant, PTL
<1>2. RInv /\ DInv /\ OInv /\ [DeliveryNext]_deliveryVars => OInv'
      BY NextOutstanding
<1>3. OInv => NothingLostOnTheWay
      BY DEF OInv, UpToDate, LoadedUnlessMasked, Untouched, NothingLostOnTheWay
<1> QED
    BY <1>1, <1>2, <1>3, InitOutstanding, DeliveryInvariant, PTL DEF DeliverySpec
=============================================================================
