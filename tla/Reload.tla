------------------------------- MODULE Reload -------------------------------
(***************************************************************************)
(* How a configuration reaches HAProxy: applyHaproxyConfig, write and      *)
(* reload of provider/haproxy/haproxy.go and the script haproxy_reload     *)
(* they run.  The configuration goes through files: the controller writes  *)
(* haproxy_new.cfg and certs/new, the script copies them to haproxy.cfg    *)
(* and certs/current and has HAProxy check and load them.  Any command may *)
(* fail, which ends the script (set -e), and the container may be          *)
(* restarted between two commands, which keeps the files.                  *)
(*                                                                         *)
(* A configuration is a text and the certificates it goes with; both may   *)
(* change without the other.  What a file contains is the text or the PEM  *)
(* data, or Torn when writing it was cut short.                            *)
(***************************************************************************)
EXTENDS Naturals, FiniteSets

CONSTANTS
  Configs,   \* texts of configurations
  Names,     \* names of certificates, and of their files
  Pems,      \* keys with their certificates, the contents of these files
  Inputs,    \* the configurations the controller builds
  Accepted,  \* what HAProxy accepts, text and certificates together
  Absent, Torn

Certs == [name : Names, pem : Pems]
PemFiles == [name : Names, pem : Pems \cup {Torn}]

ASSUME InputsAssumption == Inputs \subseteq [cfg : Configs, certs : SUBSET Certs]
ASSUME ContentsAssumption ==
  /\ Absent # Torn /\ Absent \notin Configs /\ Torn \notin Configs \cup Pems
  /\ Absent \notin [cfg : Configs, certs : SUBSET Certs]

\* Without haproxy.cfg there is nothing to accept.
ASSUME AcceptedAssumption == \A f \in Accepted : f.cfg # Absent

VARIABLES
  pc,        \* the next command of the controller or of the script
  desired,   \* the configuration passed to ApplyConfig
  newCfg,    \* haproxy_new.cfg
  newCerts,  \* certs/new
  curCfg,    \* haproxy.cfg
  curCerts,  \* certs/current
  loaded,    \* the files HAProxy runs with; cfg is Absent if it does not run
  result,    \* what ApplyConfig returned: "none", "ok" or "error"
  sound      \* history: at the call nothing was left over, and the files were
             \* others than those of desired, or the ones HAProxy runs with

files == <<newCfg, newCerts, curCfg, curCerts>>
vars == <<pc, desired, files, loaded, result, sound>>

Contents == Configs \cup {Absent, Torn}
Stored == [cfg |-> curCfg, certs |-> curCerts]
Down == [cfg |-> Absent, certs |-> {}]

\* The image has neither haproxy.cfg nor certificates.
Init ==
  /\ pc = "start"
  /\ desired = Absent
  /\ newCfg = Absent /\ newCerts = {}
  /\ curCfg = Absent /\ curCerts = {}
  /\ loaded = Down
  /\ result = "none"
  /\ sound = FALSE

-----------------------------------------------------------------------------
(* ApplyConfig of the controller, up to the call of the script.            *)

ApplyConfig(lbConfig) ==
  /\ pc = "idle"
  /\ desired' = lbConfig
  /\ result' = "none"
  /\ sound' = (newCerts = {} /\ (Stored # lbConfig \/ loaded = Stored))
  /\ pc' = "certs"
  /\ UNCHANGED <<files, loaded>>

\* The directory with x written over the file of its name.
Over(dir, x) == {y \in dir : y.name # x.name} \cup {x}

\* Nothing is removed: files of other names stay.
WriteCert(x) ==
  /\ pc = "certs"
  /\ x \in desired.certs \ newCerts
  /\ newCerts' = Over(newCerts, x)
  /\ UNCHANGED <<pc, desired, newCfg, curCfg, curCerts, loaded, result, sound>>

WriteConfig ==
  /\ pc = "certs"
  /\ desired.certs \subseteq newCerts
  /\ newCfg' = desired.cfg
  /\ pc' = "compare"
  /\ UNCHANGED <<desired, newCerts, curCfg, curCerts, loaded, result, sound>>

-----------------------------------------------------------------------------
(* haproxy_reload: apply_config, copy_data and start_or_reload_haproxy.    *)

Changed == curCfg # newCfg \/ newCerts # curCerts

\* A plausible mistake: the certificates are not compared.
CompareConfigOnly ==
  /\ pc = "compare"
  /\ pc' = IF curCfg # newCfg THEN "clear" ELSE "clean"
  /\ UNCHANGED <<desired, files, loaded, result, sound>>

Compare ==
  /\ pc = "compare"
  /\ pc' = IF Changed THEN "clear" ELSE "clean"
  /\ UNCHANGED <<desired, files, loaded, result, sound>>

\* Nothing has changed: the script succeeds.
SkipReload ==
  /\ pc = "clean"
  /\ newCerts' = {}
  /\ pc' = "idle"
  /\ result' = "ok"
  /\ UNCHANGED <<desired, newCfg, curCfg, curCerts, loaded, sound>>

\* A plausible mistake: the new certificates are removed, too.
ClearAllCerts ==
  /\ pc = "clear"
  /\ curCerts' = {} /\ newCerts' = {}
  /\ pc' = "copycerts"
  /\ UNCHANGED <<desired, newCfg, curCfg, loaded, result, sound>>

ClearCurrentCerts ==
  /\ pc = "clear"
  /\ curCerts' = {}
  /\ pc' = "copycerts"
  /\ UNCHANGED <<desired, newCfg, newCerts, curCfg, loaded, result, sound>>

CopyCerts ==
  /\ pc = "copycerts"
  /\ curCerts' = curCerts \cup newCerts
  /\ pc' = "cleantemp"
  /\ UNCHANGED <<desired, newCfg, newCerts, curCfg, loaded, result, sound>>

CleanTempCerts ==
  /\ pc = "cleantemp"
  /\ newCerts' = {}
  /\ pc' = "copyconfig"
  /\ UNCHANGED <<desired, newCfg, curCfg, curCerts, loaded, result, sound>>

\* A plausible mistake: the configuration is not copied.
CopyCertsOnly ==
  /\ pc = "copyconfig"
  /\ pc' = "check"
  /\ UNCHANGED <<desired, files, loaded, result, sound>>

CopyConfig ==
  /\ pc = "copyconfig"
  /\ curCfg' = newCfg
  /\ pc' = "check"
  /\ UNCHANGED <<desired, newCfg, newCerts, curCerts, loaded, result, sound>>

\* What haproxy -c says of a torn file is anybody's guess.
Damaged == curCfg = Torn \/ \E x \in curCerts : x.pem = Torn

\* haproxy -c.
Check ==
  /\ pc = "check"
  /\ Stored \in Accepted \/ Damaged
  /\ pc' = "launch"
  /\ UNCHANGED <<desired, files, loaded, result, sound>>

\* rsyslogd and haproxy start; a running HAProxy is asked to finish (-sf).
Launch ==
  /\ pc = "launch"
  /\ loaded' = Stored
  /\ pc' = "idle"
  /\ result' = "ok"
  /\ UNCHANGED <<desired, files, sound>>

-----------------------------------------------------------------------------
(* Failures.                                                               *)

\* What a failing command may leave behind: some of the files it writes, one
\* of them perhaps torn.
FailureEffect ==
  \/ UNCHANGED files
  \/ /\ pc = "certs"
     /\ \E x \in desired.certs : newCerts' = Over(newCerts, [x EXCEPT !.pem = Torn])
     /\ UNCHANGED <<newCfg, curCfg, curCerts>>
  \/ pc = "certs" /\ newCfg' \in {Absent, Torn} /\ UNCHANGED <<newCerts, curCfg, curCerts>>
  \/ /\ pc = "copycerts"
     /\ \E copied \in SUBSET newCerts :
          \/ curCerts' = copied
          \/ \E x \in newCerts \ copied : curCerts' = copied \cup {[x EXCEPT !.pem = Torn]}
     /\ UNCHANGED <<newCfg, newCerts, curCfg>>
  \/ /\ pc \in {"cleantemp", "clean"}
     /\ newCerts' \in SUBSET newCerts
     /\ UNCHANGED <<newCfg, curCfg, curCerts>>
  \/ pc = "clear" /\ curCerts' \in SUBSET curCerts /\ UNCHANGED <<newCfg, newCerts, curCfg>>
  \/ pc = "copyconfig" /\ curCfg' = Torn /\ UNCHANGED <<newCfg, newCerts, curCerts>>

\* A command fails, be it haproxy -c that refuses the configuration, and so
\* does ApplyConfig; the error of StartHaproxy is ignored.
Fail ==
  /\ pc \notin {"idle", "start"}
  /\ FailureEffect
  /\ pc' = "idle"
  /\ result' = "error"
  /\ UNCHANGED <<desired, loaded, sound>>

\* The container is restarted, which ends HAProxy, too.
Restart ==
  /\ pc # "start"
  /\ FailureEffect
  /\ pc' = "start"
  /\ loaded' = Down
  /\ desired' = Absent
  /\ result' = "none"
  /\ sound' = FALSE

\* Run starts HAProxy with the files of the last container, if there are any;
\* until that ends ApplyConfig waits, and fails if it waits too long.
StartHaproxy ==
  /\ pc = "start"
  /\ pc' = IF curCfg = Absent THEN "idle" ELSE "check"
  /\ UNCHANGED <<desired, files, loaded, result, sound>>

-----------------------------------------------------------------------------
Script ==
  \/ Compare \/ SkipReload
  \/ ClearCurrentCerts \/ CopyCerts \/ CleanTempCerts \/ CopyConfig
  \/ Check \/ Launch

Next ==
  \/ \E lbConfig \in Inputs : ApplyConfig(lbConfig)
  \/ desired # Absent /\ \E x \in desired.certs : WriteCert(x)
  \/ WriteConfig
  \/ Script
  \/ Fail \/ Restart \/ StartHaproxy

Spec == Init /\ [][Next]_vars

-----------------------------------------------------------------------------
(* Properties.                                                             *)

\* The variables stay in their types; haproxy.cfg is the new configuration
\* when it is checked on behalf of ApplyConfig.
TypeOK ==
  /\ pc \in {"start", "idle", "certs", "compare", "clean", "clear", "copycerts", "cleantemp",
             "copyconfig", "check", "launch"}
  /\ desired \in Inputs \cup {Absent}
  /\ newCfg \in Contents /\ curCfg \in Contents
  /\ newCerts \subseteq PemFiles /\ curCerts \subseteq PemFiles
  /\ loaded \in [cfg : Contents, certs : SUBSET PemFiles]
  /\ result \in {"none", "ok", "error"}
  /\ sound \in BOOLEAN
  /\ pc \in {"check", "launch"} /\ desired # Absent => curCfg = desired.cfg

Succeeded == pc = "idle" /\ desired # Absent /\ result = "ok"

\* applyHaproxyConfig and haproxy_reload: an ApplyConfig that succeeds has
\* HAProxy run the configuration and exactly its certificates, provided that
\* no certificate was left over from an earlier attempt and that the files were
\* not already those of the configuration without HAProxy running it.
SoundSuccess == Succeeded /\ sound => loaded = desired

\* copy_data: what is checked and loaded for ApplyConfig has the certificates
\* of the configuration and at most some left over from an attempt that failed
\* before.
LaunchesComplete ==
  pc = "launch" /\ desired # Absent =>
    curCfg = desired.cfg /\ desired.certs \subseteq curCerts

\* rancher.go:830, "retrying sync as one of the configs failed to apply on a
\* backend": a retry that succeeds has applied the configuration.
SuccessMeansLoaded == Succeeded => loaded.cfg = desired.cfg
=============================================================================
