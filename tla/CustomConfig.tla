---------------------------- MODULE CustomConfig ----------------------------
(***************************************************************************)
(* The last step of BuildConfigFromMetadata: BuildCustomConfig of          *)
(* provider/haproxy/haproxy_config_util.go reads the custom configuration  *)
(* of the load balancer's metadata line by line and joins it with default  *)
(* lines and with what health checks, stickiness and weights ask for; the  *)
(* template writes the result.                                             *)
(*                                                                         *)
(* A line is blank, opens a section, is a "server $IP" line with options,  *)
(* or is a directive, with a value after a space or without one.  Names of *)
(* sections are sequences.                                                 *)
(***************************************************************************)
EXTENDS RoutingRules

CONSTANT DefaultConfig  \* GetDefaultConfig: the sorted lines of its sections

\* The key of a section.  lower: the keyword is written in lower case, although
\* isDirective takes any; server: the key ends in "_$IP".
Key(keyword, name) == [keyword |-> keyword, lower |-> TRUE, name |-> name, server |-> FALSE]
InCapitals(k) == [k EXCEPT !.lower = FALSE]
ServerKey(k) == [k EXCEPT !.server = TRUE]

Global == Key("global", None)
Defaults == Key("defaults", None)
AnyBackend == Key("backend", None)
NoSection == Key(None, None)
Frontend(p) == Key("frontend", <<"port", p>>)
Backend(uuid) == Key("backend", uuid)

Directive(name, value) == [kind |-> "directive", name |-> name, value |-> value]

\* GetDefaultConfig fills maps: no section has two lines of one name.
ASSUME DefaultConfigAssumption ==
  /\ DOMAIN DefaultConfig = {Global, Defaults, AnyBackend}
  /\ \A k \in DOMAIN DefaultConfig :
       /\ IsSequence(DefaultConfig[k])
       /\ \A i, j \in DOMAIN DefaultConfig[k] :
            i # j => DefaultConfig[k][i].name # DefaultConfig[k][j].name
\* The name of a section the user opens does not end in "_$IP".
ASSUME CustomAssumption == \A m \in Inputs :
  /\ IsSequence(m.config)
  /\ \A l \in ToSet(m.config) :
       /\ l.kind \in {"blank", "section", "server", "directive"}
       /\ l.kind = "section" => LET opened == Key(l.key.keyword, l.key.name) IN
                               l.key \in {opened, InCapitals(opened)}
       /\ l.kind = "server" => IsSequence(l.options)
\* Nothing is no keyword.
ASSUME NoneAssumption == None \notin {"global", "defaults", "backend", "frontend"}

VARIABLES
  line,             \* index of the line of metadata.config that is read next
  key,              \* the section of that line
  customConfigMap,  \* the lines under each key
  defaultConfig,    \* the default lines that no custom line has replaced
  appended          \* these have been appended

textVars == <<line, key, customConfigMap, defaultConfig, appended>>
buildVars == <<vars, textVars>>

Lines(k) == IF k \in DOMAIN customConfigMap THEN customConfigMap[k] ELSE <<>>

AppendTo(k, lines) ==
  customConfigMap' = [j \in DOMAIN customConfigMap \cup {k} |->
                        IF j = k THEN Lines(k) \o lines ELSE customConfigMap[j]]

-----------------------------------------------------------------------------
(* BuildCustomConfig up to the frontends.                                  *)

BuildInit ==
  /\ Init
  /\ line = 1
  /\ key = NoSection
  /\ customConfigMap = <<>>
  /\ defaultConfig = DefaultConfig
  /\ appended = FALSE

Customising == sorted /\ line <= Len(metadata.config)
Line == metadata.config[line]

SkipBlank ==
  /\ Customising
  /\ Line.kind = "blank"
  /\ line' = line + 1
  /\ UNCHANGED <<vars, key, customConfigMap, defaultConfig, appended>>

OpenSection ==
  /\ Customising
  /\ Line.kind = "section"
  /\ key' = Line.key
  /\ line' = line + 1
  /\ UNCHANGED <<vars, customConfigMap, defaultConfig, appended>>

ReadServerLine ==
  /\ Customising
  /\ Line.kind = "server"
  /\ AppendTo(ServerKey(key), <<Line.options>>)
  /\ line' = line + 1
  /\ UNCHANGED <<vars, key, defaultConfig, appended>>

\* A plausible mistake: the custom line must be the default line.
RemainingUnlessEqual(defaults, l) == Those(defaults, ToSet(defaults) \ {l})

\* A line replaces the default whose name and a space it begins with (no name of
\* several words begins another): never if it has no value, since what is
\* compared as a whole is not the default but the name of the section.
Remaining(defaults, l) ==
  Those(defaults, {d \in ToSet(defaults) : l.value = None \/ l.name # d.name})

\* A plausible mistake: a section that comes again replaces the first.
ReadDirectiveOverwriting ==
  /\ Customising
  /\ Line.kind = "directive"
  /\ customConfigMap' = [j \in DOMAIN customConfigMap \cup {key} |->
                           IF j # key THEN customConfigMap[j]
                           ELSE IF line > 1 /\ metadata.config[line - 1].kind = "section"
                                THEN <<Line>>
                           ELSE Append(Lines(key), Line)]
  /\ defaultConfig' = [k \in DOMAIN defaultConfig |->
                         IF k = key THEN Remaining(defaultConfig[k], Line) ELSE defaultConfig[k]]
  /\ line' = line + 1
  /\ UNCHANGED <<vars, key, appended>>

ReadDirective ==
  /\ Customising
  /\ Line.kind = "directive"
  /\ AppendTo(key, <<Line>>)
  /\ defaultConfig' = [k \in DOMAIN defaultConfig |->
                         IF k = key THEN Remaining(defaultConfig[k], Line) ELSE defaultConfig[k]]
  /\ line' = line + 1
  /\ UNCHANGED <<vars, key, appended>>

AppendDefaults ==
  /\ sorted /\ ~Customising
  /\ ~appended
  /\ customConfigMap' = [k \in DOMAIN customConfigMap \cup DOMAIN defaultConfig |->
                           IF k \in DOMAIN defaultConfig THEN Lines(k) \o defaultConfig[k]
                           ELSE customConfigMap[k]]
  /\ appended' = TRUE
  /\ UNCHANGED <<vars, line, key, defaultConfig>>

BuildNext ==
  \/ Next /\ UNCHANGED textVars
  \/ SkipBlank \/ OpenSection \/ ReadServerLine \/ ReadDirective
  \/ AppendDefaults

BuildSpec == BuildInit /\ [][BuildNext]_buildVars

-----------------------------------------------------------------------------
(* The sections of the written configuration.                              *)

Built == {p \in ToSet(Ports) : frontends[p] # <<>>}
Uuids == {AllBackends[i].uuid : i \in DOMAIN AllBackends}

\* The port whose frontend backend u belongs to, for a backend that is written.
PortOf(u) ==
  Ports[Min({i \in DOMAIN Ports :
    Supported(Ports[i]) /\ \E b \in ToSet(frontends[Ports[i]]) : b.uuid = u})]

Sticky(p) == metadata.sticky # None /\ Protocol[p] \in {"http", "https"}

\* Without a name of its own the cookie gets the name of the first backend that
\* comes by, and keeps it for all others.
Cookie ==
  LET sticky == FlattenSeq([i \in DOMAIN Ports |->
                  IF Sticky(Ports[i]) THEN frontends[Ports[i]] ELSE <<>>])
  IN IF metadata.sticky.cookie = None THEN sticky[1].uuid ELSE metadata.sticky.cookie

When(condition, lines) == IF condition THEN lines ELSE <<>>
AcceptProxyLine == Directive("accept-proxy", None)

AcceptProxy(p) == AcceptProxyLine \in ToSet(Lines(Frontend(p)))
OtherLines(lines) == Those(lines, ToSet(lines) \ {AcceptProxyLine})
FrontendText(p) == OtherLines(Lines(Frontend(p)))

BackendText(u) ==
  LET check == WrittenBackend(u).check IN
  Lines(Backend(u)) \o Lines(AnyBackend)
    \o When(check # None, <<Directive("timeout check", check)>>)
    \o When(Sticky(PortOf(u)), <<Directive("cookie", Cookie)>>)
    \o <<Directive("mode", Protocol[PortOf(u)])>>

\* A plausible mistake: only a weight that is positive is written.
PositiveWeight(w) == When(w # 1 /\ w > 0 /\ w < 257, <<Directive("weight", w)>>)

WeightOption(w) == When(w # 1 /\ w >= 0 /\ w < 257, <<Directive("weight", w)>>)

\* What the controller adds for server ep of backend u.
AddedOptions(u, ep) ==
  LET check == WrittenBackend(u).check IN
  When(check # None, <<Directive("check", check)>>)
    \o When(ep.cname, When(check = None, <<Directive("check", None)>>)
                      \o <<Directive("resolvers", "rancher")>>)
    \o When(Sticky(PortOf(u)), <<Directive("cookie", ep.ip)>>)
    \o WeightOption(ep.weight)

\* The options of server ep.  Those of several custom server lines are on lines
\* of their own, and what is added is on the last of these.
ServerText(u, ep) ==
  LET custom == Lines(ServerKey(Backend(u))) IN
  IF custom = <<>> THEN AddedOptions(u, ep)
  ELSE IF Len(custom) = 1 THEN custom[1] \o AddedOptions(u, ep)
  ELSE custom[1]

\* What is written as it is: sections that belong to no frontend and no backend.
\* A backend's key has been processed even if its protocol is not supported.
Processed == {Frontend(p) : p \in Built}
  \cup {Backend(b.uuid) : b \in UNION {ToSet(frontends[p]) : p \in Built}}
Extra(k) ==
  /\ k \in DOMAIN customConfigMap
  /\ ~(k.keyword \in {"global", "backend", "defaults"} /\ k.name = None /\ ~k.server)
  /\ k \notin Processed
  /\ ~(k.keyword = "backend" /\ k.lower /\ k.server)

\* Lines before the first section come right after those of the defaults.
DefaultsText == Lines(Defaults) \o When(Extra(NoSection), Lines(NoSection))

\* The lines of one name.  HAProxy takes the last one of several options.
Named(lines, name) == Those(lines, {l \in ToSet(lines) : l.name = name})

EffectiveWeight(u, ep) ==
  LET weights == Named(ServerText(u, ep), "weight")
  IN IF weights = <<>> THEN 1 ELSE weights[Len(weights)].value

-----------------------------------------------------------------------------
(* Properties.                                                             *)

\* The section of line i, and the directives the user gives for section k.
SectionAt(i) ==
  LET heads == {j \in 1..(i - 1) : metadata.config[j].kind = "section"}
  IN IF heads = {} THEN NoSection ELSE metadata.config[Max(heads)].key

GivenUntil(k, n) ==
  FlattenSeq([i \in 1..n |-> IF metadata.config[i].kind = "directive" /\ SectionAt(i) = k
                             THEN <<metadata.config[i]>> ELSE <<>>])
Given(k) == GivenUntil(k, Len(metadata.config))

Carries(text, lines) ==
  \E i \in 0..(Len(text) - Len(lines)) : SubSeq(text, i + 1, i + Len(lines)) = lines

Sections ==
  {NoSection} \cup {l.key : l \in {x \in ToSet(metadata.config) : x.kind = "section"}}

\* Sections that are read but not written: the three that are merged, under a
\* keyword in capitals, and those of frontends whose protocol is not supported.
Unwritten(k) ==
  \/ ~k.lower /\ k.name = None /\ k.keyword \in {"global", "defaults", "backend"}
  \/ k \in Processed
     /\ k \notin {Frontend(p) : p \in {q \in Built : Supported(q)}} \cup {Backend(u) : u \in Uuids}

\* The written sections that lines under key k are for.
Destinations(k) ==
  IF k = Global THEN {Lines(Global)}
  ELSE IF k \in {Defaults, NoSection} THEN {DefaultsText}
  ELSE IF k = AnyBackend THEN {BackendText(u) : u \in Uuids}
  ELSE IF k \in {Frontend(p) : p \in Built} THEN {FrontendText(k.name[2])}
  ELSE IF k \in {Backend(u) : u \in Uuids} THEN {BackendText(k.name)}
  ELSE {When(Extra(k), Lines(k))}

\* BuildCustomConfig and the template: the directives the user gives for a
\* section are written in that section, one after the other in the order given,
\* even if the section is opened several times or belongs to nothing that
\* the metadata's rules ask for; accept-proxy goes to the bind line.
CustomLinesWritten ==
  appended => \A k \in Sections : ~Unwritten(k) =>
    LET lines == Given(k) IN
    IF k \in {Frontend(p) : p \in Built}
    THEN /\ \A text \in Destinations(k) :
              text = OtherLines(lines)
         /\ AcceptProxy(k.name[2]) <=> AcceptProxyLine \in ToSet(lines)
    ELSE \A text \in Destinations(k) : Carries(text, lines)

\* GetDefaultConfig and BuildCustomConfig: a default line is written, once, if the
\* user has no line of its name in any part of its section, and is not written
\* if the user gives it a value anywhere, so that it does not undo that value.
DefaultsYield ==
  appended => \A k \in DOMAIN DefaultConfig : \A i \in DOMAIN DefaultConfig[k] :
    LET default == DefaultConfig[k][i]
        same == Named(Given(k), default.name)
        written == Named(Lines(k), default.name)
    IN /\ same = <<>> => written = <<default>>
       /\ (\E l \in ToSet(same) : l.value # None) => written = same

\* The comment at haproxy_config_util.go:128: "exclude values from defalt configs
\* if they are present in custom".  BuildCustomConfig does not exclude those the
\* user writes without a value.
PresentDefaultsExcluded ==
  appended => \A k \in DOMAIN DefaultConfig : \A i \in DOMAIN DefaultConfig[k] :
    LET same == Named(Given(k), DefaultConfig[k][i].name)
    IN same # <<>> => Named(Lines(k), DefaultConfig[k][i].name) = same

\* BuildConfigFromMetadata and BuildCustomConfig: a stopping container gets no new
\* sessions whatever the rules and the custom configuration say; every other
\* server has the weight of a rule that leads to it, unless that is 1 or no
\* weight HAProxy knows, when the user's server line decides.
WeightsAsRuled ==
  appended => \A u \in Uuids : Len(Lines(ServerKey(Backend(u)))) <= 1 =>
    \A ep \in Servers(WrittenBackend(u)) :
      LET leading == {r \in Taken : r.source = PortOf(u) /\ SamePath(WrittenBackend(u), r)}
          behind(r) == {c \in ToSet(EndpointsOf[r.service]) : c.ip = ep.ip}
          options == FlattenSeq(Lines(ServerKey(Backend(u))))
          custom == {o.value : o \in {x \in ToSet(options) : x.name = "weight"}}
          allowed(w) == IF w \in (0..256) \ {1} THEN {w}
                        ELSE IF custom = {} THEN {1} ELSE custom
      IN \E r \in leading : \E c \in behind(r) :
           EffectiveWeight(u, ep) \in IF c.state = "stopping" THEN {0} ELSE allowed(r.weight)
=============================================================================
