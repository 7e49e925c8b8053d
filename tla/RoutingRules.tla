---------------------------- MODULE RoutingRules ----------------------------
(***************************************************************************)
(* From the port rules of the load balancer's metadata to the order in     *)
(* which HAProxy tries them: processSelector and BuildConfigFromMetadata   *)
(* of controller/rancher/rancher.go, the order of config.BackendServices,  *)
(* and the frontends of haproxy_template.cfg.                              *)
(*                                                                         *)
(* The rules of one port have one protocol.  A host name with a wildcard   *)
(* is longer than two characters.  Paths are sequences of segments.        *)
(* The order of the servers of a backend is left out.                      *)
(***************************************************************************)
EXTENDS Selectors, Integers

CONSTANTS
  Inputs,      \* metadata of the load balancer: its rules, in order, its labels,
               \* stickiness policy and custom configuration
  Ports,       \* source ports, a sequence, in the order of their frontends
  Protocol,    \* Protocol[p]: the protocol of the rules of source port p
  LocalServices, \* the services of this environment, a sequence of their names
  Environments,  \* those of all regions, a sequence: region, name and services
  OwnRegion,     \* the region of this environment
  Services,    \* Services[s]: service s, or the one container a rule names
  Formulate(_, _, _), \* FormulateBackendName: what is left of port, host, path
  None         \* no host name, no name given, no region, no environment, no service, ...

HttpLike == {"http", "https", "sni"}
Preferences == {"any", "only-local", "prefer-local"}
Forms == {"eq", "end", "beg"}
Kinds == {"service", "loadBalancerService", "externalService", "dnsService", "container"}
RuleFields ==
  {"source", "host", "form", "path", "target", "priority", "weight", "service", "name",
   "selector", "region", "environment"}
IsSequence(s) == s \in Seq(ToSet(s))

ASSUME PortsAssumption ==
  /\ IsSequence(Ports) /\ 0 \notin ToSet(Ports)
  /\ \A i, j \in DOMAIN Ports : i # j => Ports[i] # Ports[j]
  /\ Protocol \in [ToSet(Ports) -> HttpLike \cup {"tcp", "tls", "udp"}]
ASSUME InputsAssumption ==
  \A m \in Inputs :
    /\ m.preference \in Preferences /\ m.skipTargetRules \in BOOLEAN
    /\ IsSequence(m.rules)
    /\ \A r \in ToSet(m.rules) :
         /\ DOMAIN r = RuleFields /\ IsSequence(r.path) /\ IsSequence(r.selector)
         /\ r.source \in ToSet(Ports) \cup {0}
         /\ r.priority \in Nat /\ r.weight \in Int
         /\ r.form \in IF r.host = None THEN {"eq"} ELSE Forms
         /\ r.selector = <<>> => r.service \in DOMAIN Services
\* A rule of a service's own has the fields of a rule, too; links do not lead in
\* a circle, which getServiceEndpoints would follow for ever.
ASSUME ServicesAssumption ==
  /\ None \notin DOMAIN Services
  /\ LocalServices \in Seq(DOMAIN Services)
  /\ IsSequence(Environments)
  /\ \A e \in ToSet(Environments) : e.services \in Seq(DOMAIN Services)
  /\ \A s \in DOMAIN Services :
       /\ Services[s].kind \in Kinds
       /\ IsSequence(Services[s].containers) /\ IsSequence(Services[s].ips)
       /\ \A l \in Services[s].labels : l = <<l[1], l[2]>>
       /\ IsSequence(Services[s].rules)
       /\ \A r \in ToSet(Services[s].rules) : r.form \in Forms
       /\ Services[s].links \in Seq(DOMAIN Services)
  /\ \A linked \in SUBSET DOMAIN Services : linked # {} =>
       \E s \in linked : ToSet(Services[s].links) \cap linked = {}

VARIABLES
  metadata,   \* what CollectLBMetadata has read
  read,       \* index of the rule processSelector looks at next
  portRules,  \* lbMeta.PortRules when selectors have been replaced
  next,       \* index of the rule that is looked at next
  frontends,  \* frontends[p]: the BackendServices of source port p
  sorted,     \* sort.Sort has been called
  \* history
  unread      \* indices of rules whose environment could not be read

vars == <<metadata, read, portRules, next, frontends, sorted, unread>>

-----------------------------------------------------------------------------
(* processSelector.                                                        *)

\* GetServicesFromRegionEnvironment and GetServicesInLocalRegion of the metadata
\* client: nothing is found in an environment that does not exist.
InEnvironment(region, name) ==
  LET there == IF region = None THEN OwnRegion ELSE region
      found == {i \in DOMAIN Environments :
                  Environments[i].region = there /\ Environments[i].name = name}
  IN IF found = {} THEN <<>> ELSE Environments[Min(found)].services

\* GetRegionServices: for a region without an environment the services of this
\* one are taken.
ServicesOf(region, environment) ==
  IF environment = None THEN LocalServices ELSE InEnvironment(region, environment)

\* getServiceName, and what GetService finds under that name.  Where only the
\* region is given the name has an empty part, and the lookup, in an environment
\* of that region without a name, finds no service.
NameFor(r, s) == IF r.region # None /\ r.environment = None THEN None ELSE s

\* A rule for a service that the selector of rule r has found.
ForService(r, s) ==
  [r EXCEPT !.service = NameFor(r, s), !.priority = 0, !.selector = <<>>,
    !.region = None, !.environment = None]

\* One of the rules of the service's own, unless they are to be skipped.
OwnRule(r, s, own) ==
  LET skipped == metadata.skipTargetRules /\ Services[s].kind = "loadBalancerService" IN
  [ForService(r, s) EXCEPT
     !.target = own.target, !.name = own.name,
     !.host = IF skipped THEN None ELSE own.host,
     !.form = IF skipped THEN "eq" ELSE own.form,
     !.path = IF skipped THEN <<>> ELSE own.path]

Selected(r, s) ==
  LET own == Services[s].rules IN
  IF ~IsSelectorMatch(r.selector, Services[s].labels) THEN <<>>
  ELSE IF own # <<>> THEN [i \in DOMAIN own |-> OwnRule(r, s, own[i])]
  ELSE IF r.target # 0 THEN <<ForService(r, s)>>
  ELSE <<>>

-----------------------------------------------------------------------------
(* The endpoints of a service.                                             *)

Usable(c) == c.state \in {"running", "starting", "stopping"}
Contingency(c) == metadata.preference # "any" /\ ~c.local

\* The elements of a sequence that are in S.
Those(seq, S) == FlattenSeq([i \in DOMAIN seq |-> IF seq[i] \in S THEN <<seq[i]>> ELSE <<>>])

\* getRegularServiceEndpoints, and getContainerEndpoint for a container, whose
\* host does not matter.
Candidates(s) ==
  LET usable == {c \in ToSet(s.containers) : Usable(c)}
      near == {c \in usable : ~Contingency(c)}
      all == s.kind = "container" \/ (near = {} /\ metadata.preference = "prefer-local")
  IN Those(s.containers, IF all THEN usable ELSE near)

\* getExternalServiceEndpoints: addresses, and a host name that HAProxy resolves.
External(s) ==
  [i \in DOMAIN s.ips |-> [ip |-> s.ips[i], state |-> "running"]]
    \o IF s.cname = None THEN <<>> ELSE <<[ip |-> s.cname, state |-> "cname"]>>

Direct(s) == IF s.kind = "externalService" THEN External(s) ELSE Candidates(s)

\* getServiceEndpoints: those of an alias are those of its links, be these
\* active or not.  (Links in a circle would be followed for ever.)
EndpointsOf[s \in DOMAIN Services] ==
  IF Services[s].kind = "dnsService"
  THEN FlattenSeq([i \in DOMAIN Services[s].links |-> EndpointsOf[Services[s].links[i]]])
  ELSE Direct(Services[s])

Server(c, r) ==
  [ip |-> c.ip, port |-> r.target, cname |-> c.state = "cname",
   weight |-> IF c.state = "stopping" THEN 0 ELSE r.weight]

Endpoints(r) ==
  LET found == EndpointsOf[r.service] IN [i \in DOMAIN found |-> Server(found[i], r)]

-----------------------------------------------------------------------------
(* The backends of the rules.                                              *)

\* Host and path count for some protocols only.
Pattern(r) ==
  IF Protocol[r.source] \in HttpLike THEN [host |-> r.host, form |-> r.form, path |-> r.path]
  ELSE [host |-> None, form |-> "eq", path |-> <<>>]

\* pathUUID, built when the wildcard has been taken off the host.
SamePath(b, r) == b.host = Pattern(r).host /\ b.path = Pattern(r).path

NameOf(r) ==
  IF r.name = None THEN Formulate(r.source, Pattern(r).host, Pattern(r).path) ELSE r.name

\* A plausible mistake: the comparator is not passed on.
NewBackendExact(r) ==
  [host |-> Pattern(r).host, path |-> Pattern(r).path, form |-> "eq", priority |-> r.priority,
   uuid |-> NameOf(r), check |-> Services[r.service].check, servers |-> Endpoints(r)]

NewBackend(r) ==
  [host |-> Pattern(r).host, path |-> Pattern(r).path, form |-> Pattern(r).form,
   priority |-> r.priority, uuid |-> NameOf(r), check |-> Services[r.service].check,
   servers |-> Endpoints(r)]

IPs(servers) == {servers[i].ip : i \in DOMAIN servers}

\* A plausible mistake: endpoints the backend already has are added again.
MergedDuplicating(b, r) == [b EXCEPT !.servers = @ \o Endpoints(r)]

\* Another rule for the same path adds the endpoints whose address is not there
\* yet, whatever their port.
AddMissing(servers, ep) == IF ep.ip \in IPs(servers) THEN servers ELSE Append(servers, ep)
AddEndpoints(servers, eps) == FoldLeft(AddMissing, servers, eps)
Merged(b, r) == [b EXCEPT !.servers = AddEndpoints(@, Endpoints(r))]

-----------------------------------------------------------------------------
(* BackendServices.Less and the insertion sort that sort.Sort is for up to *)
(* twelve elements.                                                        *)

\* The order without the priorities.
LessByPattern(a, b) ==
  \/ /\ a.host # None /\ a.form = "eq"
     /\ a.path # <<>> \/ b.host = None \/ b.form # "eq"
  \/ /\ a.host # None /\ a.form # "eq"
     /\ b.host = None \/ (b.form # "eq" /\ a.path # <<>> /\ b.path = <<>>)
  \/ a.host = None /\ a.path # <<>> /\ b.host = None

\* A plausible mistake: the wildcard of the other rule is not looked at.
LessIgnoringOther(a, b) ==
  IF a.priority > 0 THEN b.priority = 0 \/ a.priority < b.priority
  ELSE /\ b.priority = 0
       /\ \/ a.host # None /\ a.form = "eq" /\ (a.path # <<>> \/ b.host = None)
          \/ a.host # None /\ a.form # "eq" /\ (b.host = None \/ (a.path # <<>> /\ b.path = <<>>))
          \/ a.host = None /\ a.path # <<>> /\ b.host = None

Less(a, b) ==
  IF a.priority > 0 THEN b.priority = 0 \/ a.priority < b.priority
  ELSE b.priority = 0 /\ LessByPattern(a, b)

\* b moves to the left for as long as it is less than its neighbour.
InsertSorted(seq, b) ==
  LET stop == Max({0} \cup {i \in DOMAIN seq : ~Less(b, seq[i])})
  IN SubSeq(seq, 1, stop) \o <<b>> \o SubSeq(seq, stop + 1, Len(seq))

Sort(seq) == FoldLeft(InsertSorted, <<>>, seq)

-----------------------------------------------------------------------------
(* BuildConfigFromMetadata.                                                *)

Init ==
  /\ metadata \in Inputs
  /\ read = 1
  /\ portRules = <<>>
  /\ next = 1
  /\ frontends = [p \in ToSet(Ports) |-> <<>>]
  /\ sorted = FALSE
  /\ unread = {}

Reading == read <= Len(metadata.rules)
LBRule == metadata.rules[read]

KeepRule ==
  /\ Reading
  /\ LBRule.selector = <<>>
  /\ portRules' = Append(portRules, LBRule)
  /\ read' = read + 1
  /\ UNCHANGED <<metadata, next, frontends, sorted, unread>>

SelectServices ==
  /\ Reading
  /\ LBRule.selector # <<>>
  /\ LET services == ServicesOf(LBRule.region, LBRule.environment)
         selected == [i \in DOMAIN services |-> Selected(LBRule, services[i])]
     IN portRules' = portRules \o FlattenSeq(selected)
  /\ read' = read + 1
  /\ UNCHANGED <<metadata, next, frontends, sorted, unread>>

\* Nothing is selected in another environment whose services cannot be read; without those of this one there is no configuration at all.
CannotSelect ==
  /\ Reading
  /\ LBRule.selector # <<>> /\ LBRule.environment # None
  /\ unread' = unread \cup {read}
  /\ read' = read + 1
  /\ UNCHANGED <<metadata, portRules, next, frontends, sorted>>

Looking == ~Reading /\ next <= Len(portRules)
Rule == portRules[next]

\* GetService fails.
Unknown(r) == r.source # 0 /\ r.service = None

\* BuildConfigFromMetadata returns the error: there is no configuration.
Failed == Looking /\ Unknown(Rule)

\* There is no source port, the rule's service is not active, or its container
\* has no endpoint.
Skipped(r) ==
  \/ r.source = 0
  \/ ~Services[r.service].active
  \/ Services[r.service].kind = "container" /\ Endpoints(r) = <<>>

SkipRule ==
  /\ Looking
  /\ ~Unknown(Rule) /\ Skipped(Rule)
  /\ next' = next + 1
  /\ UNCHANGED <<metadata, read, portRules, frontends, sorted, unread>>

MergeRule ==
  /\ Looking
  /\ ~Unknown(Rule) /\ ~Skipped(Rule)
  /\ \E i \in DOMAIN frontends[Rule.source] :
       /\ SamePath(frontends[Rule.source][i], Rule)
       /\ frontends' = [frontends EXCEPT ![Rule.source][i] = Merged(@, Rule)]
  /\ next' = next + 1
  /\ UNCHANGED <<metadata, read, portRules, sorted, unread>>

\* A plausible mistake: the backend is looked up by path and wildcard.
AddRuleByForm ==
  /\ Looking
  /\ ~Unknown(Rule) /\ ~Skipped(Rule)
  /\ \A b \in ToSet(frontends[Rule.source]) : ~(SamePath(b, Rule) /\ b.form = Rule.form)
  /\ frontends' = [frontends EXCEPT ![Rule.source] = Append(@, NewBackend(Rule))]
  /\ next' = next + 1
  /\ UNCHANGED <<metadata, read, portRules, sorted, unread>>

AddRule ==
  /\ Looking
  /\ ~Unknown(Rule) /\ ~Skipped(Rule)
  /\ \A b \in ToSet(frontends[Rule.source]) : ~SamePath(b, Rule)
  /\ frontends' = [frontends EXCEPT ![Rule.source] = Append(@, NewBackend(Rule))]
  /\ next' = next + 1
  /\ UNCHANGED <<metadata, read, portRules, sorted, unread>>

SortBackends ==
  /\ ~Reading /\ ~Looking
  /\ ~sorted
  /\ frontends' = [p \in ToSet(Ports) |-> Sort(frontends[p])]
  /\ sorted' = TRUE
  /\ UNCHANGED <<metadata, read, portRules, next, unread>>

Next ==
  \/ KeepRule \/ SelectServices \/ CannotSelect
  \/ SkipRule \/ MergeRule \/ AddRule
  \/ SortBackends

Spec == Init /\ [][Next]_vars

-----------------------------------------------------------------------------
(* The written configuration: haproxyConfig.write and its template.        *)

\* Frontends of other protocols are not written.
Supported(p) == Protocol[p] # "udp"

\* A request to a port for a host name, or one with something before or after
\* it.  Only for http is the name in the request, and for sni in the hello.
Names == {r.host : r \in UNION {ToSet(m.rules) : m \in Inputs}}
Paths == {r.path : r \in UNION {ToSet(m.rules) : m \in Inputs}}
Requests(p) == [port : {p}, host : Names, extra : {"none", "before", "after"}, path : Paths]

HostMatches(host, form, q) ==
  /\ host = q.host
  /\ \/ q.extra = "none"
     \/ q.extra = "before" /\ form = "end"
     \/ q.extra = "after" /\ form = "beg"

\* The ACL of sni does not look at the comparator.
HostAcl(b, q) == HostMatches(b.host, IF Protocol[q.port] = "sni" THEN "eq" ELSE b.form, q)

PathMatches(path, q) == IsPrefix(path, q.path)

\* ACLs are named after the backend: those of the same name are alternatives.
Acls(b, p) == {c \in ToSet(frontends[p]) : c.uuid = b.uuid}
Matches(b, q) ==
  /\ b.host # None => \E c \in Acls(b, q.port) : c.host # None /\ HostAcl(c, q)
  /\ b.path # <<>> => \E c \in Acls(b, q.port) : c.path # <<>> /\ PathMatches(c.path, q)

\* The backends a request may be given to: without one it is not answered.
Matching(q) ==
  {i \in DOMAIN frontends[q.port] : Supported(q.port) /\ Matches(frontends[q.port][i], q)}
Conditional(q) ==
  {i \in Matching(q) : frontends[q.port][i].host # None \/ frontends[q.port][i].path # <<>>}

\* use_backend in the order of the backends, then default_backend.
Chosen(q) ==
  frontends[q.port][Min(IF Conditional(q) # {} THEN Conditional(q) ELSE Matching(q))]

\* Of several backends of one name, on one port or on several, the first is
\* written.
AllBackends ==
  FlattenSeq([i \in DOMAIN Ports |-> IF Supported(Ports[i]) THEN frontends[Ports[i]] ELSE <<>>])
WrittenBackend(u) == AllBackends[Min({i \in DOMAIN AllBackends : AllBackends[i].uuid = u})]

-----------------------------------------------------------------------------
(* Properties.                                                             *)

Servers(b) == ToSet(b.servers)
Everywhere(Holds(_, _)) == \A p \in ToSet(Ports) : \A b \in ToSet(frontends[p]) : Holds(p, b)

DistinctPaths(backends) ==
  \A i, j \in DOMAIN backends :
    i # j => <<backends[i].host, backends[i].path>> # <<backends[j].host, backends[j].path>>

\* No two backends of a port are for the same path.
TypeOK ==
  /\ metadata \in Inputs
  /\ read \in 1..(Len(metadata.rules) + 1)
  /\ next \in 1..(Len(portRules) + 1)
  /\ sorted \in BOOLEAN
  /\ unread \subseteq DOMAIN metadata.rules
  /\ \A p \in ToSet(Ports) : DistinctPaths(frontends[p])

\* The order the comment in Less describes.
Class(b) ==
  CASE b.host # None /\ b.form = "eq" /\ b.path # <<>> -> 1
    [] b.host # None /\ b.form = "eq" /\ b.path = <<>> -> 2
    [] b.host # None /\ b.form # "eq" /\ b.path # <<>> -> 3
    [] b.host # None /\ b.form # "eq" /\ b.path = <<>> -> 4
    [] b.host = None /\ b.path # <<>> -> 5
    [] OTHER -> 6

InOrder(a, b) ==
  IF a.priority > 0 THEN b.priority = 0 \/ a.priority <= b.priority
  ELSE b.priority = 0 /\ Class(a) <= Class(b)

\* BackendServices.Less is not a strict order, yet what sort.Sort makes of it
\* is sorted: rules with a priority first, by priority, then by class.
InDocumentedOrder ==
  sorted =>
    \A p \in ToSet(Ports) : \A i, j \in DOMAIN frontends[p] :
      i < j => InOrder(frontends[p][i], frontends[p][j])

Taken == {portRules[i] : i \in {j \in 1..(next - 1) : ~Skipped(portRules[j])}}

\* The endpoints of a service have different addresses: not so those of an alias
\* that leads to one service in two ways.
Distinct(servers) == \A i, j \in DOMAIN servers : i # j => servers[i].ip # servers[j].ip

\* BuildConfigFromMetadata: when rules are merged, a backend has every address
\* of the rules for its path, none of them twice unless one service has it
\* twice, each with the port and the weight of one of these rules, but a weight
\* of zero if it is stopping.
MergedTargetsComplete ==
  ~Reading /\ ~Looking => LET taken == Taken IN Everywhere(LAMBDA p, b :
    LET own == {r \in taken : r.source = p /\ SamePath(b, r)} IN
    /\ IPs(b.servers) = UNION {IPs(Endpoints(r)) : r \in own}
    /\ (\A r \in own : Distinct(Endpoints(r))) => Distinct(b.servers)
    /\ \A ep \in Servers(b) : \E r \in own : ep \in ToSet(Endpoints(r)))

\* The patterns under which rule r of the metadata asks for requests to go to
\* service s, if its selector is a list of equations.
AskedFor(r, s) ==
  LET labels == Services[s].labels  own == Services[s].rules IN
  IF r.selector = <<>> THEN {Pattern(x) : x \in {y \in {r} : y.service = s}}
  ELSE IF s \notin ToSet(ServicesOf(r.region, r.environment)) \/ ~Asks(r.selector, labels)
    THEN {}
  ELSE IF own = <<>> THEN {Pattern(x) : x \in {y \in {r} : y.target # 0}}
  ELSE IF metadata.skipTargetRules /\ Services[s].kind = "loadBalancerService"
    THEN {Pattern([r EXCEPT !.host = None, !.form = "eq", !.path = <<>>])}
  ELSE {Pattern([r EXCEPT !.host = o.host, !.form = o.form, !.path = o.path]) : o \in ToSet(own)}

\* A rule whose services are named by a region and no environment.
Unresolvable(r) == r.selector # <<>> /\ r.region # None /\ r.environment = None

\* The rules that could be read and have a port, the services that have what it
\* takes for a backend, and those wanted on port p under pattern f.
ReadOnes == {r \in {metadata.rules[i] : i \in DOMAIN metadata.rules \ unread} : r.source # 0}
Able ==
  {s \in DOMAIN Services :
     Services[s].active /\ (Services[s].kind = "container" => Candidates(Services[s]) # <<>>)}
Wanted(p, f) == {s \in Able : \E r \in ReadOnes : r.source = p /\ f \in AskedFor(r, s)}
PatternOf(b, f) == [host |-> b.host, form |-> f, path |-> b.path]
AddressesOf(s) == {EndpointsOf[s][i].ip : i \in DOMAIN EndpointsOf[s]}
AddressesWanted(p, b) ==
  UNION {AddressesOf(s) : s \in UNION {Wanted(p, PatternOf(b, f)) : f \in Forms}}

\* processSelector and BuildConfigFromMetadata together: unless a rule selects
\* services of this environment by a region, which fails the whole build, there
\* is a configuration in which a backend has the addresses of exactly the
\* services that rules ask for, by name or by selector, under its host and path;
\* and there is one for every pattern with such a service.
TargetsAsAsked ==
  LET fatal == \E r \in ReadOnes, s \in DOMAIN Services : Unresolvable(r) /\ AskedFor(r, s) # {}
  IN (\A r \in ReadOnes : r.selector # <<>> => IsEquations(r.selector)) =>
       /\ Failed => fatal
       /\ sorted =>
            /\ ~fatal
            /\ Everywhere(LAMBDA p, b : IPs(b.servers) = AddressesWanted(p, b))
            /\ \A r \in ReadOnes, s \in Able : \A f \in AskedFor(r, s) :
                 \E b \in ToSet(frontends[r.source]) : b.host = f.host /\ b.path = f.path

RuleMatches(r, q) ==
  /\ r.source = q.port
  /\ Pattern(r).host # None => HostMatches(r.host, r.form, q)
  /\ PathMatches(Pattern(r).path, q)

\* No two rules of a port differ in nothing but the wildcard of the host, those
\* for sni have none, and no two paths or ports have backends of one name.
Unambiguous ==
  LET taken == Taken  all == AllBackends IN
  /\ \A r \in taken : Protocol[r.source] = "sni" => r.form = "eq"
  /\ \A r, s \in taken :
       r.source = s.source /\ r.host = s.host /\ r.path = s.path => r.form = s.form
  /\ \A i, j \in DOMAIN all : i # j => all[i].uuid # all[j].uuid

\* BuildConfigFromMetadata, Less and the template together: unless rules are
\* ambiguous, a request gets a server of a rule it matches, and gets one
\* whenever there is such a rule.
RoutedByMatchingRule ==
  sorted /\ Unambiguous =>
    LET taken == Taken IN
    \A p \in {r.source : r \in taken} : \A q \in Requests(p) :
      LET fit == {r \in taken : Supported(p) /\ RuleMatches(r, q)}
          servers == WrittenBackend(Chosen(q).uuid).servers
      IN IF fit = {} THEN Matching(q) = {}
         ELSE Matching(q) # {} /\ IPs(servers) \subseteq UNION {IPs(Endpoints(r)) : r \in fit}
=============================================================================
