-------------------------- MODULE MCRoutingRules --------------------------
(***************************************************************************)
(* An instance of CustomConfig, with three kinds of metadata.  One has the  *)
(* rules of one port for http: one host name with and without wildcards,   *)
(* two paths of which one extends the other, priorities, rules that share  *)
(* a path or a backend name, and a service in every state that matters.    *)
(* Another has selectors, aliases, external services, a second region and  *)
(* other ports, under every setting of the load balancer's labels.  The    *)
(* third has few rules, and custom configuration in any order.             *)
(***************************************************************************)
EXTENDS CustomConfig

CONSTANTS
  MaxRules,    \* bounds the rules for http ...
  MaxOrdered,  \* ... and those of them that differ in their order
  MaxSelected, \* bounds the rules of the other kind
  MaxLines,    \* bounds the lines of custom configuration ...
  MaxRepeated  \* ... and those in which the same few sections come again

Container(i, s, l) == [ip |-> i, state |-> s, local |-> l]

Plain ==
  [kind |-> "service", active |-> TRUE, containers |-> <<>>, links |-> <<>>, ips |-> <<>>,
   cname |-> None, check |-> None, labels |-> {}, rules |-> <<>>]

ForPath(h, f, p, s) ==
  [source |-> 80, host |-> h, form |-> f, path |-> p, target |-> 8080, priority |-> 0, weight |-> 1,
   service |-> s, name |-> None, selector |-> <<>>,
   region |-> None, environment |-> None]

AllServices ==
  [web |-> [Plain EXCEPT
     !.containers = <<Container(1, "running", TRUE), Container(2, "stopping", TRUE),
                      Container(3, "stopped", TRUE)>>,
     !.check = 2000,
     !.labels = {<<"app", "x">>, <<"tier", "y">>}],
   api |-> [Plain EXCEPT
     !.containers = <<Container(2, "stopping", FALSE), Container(4, "starting", FALSE)>>,
     !.labels = {<<"app", "x">>},
     !.rules = <<[ForPath("h", "eq", <<"p">>, "api") EXCEPT !.target = 9090, !.name = <<"api">>],
                 ForPath("g", "end", <<>>, "api")>>],
   old |-> [Plain EXCEPT
     !.active = FALSE, !.containers = <<Container(5, "running", TRUE)>>, !.labels = {<<"app", "x">>}],
   one |-> [Plain EXCEPT !.kind = "container", !.containers = <<Container(6, "running", FALSE)>>],
   dead |-> [Plain EXCEPT !.kind = "container", !.containers = <<Container(7, "stopped", TRUE)>>],
   out |-> [Plain EXCEPT !.kind = "externalService", !.ips = <<1, 8>>, !.cname = 10],
   alias |-> [Plain EXCEPT !.kind = "dnsService", !.links = <<"old", "twice", "web">>],
   twice |-> [Plain EXCEPT !.kind = "dnsService", !.links = <<"web", "out">>],
   lb |-> [Plain EXCEPT
     !.kind = "loadBalancerService", !.containers = <<Container(9, "running", TRUE)>>,
     !.labels = {<<"app", "x">>, <<"tier", "y">>},
     !.rules = <<ForPath("h", "beg", <<"p">>, "lb")>>]]

Local == <<"web", "old", "api", "out">>

\* Two environments have the same name, in different regions.
AllEnvironments ==
  <<[region |-> "here", name |-> "own", services |-> Local],
    [region |-> "east", name |-> "far", services |-> <<"lb", "alias">>],
    [region |-> "here", name |-> "far", services |-> <<"web", "lb">>]>>

Prior(r, n) == [r EXCEPT !.priority = n]

\* A rule of every class, and of every priority.
OrderedRules ==
  {ForPath("h", "eq", <<>>, "web"), ForPath("h", "eq", <<"p">>, "web"),
   ForPath("h", "end", <<>>, "api"), ForPath("h", "beg", <<"p">>, "web"),
   ForPath(None, "eq", <<"p">>, "one"), ForPath(None, "eq", <<>>, "one"),
   Prior(ForPath(None, "eq", <<"p", "q">>, "api"), 2),
   Prior(ForPath("g", "beg", <<>>, "web"), 1)}

HttpRules ==
  OrderedRules \cup
  {[ForPath("h", "eq", <<>>, "api") EXCEPT !.weight = 2],
   [ForPath("g", "eq", <<>>, "api") EXCEPT !.name = <<80, "h", <<"p">>>>],
   ForPath("g", "end", <<"p", "q">>, "api"), ForPath("h", "eq", <<"p", "q">>, "one"),
   ForPath("g", "eq", <<"p">>, "old"), ForPath("g", "eq", <<>>, "dead")}

SelectIn(r, text, region, environment) ==
  [r EXCEPT !.selector = text, !.region = region, !.environment = environment]
Select(r, text) == SelectIn(r, text, None, None)

SelectedRules ==
  {Select(ForPath("h", "eq", <<>>, None), <<"app", "=", "x">>),
   Select([ForPath("h", "eq", <<"p">>, None) EXCEPT !.target = 0], <<"app", "=", "x">>),
   Select(Prior(ForPath(None, "eq", <<>>, None), 1), <<"tier", "=", "y", ",", "app", "=", "x">>),
   SelectIn(ForPath("g", "eq", <<>>, None), <<"app", "=", "x">>, "east", "far"),
   SelectIn(ForPath("g", "eq", <<>>, None), <<"tier", "=", "y">>, None, "far"),
   SelectIn(ForPath("g", "eq", <<>>, None), <<"tier", "=", "y">>, "east", None),
   SelectIn(ForPath("g", "eq", <<>>, None), <<"tier", "=", "z">>, "east", None),
   SelectIn(ForPath("g", "eq", <<>>, None), <<"tier", "=", "y">>, "east", "own"),
   Select(ForPath("g", "eq", <<>>, None), <<"app", In, "(", "x", ",", "y", ")">>),
   Select(ForPath("g", "eq", <<>>, None), <<"tier", "!=", "y", ",">>),
   SelectIn([ForPath("h", "eq", <<>>, None) EXCEPT !.source = 443], <<"tier", "=", "y">>, "east", "far"),
   ForPath("h", "eq", <<>>, "alias"),
   [ForPath("h", "eq", <<>>, "out") EXCEPT !.target = 9090],
   [ForPath("h", "end", <<>>, "web") EXCEPT !.source = 443],
   [ForPath("g", "eq", <<>>, "web") EXCEPT !.source = 443, !.name = <<"api">>],
   [ForPath("h", "eq", <<"p">>, "web") EXCEPT !.source = 99],
   [ForPath("g", "eq", <<>>, "api") EXCEPT !.source = 99],
   [ForPath("h", "eq", <<>>, "web") EXCEPT !.source = 53],
   [ForPath("h", "eq", <<>>, "web") EXCEPT !.source = 0]}

\* Rules of two ports whose frontends are written and one whose is not; a
\* server with a weight of its own, and one with a weight out of bounds.
TwoBackends ==
  <<[ForPath("h", "eq", <<>>, "web") EXCEPT !.weight = 2],
    [ForPath("h", "eq", <<"p">>, "out") EXCEPT !.name = <<"api">>]>>

CustomisedRules ==
  {TwoBackends,
   <<[ForPath("g", "eq", <<>>, "api") EXCEPT !.weight = 300, !.name = <<"api">>],
     [ForPath("h", "eq", <<>>, "web") EXCEPT !.source = 53]>>,
   <<[ForPath(None, "eq", <<>>, "web") EXCEPT !.source = 99],
     [ForPath("h", "eq", <<>>, "api") EXCEPT !.source = 99, !.weight = 0]>>}

Open(k) == [kind |-> "section", key |-> k]

CustomLines ==
  {Open(Global), Open(Defaults), Open(AnyBackend), Open(InCapitals(Global)),
   Open(Frontend(80)), Open(Frontend(53)), Open(Backend(<<"api">>)),
   Open(Backend(<<80, "h", <<>>>>)), Open(Key("listen", None)),
   [kind |-> "blank"], [kind |-> "server", options |-> <<Directive("weight", 50)>>],
   AcceptProxyLine, Directive("maxconn", "100"), Directive("daemon", None),
   Directive("maxconn", None), Directive("retries", "9")}

FewLines ==
  {Open(Global), Open(AnyBackend), Open(Frontend(80)),
   Directive("maxconn", "100")}

SomeDefaults == [k \in {Global, Defaults, AnyBackend} |->
  CASE k = Global -> <<Directive("daemon", None), Directive("maxconn", "4096")>>
    [] k = Defaults -> <<Directive("maxconn", "4096"), Directive("retries", "3")>>
    [] OTHER -> <<Directive("http-request", "add-header")>>]

Policies == {None, [cookie |-> None], [cookie |-> "c"]}

AllInputs ==
  [rules : BoundedSeq(HttpRules, MaxRules) \cup BoundedSeq(OrderedRules, MaxOrdered),
   preference : {"prefer-local"}, skipTargetRules : {FALSE}, config : {<<>>}, sticky : {None}]
  \cup [rules : BoundedSeq(SelectedRules, MaxSelected), preference : {"any"},
        skipTargetRules : {FALSE}, config : {<<>>}, sticky : {None}]
  \cup [rules : BoundedSeq(SelectedRules \cup HttpRules, 2), preference : {"only-local"},
        skipTargetRules : BOOLEAN, config : {<<>>}, sticky : {None}]
  \cup [rules : {TwoBackends}, preference : {"any"}, skipTargetRules : {FALSE},
        config : BoundedSeq(CustomLines, MaxLines) \cup BoundedSeq(FewLines, MaxRepeated),
        sticky : {None}]
  \cup [rules : CustomisedRules, preference : {"any"}, skipTargetRules : {FALSE},
        config : BoundedSeq(CustomLines, 2), sticky : Policies]

\* Custom configuration with a line that has no value.
FlagInputs ==
  [rules : {TwoBackends}, preference : {"any"}, skipTargetRules : {FALSE},
   config : BoundedSeq({Open(Global), Directive("daemon", None)}, MaxLines), sticky : {None}]

\* 443 stands for sni, which has no paths, 99 for tcp and 53 for udp.
PortOrder == <<99, 80, 53, 443>>
ProtocolOf == [p \in {99, 80, 53, 443} |->
  CASE p = 80 -> "http" [] p = 443 -> "sni" [] p = 99 -> "tcp" [] OTHER -> "udp"]

\* Everything but letters and digits becomes an underscore; g and h stand for
\* names that differ in nothing else.
Formulated(port, h, p) == IF h = "g" THEN <<port, "h", p>> ELSE <<port, h, p>>
=============================================================================
