----------------------------- MODULE MCRouting -----------------------------
(* Routing for TLC: lines of different kinds, in front of rules as v2rayN  *)
(* ships them.                                                             *)
EXTENDS Routing

Of(prefixes, form) == [prefixes |-> prefixes, form |-> form]
In(field, prefixes, form) == [field |-> field, text |-> Of(prefixes, form)]

(* Two ways to say the same host, a list of hosts, a program.              *)
Ordinary == {Of(<<>>, "host"), Of(<<>>, "wild"), Of(<<"geosite">>, "code"), Of(<<"process">>, "program")}

(* A country's addresses.                                                  *)
Countries == {Of(<<"ip", "geoip">>, "code"), Of(<<>>, "host")}

(* Accepted as an address, but none.  A program with its directory, as     *)
(* v2rayN also takes it.                                                   *)
Misread == {Of(<<"ip">>, "host"), Of(<<"process">>, "path"), Of(<<>>, "wild")}

Site(o, on) == [enabled |-> on, outbound |-> o, values |-> {In("domain", <<"geosite">>, "code")},
                port |-> {}, network |-> {}]
Hosts(o, p) == [Site(o, TRUE) EXCEPT !.values = {In("domain", <<p>>, "host"), In("process", <<>>, "program")}]
Addresses(o) == [Site(o, TRUE) EXCEPT
    !.values = {In("ip", <<"geoip">>, "code"), In("ip", <<>>, "network")}]
Udp(o) == [Site(o, TRUE) EXCEPT !.values = {}, !.network = {"UDP"}]
Quic == [Udp("block") EXCEPT !.port = {"443"}]

(* Rules by place, program and network, in an order that matters.          *)
Own == <<Site("block", FALSE), Hosts("direct", "full"), Udp("block"), Addresses("direct"),
         Hosts("block", "domain"), Site("proxy", TRUE)>>

(* The rule that v2rayN's own rule sets begin with: UDP to port 443 is     *)
(* blocked.                                                                *)
Shipped == <<Quic, Site("direct", TRUE), Addresses("direct")>>

=============================================================================
