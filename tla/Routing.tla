------------------------------ MODULE Routing ------------------------------
(***************************************************************************)
(* What becomes of the rules: the managed groups, followed by the user's   *)
(* own rules in v2rayN, are read by the next preparation (_rules_from_json *)
(* in v2rayn_source.py) and translated into Mihomo's (mihomo_builder.py),  *)
(* which decide where a connection goes.                                   *)
(***************************************************************************)
EXTENDS RouteRules

CONSTANT Base       \* the user's own rules in v2rayN

(* A connection goes to a name or to an address: the rules on addresses    *)
(* are no-resolve.  The places are named for the forms that tell them      *)
(* apart; "below" is a name below the host.                                *)
Connections == [to : {"host", "below", "code", "network", "country", "elsewhere"},
                process : {"program", "other"}, port : {"443", "other"}, network : {"TCP", "UDP"}]

V2rayNRule == [enabled : BOOLEAN, outbound : Outbound \cup {"block"}, values : SUBSET Value,
               port : SUBSET {"443"}, network : SUBSET {"TCP", "UDP"}]

ASSUME RoutingAssumption == Base \in Seq(V2rayNRule)

-----------------------------------------------------------------------------
(* Reading the database.                                                   *)

(* The groups as rules: an empty one is not written.                       *)
Group(o, values) ==
    IF values = {} THEN <<>>
    ELSE <<[enabled |-> TRUE, outbound |-> o, values |-> values, port |-> {}, network |-> {}]>>

GroupRules(g) == Group("proxy", g["proxy"]) \o Group("direct", g["direct"])

(* Mutant: the user's rules stay in front.                                 *)
DatabaseBaseFirst(g) == Base \o GroupRules(g)

(* updated_items.                                                          *)
Database(g) == GroupRules(g) \o Base

(* Mutant: switched-off rules are read too.                                *)
ImportedWithDisabled(items) == DOMAIN items

(* _rules_from_json: which of the rules are read, in the order they have.  *)
Imported(items) == {i \in DOMAIN items : items[i].enabled}

-----------------------------------------------------------------------------
(* _translate_rule.                                                        *)

Name(t) ==
    CASE Prefix(t) = "geosite"  -> <<"GEOSITE", Without(t)>>
      [] Prefix(t) = "full"     -> <<"DOMAIN", Without(t)>>
      [] Prefix(t) = "domain"   -> <<"DOMAIN-SUFFIX", Without(t)>>
      [] Prefix(t) = "regexp"   -> <<"DOMAIN-REGEX", Without(t)>>
      [] t.prefixes = <<>> /\ t.form \notin {"code", "broken"} -> <<"DOMAIN-SUFFIX", Starless(t)>>
      [] OTHER                  -> <<"DOMAIN-KEYWORD", t>>

Address(t) == IF Prefix(t) = "geoip" THEN <<"GEOIP", Without(t)>> ELSE <<"IP-CIDR", t>>

(* ip_network raises: there is no configuration at all.                    *)
Unreadable(r) == \E v \in r.values : v.field = "ip" /\ Prefix(v.text) # "geoip" /\ v.text.form # "network"

(* One entry for each value, whatever the field.                           *)
Entries(r) ==
    {Name(v.text) : v \in {x \in r.values : x.field = "domain"}}
    \cup {Address(v.text) : v \in {x \in r.values : x.field = "ip"}}
    \cup {<<"PROCESS-NAME", v.text>> : v \in {x \in r.values : x.field = "process"}}
    \cup {<<"DST-PORT", p>> : p \in r.port} \cup {<<"NETWORK", n>> : n \in r.network}

(* _target.                                                                *)
Target(o) == CASE o = "direct" -> "DIRECT-BOUND" [] o = "block" -> "REJECT" [] OTHER -> "PROXY"

(* Mihomo: does the entry hold for the connection?                         *)
Meets(c, e) ==
    CASE e[1] = "DST-PORT"      -> c.port = e[2]
      [] e[1] = "NETWORK"       -> c.network = e[2]
      [] e[1] = "PROCESS-NAME"  -> c.process = e[2].form
      [] e[1] = "GEOIP"         -> c.to = "country" /\ e[2].form = "code"
      [] e[1] = "DOMAIN-SUFFIX" -> e[2].form = "host" /\ c.to \in {"host", "below"}
      [] e[1] \in {"DOMAIN", "GEOSITE", "IP-CIDR"} -> c.to = e[2].form
      [] OTHER                  -> FALSE

Takes(r, c) == \E e \in Entries(r) : Meets(c, e)

(* Mihomo: the first entry that holds decides; the last one is MATCH,PROXY.*)
Hits(items, c) == {i \in Imported(items) : Takes(items[i], c)}

Route(items, c) ==
    IF \E i \in Imported(items) : Unreadable(items[i]) THEN "nowhere"
    ELSE IF Hits(items, c) = {} THEN "PROXY"
    ELSE Target(items[Min(Hits(items, c))].outbound)

-----------------------------------------------------------------------------
(* Properties.                                                             *)

(* What a line says of a connection.                                       *)
Says(t, c) == IF Prefix(t) = "process" THEN c.process = "program"
              ELSE CASE t.form = "code"    -> c.to = "code"
                     [] t.form = "network" -> c.to = "network"
                     [] OTHER              -> c.to \in {"host", "below"}

AsTyped(g) ==
    LET Typed(o) == {c \in Connections : \E t \in LinesOf(o) : Says(t, c)} IN
    /\ \A c \in Typed("proxy") : Route(Database(g), c) = "PROXY"
    /\ \A c \in Typed("direct") \ Typed("proxy") : Route(Database(g), c) = "DIRECT-BOUND"

(* Once the lines of the window are applied, what they say of a connection *)
(* is what happens to it, whichever spelling was used, whatever other line *)
(* it was merged with and whatever v2rayN's own rules say; if lines        *)
(* disagree, a Proxy line decides.                                         *)
RoutesAsTyped == [][Apply => AsTyped(groups')]_vars

(* v2rayN: a value, and a rule: its values are alternatives, its port and  *)
(* its network are further conditions.                                     *)
Covers(v, c) ==
    CASE v.field = "process" -> c.process = v.text.form
      [] v.field = "ip"      -> c.to = IF Prefix(v.text) = "geoip" THEN "country" ELSE v.text.form
      [] v.field = "domain"  ->
            CASE Prefix(v.text) = "geosite" -> c.to = "code"
              [] Prefix(v.text) = "full"    -> c.to = "host"
              [] OTHER                      -> c.to \in {"host", "below"}

Applies(r, c) ==
    /\ r.enabled /\ <<r.values, r.port, r.network>> # <<{}, {}, {}>>
    /\ r.values # {} => \E v \in r.values : Covers(v, c)
    /\ r.port # {} => c.port \in r.port
    /\ r.network # {} => c.network \in r.network

(* v2rayN: the outbound of the first rule that applies, else the proxy.    *)
InV2rayN(rules, c) ==
    LET hits == {i \in DOMAIN rules : Applies(rules[i], c)}
    IN  IF hits = {} THEN "proxy" ELSE rules[Min(hits)].outbound

(* A connection that no managed group takes goes where v2rayN would send   *)
(* it: the user's rules keep their order and their meaning, and a rule     *)
(* that is switched off has none.                                          *)
SameRoute ==
    \A c \in Connections :
        (\A r \in Range(GroupRules(groups)) : ~Takes(r, c))
            => Route(Database(groups), c) = Target(InV2rayN(Base, c))
=============================================================================
