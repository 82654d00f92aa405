----------------------------- MODULE RouteRules -----------------------------
(***************************************************************************)
(* The route manager: v2rayN's managed groups are loaded into editors,     *)
(* edited as lines, merged with newly pasted lines, and written back       *)
(* (rule_importer.py, v2rayn_route_writer.py, _open_switchyomega_tool in   *)
(* tun_gui/app.py).                                                        *)
(*                                                                         *)
(* A text is kept as what the conversions look at: its prefixes, as in     *)
(* ip:geoip:cn, and the form of what is behind them.                       *)
(***************************************************************************)
EXTENDS SequencesExt

CONSTANTS
    Lines,          \* what the user may type or paste
    MaxLines        \* how many of them are in an editor at most (bound)

Forms == {
    "host",         \* www.example.com
    "wild",         \* *.example.com
    "local",        \* printer.local
    "network",      \* 10.0.0.0/8
    "path",         \* C:\chrome.exe
    "program",      \* chrome.exe
    "code",         \* cn
    "broken"}       \* what is left of a pattern without its stars

Marks == {"domain", "full", "ip", "process", "geoip", "geosite", "regexp"}

Text == [prefixes : Seq(Marks), form : Forms]

ASSUME RulesAssumption == Lines \subseteq Text /\ MaxLines \in Nat

VARIABLES
    groups,         \* the managed groups in the database
    boxes,          \* the lines of the Proxy and Direct editors
    input,          \* the new conditions; negated ones go to Direct
    edited          \* history: the editors do not show what was loaded last

vars == <<groups, boxes, input, edited>>

Outbound == {"proxy", "direct"}
Value == [field : {"domain", "ip", "process"}, text : Text]

Init ==
    /\ groups = [o \in Outbound |-> {}] /\ boxes = [o \in Outbound |-> {}]
    /\ input = {} /\ edited = FALSE

-----------------------------------------------------------------------------
(* From a line to a rule.                                                  *)

Prefix(t) == IF t.prefixes = <<>> THEN "" ELSE Head(t.prefixes)
Without(t) == [t EXCEPT !.prefixes = Tail(@)]
With(p, t) == [t EXCEPT !.prefixes = <<p>> \o @]

(* _normalize_entry: a known prefix decides, else the form.                *)
Kind(t) ==
    IF Prefix(t) \in {"domain", "full", "ip", "process"} THEN Prefix(t)
    ELSE IF t.prefixes = <<>> /\ t.form = "network" THEN "ip"
    ELSE CASE t.form \in {"wild", "local"} -> "domain"
           [] t.form = "path"              -> "process"
           [] OTHER                        -> "full"

Entry(t) == IF Kind(t) = Prefix(t) THEN Without(t) ELSE t

(* The stars are taken out, and then the dots in front.                    *)
Starless(t) == IF t.form # "wild" THEN t
               ELSE [t EXCEPT !.form = IF t.prefixes = <<>> THEN "host" ELSE "broken"]

(* parse_switchyomega_rules, for one line.                                 *)
Rule(o, t) ==
    [outbound |-> o,
     field |-> IF Kind(t) \in {"domain", "full"} THEN "domain" ELSE Kind(t),
     text  |-> CASE Kind(t) = "domain" -> With("domain", Starless(Entry(t)))
                 [] Kind(t) = "full"   -> With("full", Entry(t))
                 [] OTHER              -> Entry(t)]

(* _v2rayn_display_domain.                                                 *)
Display(t) == IF Prefix(t) \in {"domain", "full"} THEN Without(t) ELSE t

(* _canonical_domain.                                                      *)
Canonical(t) == LET host == Display(t) IN
                IF host.prefixes = <<>> THEN Starless(host) ELSE host

(* Mutant: the outbound is no part of the key.                             *)
KeyWithoutOutbound(r) ==
    <<r.field, IF r.field = "domain" THEN Canonical(r.text) ELSE r.text>>

Key(r) == <<r.outbound, r.field, IF r.field = "domain" THEN Canonical(r.text) ELSE r.text>>

(* merge_routing_rules: the first rule of a key stays.                     *)
First(rules, i) == \A k \in 1..(i - 1) : Key(rules[k]) # Key(rules[i])
Merged(rules)   == {rules[i] : i \in {j \in DOMAIN rules : First(rules, j)}}

(* _build_managed_rules.                                                   *)
Written(r) == [field |-> r.field, text |-> IF r.field = "domain" THEN Display(r.text) ELSE r.text]
Managed(rules, o) == {Written(r) : r \in {x \in rules : x.outbound = o}}

(* Mutant: processes are shown without their prefix.                       *)
LineWithoutProcess(v) == IF v.field = "domain" THEN Display(v.text) ELSE v.text

(* format_managed_rule_lines.                                              *)
Line(v) == CASE v.field = "domain"  -> Display(v.text)
             [] v.field = "ip"      -> v.text
             [] v.field = "process" -> With("process", v.text)

-----------------------------------------------------------------------------
(* The window.                                                             *)

(* load_managed_v2rayn_rules into the editors.                             *)
LoadCurrent ==
    /\ boxes' = [o \in Outbound |-> {Line(v) : v \in groups[o]}]
    /\ edited' = FALSE
    /\ UNCHANGED <<groups, input>>

AddLine(o, t) ==
    /\ Cardinality(boxes[o]) < MaxLines /\ t \notin boxes[o]
    /\ boxes' = [boxes EXCEPT ![o] = @ \cup {t}] /\ edited' = TRUE
    /\ UNCHANGED <<groups, input>>

RemoveLine(o, t) ==
    /\ t \in boxes[o]
    /\ boxes' = [boxes EXCEPT ![o] = @ \ {t}] /\ edited' = TRUE
    /\ UNCHANGED <<groups, input>>

Paste(o, t) ==
    /\ input' \in {{}, {[outbound |-> o, line |-> t]}} /\ input' # input
    /\ UNCHANGED <<groups, boxes, edited>>

Rules(o, lines) == {Rule(o, t) : t \in lines}
NewRules == {Rule(i.outbound, i.line) : i \in input}

(* The lines of both that are for one outbound.                            *)
LinesOf(o) == boxes[o] \cup {i.line : i \in {x \in input : x.outbound = o}}

(* merged_rules, then the update; an empty result is refused.  Each group  *)
(* is read from top to bottom, in whatever order the user has it.          *)
Apply ==
    \E p \in SetToSeqs(Rules("proxy", boxes["proxy"])),
       d \in SetToSeqs(Rules("direct", boxes["direct"])),
       n \in SetToSeqs(NewRules) :
          LET rules == Merged(p \o d \o n) IN
          /\ rules # {}
          /\ groups' = [o \in Outbound |-> Managed(rules, o)]
          /\ edited' = (edited \/ input # {})
          /\ UNCHANGED <<boxes, input>>

Next ==
    \/ LoadCurrent \/ Apply
    \/ \E o \in Outbound, t \in Lines : AddLine(o, t) \/ RemoveLine(o, t) \/ Paste(o, t)

Spec == Init /\ [][Next]_vars

-----------------------------------------------------------------------------
(* Properties.                                                             *)

TypeOK ==
    /\ groups \in [Outbound -> SUBSET Value] /\ boxes \in [Outbound -> SUBSET Text]
    /\ input \subseteq [outbound : Outbound, line : Lines] /\ edited \in BOOLEAN
    /\ \A o \in Outbound : IsFiniteSet(groups[o]) /\ IsFiniteSet(boxes[o])
    /\ IsFiniteSet(input)

(* What is loaded and written back unedited stays as it is.                *)
RoundTrip ==
    [][Apply /\ ~edited /\ input = {}
       /\ (\A o \in Outbound : boxes[o] = {Line(v) : v \in groups[o]}) => UNCHANGED groups]_vars

(* Merging loses nothing: what each line of the editors and of the new     *)
(* conditions stands for is in the group that it was meant for.            *)
NothingLost ==
    [][Apply => \A o \in Outbound :
          Managed(Rules(o, LinesOf(o)), o) \subseteq groups'[o]]_vars
=============================================================================
