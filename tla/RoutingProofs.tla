--------------------------- MODULE RoutingProofs ---------------------------
(***************************************************************************)
(* Proofs about RouteRules and Routing: for all lines, any number of them, *)
(* every order in which they are merged, and all rules of the user's own.  *)
(* What a theorem asks of the lines or of those rules is named in it.      *)
(***************************************************************************)
EXTENDS Routing, SequenceTheorems, FiniteSetTheorems, WellFoundedInduction, TLAPS

(* What a line is written to the database as, whatever its outbound.       *)
Meaning(t) ==
    [field |-> IF Kind(t) \in {"domain", "full"} THEN "domain" ELSE Kind(t),
     text  |-> IF Kind(t) = "domain" THEN Starless(Entry(t)) ELSE Entry(t)]

(* The line that it is shown as when it is loaded again.                   *)
Again(t) == Line(Meaning(t))

-----------------------------------------------------------------------------
(* Texts.                                                                  *)

LEMMA TextParts ==
    ASSUME NEW t \in Text
    PROVE  /\ t.prefixes \in Seq(Marks) /\ t.form \in Forms
           /\ Prefix(t) \in Marks \cup {""}
           /\ Prefix(t) = "" <=> t.prefixes = <<>>
  <1>1. t.prefixes \in Seq(Marks) /\ t.form \in Forms
    BY DEF Text
  <1>2. t.prefixes # <<>> => Head(t.prefixes) \in Marks
    BY <1>1
  <1>3. "" \notin Marks
    BY DEF Marks
  <1> QED BY <1>1, <1>2, <1>3 DEF Prefix

(* Two texts are the same if they have the same parts.                     *)
LEMMA SameText ==
    ASSUME NEW t \in Text, NEW u \in Text, t.prefixes = u.prefixes, t.form = u.form
    PROVE  t = u
  BY DEF Text

LEMMA WithIsText ==
    ASSUME NEW t \in Text, NEW p \in Marks
    PROVE  /\ With(p, t) \in Text /\ With(p, t).form = t.form
           /\ With(p, t).prefixes = <<p>> \o t.prefixes
           /\ Prefix(With(p, t)) = p /\ Without(With(p, t)) = t
  <1>1. t.prefixes \in Seq(Marks)
    BY DEF Text
  <1> DEFINE s == <<p>> \o t.prefixes
  <1>2. s \in Seq(Marks) /\ s # <<>> /\ Head(s) = p /\ Tail(s) = t.prefixes
    BY <1>1
  <1>3. With(p, t) = [t EXCEPT !.prefixes = s]
    BY DEF With
  <1> HIDE DEF s
  <1>4. /\ With(p, t) \in Text /\ With(p, t).form = t.form
        /\ With(p, t).prefixes = s
    BY <1>2, <1>3 DEF Text
  <1>5. Prefix(With(p, t)) = p
    BY <1>2, <1>4 DEF Prefix
  <1>6. /\ Without(With(p, t)) \in Text
        /\ Without(With(p, t)).prefixes = t.prefixes /\ Without(With(p, t)).form = t.form
    BY <1>1, <1>2, <1>4 DEF Without, Text
  <1>7. Without(With(p, t)) = t
    BY <1>6, SameText
  <1> QED BY <1>4, <1>5, <1>7 DEF s

LEMMA WithoutIsText ==
    ASSUME NEW t \in Text, Prefix(t) # ""
    PROVE  /\ Without(t) \in Text /\ Without(t).form = t.form
           /\ t.prefixes # <<>> /\ Without(t).prefixes = Tail(t.prefixes)
  <1>1. t.prefixes \in Seq(Marks) /\ t.prefixes # <<>>
    BY TextParts
  <1>2. Tail(t.prefixes) \in Seq(Marks)
    BY <1>1, HeadTailProperties
  <1> QED BY <1>1, <1>2 DEF Without, Text

LEMMA StarlessIsText ==
    ASSUME NEW t \in Text
    PROVE  /\ Starless(t) \in Text /\ Starless(t).prefixes = t.prefixes
           /\ t.form # "wild" => Starless(t) = t
           /\ t.form = "wild" =>
                Starless(t).form = IF t.prefixes = <<>> THEN "host" ELSE "broken"
  <1> DEFINE f == IF t.prefixes = <<>> THEN "host" ELSE "broken"
  <1>1. f \in Forms
    BY DEF Forms
  <1>2. CASE t.form = "wild"
    <2>1. Starless(t) = [t EXCEPT !.form = f]
      BY <1>2 DEF Starless
    <2> HIDE DEF f
    <2>2. Starless(t) \in Text /\ Starless(t).prefixes = t.prefixes /\ Starless(t).form = f
      BY <1>1, <2>1 DEF Text
    <2> QED BY <1>2, <2>2 DEF f
  <1>3. CASE t.form # "wild"
    BY <1>3 DEF Starless
  <1> QED BY <1>2, <1>3

LEMMA Kinds ==
    ASSUME NEW t \in Text
    PROVE  /\ Kind(t) \in {"domain", "full", "ip", "process"}
           /\ Kind(t) = Prefix(t) => Prefix(t) # ""
           /\ Kind(t) = "ip" =>
                Prefix(t) = "ip" \/ (t.prefixes = <<>> /\ t.form = "network")
           /\ Kind(t) = "full" => Prefix(t) = "full" \/ t.form # "wild"
  <1>1. CASE Prefix(t) \in {"domain", "full", "ip", "process"}
    <2>1. Kind(t) = Prefix(t)
      BY <1>1 DEF Kind
    <2> QED BY <1>1, <2>1
  <1>2. CASE Prefix(t) \notin {"domain", "full", "ip", "process"}
    <2>1. CASE t.prefixes = <<>> /\ t.form = "network"
      BY <1>2, <2>1 DEF Kind
    <2>2. CASE ~(t.prefixes = <<>> /\ t.form = "network")
      <3>1. Kind(t) = CASE t.form \in {"wild", "local"} -> "domain"
                        [] t.form = "path"              -> "process"
                        [] OTHER                        -> "full"
        BY <1>2, <2>2 DEF Kind
      <3>2. /\ t.form \in {"wild", "local"} => Kind(t) = "domain"
            /\ t.form = "path" => Kind(t) = "process"
            /\ t.form \notin {"wild", "local", "path"} => Kind(t) = "full"
        BY <3>1
      <3> QED BY <1>2, <3>2
    <2> QED BY <2>1, <2>2
  <1> QED BY <1>1, <1>2

LEMMA EntryIsText ==
    ASSUME NEW t \in Text
    PROVE  /\ Entry(t) \in Text /\ Entry(t).form = t.form
           /\ Entry(t).prefixes =
                IF Kind(t) = Prefix(t) THEN Tail(t.prefixes) ELSE t.prefixes
  BY Kinds, WithoutIsText DEF Entry

LEMMA MeaningIsValue ==
    ASSUME NEW t \in Text
    PROVE  Meaning(t) \in Value
  <1>1. (IF Kind(t) = "domain" THEN Starless(Entry(t)) ELSE Entry(t)) \in Text
    BY EntryIsText, StarlessIsText
  <1> QED BY <1>1, Kinds DEF Meaning, Value

(* What the conversions make of a line, in one step.                       *)
LEMMA WrittenIsMeaning ==
    ASSUME NEW o, NEW t \in Text
    PROVE  /\ Rule(o, t).outbound = o /\ Rule(o, t).field = Meaning(t).field
           /\ Written(Rule(o, t)) = Meaning(t)
           /\ Meaning(t).field = "domain" => Display(Rule(o, t).text) = Meaning(t).text
           /\ Meaning(t).field # "domain" => Rule(o, t).text = Meaning(t).text
  <1> DEFINE r == Rule(o, t)
  <1>1. r.outbound = o /\ r.field = Meaning(t).field
    BY DEF Rule, Meaning
  <1>2. Entry(t) \in Text /\ Starless(Entry(t)) \in Text
    BY EntryIsText, StarlessIsText
  <1>3. ASSUME NEW u \in Text, NEW p \in {"domain", "full"}
        PROVE  Display(With(p, u)) = u
    BY <1>3, WithIsText DEF Display, Marks
  <1>4. Meaning(t).field = "domain" => Display(r.text) = Meaning(t).text
    <2>1. CASE Kind(t) = "domain"
      <3>1. r.text = With("domain", Starless(Entry(t))) /\ Meaning(t).text = Starless(Entry(t))
        BY <2>1 DEF Rule, Meaning
      <3> QED BY <1>2, <1>3, <3>1
    <2>2. CASE Kind(t) = "full"
      <3>1. r.text = With("full", Entry(t)) /\ Meaning(t).text = Entry(t)
        BY <2>2 DEF Rule, Meaning
      <3> QED BY <1>2, <1>3, <3>1
    <2> QED BY <2>1, <2>2, Kinds DEF Meaning
  <1>5. Meaning(t).field # "domain" => r.text = Meaning(t).text
    BY Kinds DEF Rule, Meaning
  <1>6. Written(r) = Meaning(t)
    <2> DEFINE w == IF r.field = "domain" THEN Display(r.text) ELSE r.text
    <2>1. w = Meaning(t).text
      BY <1>1, <1>4, <1>5
    <2>2. Written(r) = [field |-> r.field, text |-> w]
      BY DEF Written
    <2>3. Meaning(t) = [field |-> Meaning(t).field, text |-> Meaning(t).text]
      BY DEF Meaning
    <2> HIDE DEF w, r
    <2> QED BY <1>1, <2>1, <2>2, <2>3
  <1> QED BY <1>1, <1>4, <1>5, <1>6
-----------------------------------------------------------------------------
(* Merging.                                                                *)

LEMMA ImageIsFinite ==
    ASSUME NEW S, IsFiniteSet(S), NEW f, DOMAIN f = S
    PROVE  IsFiniteSet({f[x] : x \in S})
  <1> DEFINE T == {f[x] : x \in S}
             g == [x \in S |-> f[x]]
  <1>1. g \in Surjection(S, T)
    BY DEF Surjection
  <1> HIDE DEF g, T
  <1>2. IsFiniteSet(T)
    BY <1>1, FS_Surjection
  <1> QED BY <1>2 DEF T

(* However a set is ordered, all of it is in the sequence.                 *)
LEMMA Ordered ==
    ASSUME NEW S, IsFiniteSet(S), NEW p \in SetToSeqs(S)
    PROVE  p \in Seq(S) /\ Range(p) = S
  <1> DEFINE n == Cardinality(S)
             D == 1..n
  <1>1. n \in Nat
    BY FS_CardinalityType
  <1>2. p \in [D -> S] /\ \A i, j \in D : i # j => p[i] # p[j]
    BY DEF SetToSeqs
  <1>3. p \in Injection(D, S)
    BY <1>2 DEF Injection, IsInjective
  <1>4. Cardinality(D) = n
    <2> HIDE DEF n
    <2> QED BY <1>1, FS_Interval
  <1>5. p \in Surjection(D, S)
    <2> HIDE DEF D
    <2> QED BY <1>3, <1>4, FS_Injection
  <1>6. Range(p) = S
    <2> HIDE DEF D
    <2> QED BY <1>5 DEF Surjection, Range
  <1>7. p \in Seq(S)
    <2> HIDE DEF n
    <2> QED BY <1>1, <1>2, SeqDef
  <1> QED BY <1>6, <1>7

(* Every key of a sequence of rules is that of a rule that stays.          *)
LEMMA MergedKeepsKeys ==
    ASSUME NEW R, NEW rules \in Seq(R)
    PROVE  /\ Merged(rules) \subseteq Range(rules)
           /\ \A r \in Range(rules) : \E m \in Merged(rules) : Key(m) = Key(r)
  <1>1. Merged(rules) \subseteq Range(rules)
    BY DEF Merged, Range
  <1>2. ASSUME NEW r \in Range(rules)
        PROVE  \E m \in Merged(rules) : Key(m) = Key(r)
    <2> DEFINE Less == {pair \in Nat \X Nat : pair[1] < pair[2]}
               Same == {i \in DOMAIN rules : Key(rules[i]) = Key(r)}
    <2>1. IsWellFoundedOn(Less, Nat)
      BY NatLessThanWellFounded DEF OpToRel
    <2>2. DOMAIN rules = 1..Len(rules) /\ Len(rules) \in Nat
      OBVIOUS
    <2>3. Same \subseteq Nat /\ Same # {}
      BY <2>2 DEF Range
    <2>4. PICK i \in Same : \A j \in Same : <<j, i>> \notin Less
      <3> HIDE DEF Less, Same
      <3> QED BY <2>1, <2>3, WFMin
    <2>5. i \in DOMAIN rules /\ i \in Nat /\ Key(rules[i]) = Key(r)
      BY <2>2, <2>4
    <2>6. First(rules, i)
      <3> SUFFICES ASSUME NEW k \in 1..(i - 1) PROVE Key(rules[k]) # Key(rules[i])
        BY DEF First
      <3>1. k \in Nat /\ k < i /\ k \in DOMAIN rules
        BY <2>2, <2>5
      <3>2. <<k, i>> \in Less
        BY <2>5, <3>1
      <3>3. k \notin Same
        BY <2>4, <3>2
      <3> QED BY <2>5, <3>1, <3>3
    <2>7. rules[i] \in Merged(rules)
      BY <2>5, <2>6 DEF Merged
    <2> QED BY <2>5, <2>7
  <1> QED BY <1>1, <1>2

-----------------------------------------------------------------------------
(* The window, for any set L of lines that is closed: what is typed is in  *)
(* it, and whatever is written from it comes back to it.                   *)

LinesInv(L) ==
    /\ groups \in [Outbound -> SUBSET {Meaning(t) : t \in L}]
    /\ boxes \in [Outbound -> SUBSET L]
    /\ input \subseteq [outbound : Outbound, line : L] /\ edited \in BOOLEAN
    /\ \A o \in Outbound : IsFiniteSet(groups[o]) /\ IsFiniteSet(boxes[o])
    /\ IsFiniteSet(input)

Closed(L) == L \subseteq Text /\ Lines \subseteq L /\ \A t \in L : Again(t) \in L

AllRules == Rules("proxy", boxes["proxy"]) \cup Rules("direct", boxes["direct"]) \cup NewRules

LEMMA RulesAreOfLines ==
    ASSUME NEW L, LinesInv(L), NEW r \in AllRules
    PROVE  \E o \in Outbound, t \in L : r = Rule(o, t)
  <1>1. boxes["proxy"] \subseteq L /\ boxes["direct"] \subseteq L
    BY DEF LinesInv, Outbound
  <1>2. CASE r \in Rules("proxy", boxes["proxy"]) \/ r \in Rules("direct", boxes["direct"])
    BY <1>1, <1>2 DEF Rules, Outbound
  <1>3. CASE r \in NewRules
    BY <1>3 DEF NewRules, LinesInv
  <1> QED BY <1>2, <1>3 DEF AllRules

LEMMA RulesAreFinite ==
    ASSUME NEW L, LinesInv(L)
    PROVE  /\ IsFiniteSet(Rules("proxy", boxes["proxy"]))
           /\ IsFiniteSet(Rules("direct", boxes["direct"]))
           /\ IsFiniteSet(NewRules) /\ IsFiniteSet(AllRules)
  <1>1. ASSUME NEW o \in Outbound
        PROVE  IsFiniteSet(Rules(o, boxes[o]))
    <2> DEFINE f == [t \in boxes[o] |-> Rule(o, t)]
    <2>1. IsFiniteSet(boxes[o])
      BY DEF LinesInv
    <2>2. Rules(o, boxes[o]) = {f[t] : t \in boxes[o]} /\ DOMAIN f = boxes[o]
      BY DEF Rules
    <2> HIDE DEF f
    <2> QED BY <2>1, <2>2, ImageIsFinite
  <1>2. IsFiniteSet(NewRules)
    <2> DEFINE f == [i \in input |-> Rule(i.outbound, i.line)]
    <2>1. IsFiniteSet(input)
      BY DEF LinesInv
    <2>2. NewRules = {f[i] : i \in input} /\ DOMAIN f = input
      BY DEF NewRules
    <2> HIDE DEF f
    <2> QED BY <2>1, <2>2, ImageIsFinite
  <1>3. /\ IsFiniteSet(Rules("proxy", boxes["proxy"]))
        /\ IsFiniteSet(Rules("direct", boxes["direct"]))
    BY <1>1 DEF Outbound
  <1>4. IsFiniteSet(Rules("proxy", boxes["proxy"]) \cup Rules("direct", boxes["direct"]))
    BY <1>3, FS_Union
  <1>5. IsFiniteSet(AllRules)
    BY <1>2, <1>4, FS_Union DEF AllRules
  <1> QED BY <1>2, <1>3, <1>5

(* Applying writes a choice of the rules in which every key is kept.       *)
Chosen(M) ==
    /\ M \subseteq AllRules
    /\ \A r \in AllRules : \E m \in M : Key(m) = Key(r)

LEMMA Applying ==
    ASSUME NEW L, LinesInv(L), Apply
    PROVE  \E M : /\ Chosen(M)
                  /\ groups' = [o \in Outbound |-> Managed(M, o)]
                  /\ edited' = (edited \/ input # {}) /\ UNCHANGED <<boxes, input>>
  <1>1. PICK p \in SetToSeqs(Rules("proxy", boxes["proxy"])),
             d \in SetToSeqs(Rules("direct", boxes["direct"])),
             n \in SetToSeqs(NewRules) :
               /\ groups' = [o \in Outbound |-> Managed(Merged(p \o d \o n), o)]
               /\ edited' = (edited \/ input # {}) /\ UNCHANGED <<boxes, input>>
    BY DEF Apply
  <1>2. /\ p \in Seq(Rules("proxy", boxes["proxy"])) /\ Range(p) = Rules("proxy", boxes["proxy"])
        /\ d \in Seq(Rules("direct", boxes["direct"])) /\ Range(d) = Rules("direct", boxes["direct"])
        /\ n \in Seq(NewRules) /\ Range(n) = NewRules
    BY RulesAreFinite, Ordered
  <1>3. p \in Seq(AllRules) /\ d \in Seq(AllRules) /\ n \in Seq(AllRules)
    <2>1. /\ Rules("proxy", boxes["proxy"]) \subseteq AllRules
          /\ Rules("direct", boxes["direct"]) \subseteq AllRules
          /\ NewRules \subseteq AllRules
      BY DEF AllRules
    <2> QED BY <1>2, <2>1, SeqMonotonic
  <1>4. p \o d \in Seq(AllRules) /\ Range(p \o d) = Range(p) \cup Range(d)
    BY <1>3, ConcatProperties, RangeConcatenation
  <1>5. /\ (p \o d) \o n \in Seq(AllRules)
        /\ Range((p \o d) \o n) = Range(p \o d) \cup Range(n)
    <2> DEFINE q == p \o d
    <2>1. q \in Seq(AllRules) /\ n \in Seq(AllRules)
      BY <1>3, <1>4
    <2> HIDE DEF q
    <2>2. q \o n \in Seq(AllRules)
      BY <2>1, ConcatProperties
    <2>3. Range(q \o n) = Range(q) \cup Range(n)
      BY <2>1, RangeConcatenation
    <2> QED BY <2>2, <2>3 DEF q
  <1>6. Range((p \o d) \o n) = AllRules
    BY <1>2, <1>4, <1>5 DEF AllRules
  <1>7. Chosen(Merged((p \o d) \o n))
    BY <1>5, <1>6, MergedKeepsKeys DEF Chosen
  <1> QED BY <1>1, <1>7

(* What a choice of the rules is written as.                               *)
LEMMA ManagedIsMeant ==
    ASSUME NEW L, L \subseteq Text, LinesInv(L), NEW M, Chosen(M), NEW o \in Outbound
    PROVE  /\ \A v \in Managed(M, o) : \E t \in L : Rule(o, t) \in M /\ v = Meaning(t)
           /\ IsFiniteSet(Managed(M, o))
  <1>1. ASSUME NEW v \in Managed(M, o)
        PROVE  \E t \in L : Rule(o, t) \in M /\ v = Meaning(t)
    <2>1. PICK r \in M : r.outbound = o /\ v = Written(r)
      BY DEF Managed
    <2>2. PICK q \in Outbound, t \in L : r = Rule(q, t)
      BY <2>1, RulesAreOfLines DEF Chosen
    <2>3. t \in Text
      OBVIOUS
    <2>4. Rule(q, t).outbound = q /\ Written(Rule(q, t)) = Meaning(t)
      BY <2>3, WrittenIsMeaning
    <2> QED BY <2>1, <2>2, <2>4
  <1>2. IsFiniteSet(Managed(M, o))
    <2> DEFINE S == {x \in M : x.outbound = o}
               f == [r \in S |-> Written(r)]
    <2>1. IsFiniteSet(S)
      <3>1. S \subseteq AllRules
        BY DEF Chosen
      <3> HIDE DEF S
      <3> QED BY <3>1, RulesAreFinite, FS_Subset
    <2>2. Managed(M, o) = {f[r] : r \in S} /\ DOMAIN f = S
      BY DEF Managed
    <2> HIDE DEF f, S
    <2> QED BY <2>1, <2>2, ImageIsFinite
  <1> QED BY <1>1, <1>2

LEMMA LinesInitially ==
    ASSUME NEW L, Init
    PROVE  LinesInv(L)
  BY FS_EmptySet DEF Init, LinesInv, Outbound

LEMMA LinesInductive ==
    ASSUME NEW L, Closed(L), LinesInv(L), [Next]_vars
    PROVE  LinesInv(L)'
  <1>0. L \subseteq Text /\ Lines \subseteq L
    BY DEF Closed
  <1>1. CASE LoadCurrent
    <2>1. /\ boxes' = [o \in Outbound |-> {Line(v) : v \in groups[o]}]
          /\ edited' = FALSE /\ UNCHANGED <<groups, input>>
      BY <1>1 DEF LoadCurrent
    <2>2. ASSUME NEW o \in Outbound
          PROVE  boxes'[o] \subseteq L /\ IsFiniteSet(boxes'[o])
      <3> DEFINE f == [v \in groups[o] |-> Line(v)]
      <3>1. groups[o] \subseteq {Meaning(t) : t \in L} /\ IsFiniteSet(groups[o])
        BY DEF LinesInv
      <3>2. boxes'[o] = {f[v] : v \in groups[o]} /\ DOMAIN f = groups[o]
        BY <2>1
      <3>3. \A v \in groups[o] : f[v] \in L
        BY <3>1 DEF Closed, Again
      <3> HIDE DEF f
      <3> QED BY <3>1, <3>2, <3>3, ImageIsFinite
    <2>3. boxes' \in [Outbound -> SUBSET L]
      BY <2>1, <2>2
    <2> QED BY <2>1, <2>2, <2>3 DEF LinesInv
  <1>2. CASE Apply
    <2>1. PICK M : /\ Chosen(M) /\ groups' = [o \in Outbound |-> Managed(M, o)]
                   /\ edited' = (edited \/ input # {}) /\ UNCHANGED <<boxes, input>>
      BY <1>2, Applying
    <2>2. ASSUME NEW o \in Outbound
          PROVE  Managed(M, o) \subseteq {Meaning(t) : t \in L} /\ IsFiniteSet(Managed(M, o))
      BY <1>0, <2>1, ManagedIsMeant
    <2>3. /\ groups' \in [Outbound -> SUBSET {Meaning(t) : t \in L}]
          /\ \A o \in Outbound : IsFiniteSet(groups'[o])
      BY <2>1, <2>2
    <2>4. edited' \in BOOLEAN
      BY <2>1 DEF LinesInv
    <2> QED BY <2>1, <2>3, <2>4 DEF LinesInv
  <1>3. ASSUME NEW o \in Outbound, NEW t \in Lines, AddLine(o, t) \/ RemoveLine(o, t)
        PROVE  LinesInv(L)'
    <2>1. /\ UNCHANGED <<groups, input>> /\ edited' = TRUE
          /\ \E b \in {boxes[o] \cup {t}, boxes[o] \ {t}} : boxes' = [boxes EXCEPT ![o] = b]
      BY <1>3 DEF AddLine, RemoveLine
    <2>2. PICK b : b \in {boxes[o] \cup {t}, boxes[o] \ {t}} /\ boxes' = [boxes EXCEPT ![o] = b]
      BY <2>1
    <2>3. boxes \in [Outbound -> SUBSET L] /\ IsFiniteSet(boxes[o])
      BY DEF LinesInv
    <2>4. b \subseteq L
      BY <1>0, <2>2, <2>3
    <2>5. IsFiniteSet(b)
      BY <2>2, <2>3, FS_AddElement, FS_RemoveElement
    <2> QED BY <2>1, <2>2, <2>3, <2>4, <2>5 DEF LinesInv
  <1>4. ASSUME NEW o \in Outbound, NEW t \in Lines, Paste(o, t)
        PROVE  LinesInv(L)'
    <2>1. /\ UNCHANGED <<groups, boxes, edited>>
          /\ input' \in {{}, {[outbound |-> o, line |-> t]}}
      BY <1>4 DEF Paste
    <2>2. IsFiniteSet(input')
      <3>1. ASSUME NEW x PROVE IsFiniteSet({} \cup {x})
        BY FS_EmptySet, FS_AddElement
      <3>2. input' = {} \/ \E x : input' = {} \cup {x}
        BY <2>1
      <3> QED BY <3>1, <3>2, FS_EmptySet
    <2>3. input' \subseteq [outbound : Outbound, line : L]
      BY <1>0, <2>1
    <2> QED BY <2>1, <2>2, <2>3 DEF LinesInv
  <1>5. CASE UNCHANGED vars
    BY <1>5 DEF vars, LinesInv
  <1> QED BY <1>1, <1>2, <1>3, <1>4, <1>5 DEF Next

-----------------------------------------------------------------------------
(* Nothing is lost, and what is loaded is written back.                    *)

(* A line whose value has no star left that a key would not see.           *)
Tame(t) ==
    Meaning(t).field = "domain" /\ Meaning(t).text.prefixes = <<>> => Meaning(t).text.form # "wild"

(* For such lines the key of a rule tells what the rule says.              *)
LEMMA KeyTells ==
    ASSUME NEW o, NEW q, NEW t \in Text, NEW u \in Text, Tame(t), Tame(u),
           Key(Rule(o, t)) = Key(Rule(q, u))
    PROVE  o = q /\ Meaning(t) = Meaning(u)
  <1>1. ASSUME NEW p, NEW x \in Text, Tame(x)
        PROVE  Key(Rule(p, x)) = <<p, Meaning(x).field, Meaning(x).text>>
    <2> DEFINE r == Rule(p, x)
               m == Meaning(x)
    <2>1. r.outbound = p /\ r.field = m.field
      BY WrittenIsMeaning
    <2>2. CASE m.field = "domain"
      <3>1. Display(r.text) = m.text
        BY <2>2, WrittenIsMeaning
      <3>2. m.text \in Text
        BY MeaningIsValue DEF Value
      <3>3. Canonical(r.text) = m.text
        BY <1>1, <2>2, <3>1, <3>2, StarlessIsText DEF Canonical, Tame
      <3>4. r.field = "domain"
        BY <2>1, <2>2
      <3>5. Key(r) = <<r.outbound, r.field, Canonical(r.text)>>
        <4> HIDE DEF r
        <4> QED BY <3>4 DEF Key
      <3> QED BY <2>1, <3>3, <3>5
    <2>3. CASE m.field # "domain"
      <3>1. r.text = m.text
        BY <2>3, WrittenIsMeaning
      <3>2. r.field # "domain"
        BY <2>1, <2>3
      <3>3. Key(r) = <<r.outbound, r.field, r.text>>
        <4> HIDE DEF r
        <4> QED BY <3>2 DEF Key
      <3> QED BY <2>1, <3>1, <3>3
    <2> QED BY <2>2, <2>3
  <1>2. /\ o = q /\ Meaning(t).field = Meaning(u).field
        /\ Meaning(t).text = Meaning(u).text
    BY <1>1
  <1> QED BY <1>2, MeaningIsValue DEF Value

(* The line that a written value is shown as.                              *)
LEMMA AgainIs ==
    ASSUME NEW t \in Text
    PROVE  /\ Again(t) \in Text
           /\ Meaning(t).field = "domain" => Again(t) = Display(Meaning(t).text)
           /\ Meaning(t).field = "ip" => Again(t) = Entry(t)
           /\ Meaning(t).field = "process" => Again(t) = With("process", Entry(t))
  <1>1. Meaning(t) \in Value
    BY MeaningIsValue
  <1>2. Meaning(t).text \in Text /\ Meaning(t).field \in {"domain", "ip", "process"}
    BY <1>1 DEF Value
  <1>3. Meaning(t).field # "domain" => Meaning(t).text = Entry(t)
    BY DEF Meaning
  <1>4. Meaning(t).field = "domain" => Again(t) = Display(Meaning(t).text)
    BY DEF Again, Line
  <1>5. Meaning(t).field = "ip" => Again(t) = Entry(t)
    BY <1>3 DEF Again, Line
  <1>6. Meaning(t).field = "process" => Again(t) = With("process", Entry(t))
    BY <1>3 DEF Again, Line
  <1>7. Display(Meaning(t).text) \in Text
    BY <1>2, WithoutIsText DEF Display
  <1>8. With("process", Entry(t)) \in Text /\ Entry(t) \in Text
    BY EntryIsText, WithIsText DEF Marks
  <1> QED BY <1>2, <1>4, <1>5, <1>6, <1>7, <1>8

(* The rules that are merged for one outbound are those of its lines.      *)
LEMMA RulesOfOutbound ==
    ASSUME NEW L, L \subseteq Text, LinesInv(L), NEW o \in Outbound
    PROVE  /\ LinesOf(o) \subseteq L
           /\ \A t \in LinesOf(o) : Rule(o, t) \in AllRules
           /\ \A t \in L : Rule(o, t) \in AllRules =>
                \E u \in LinesOf(o) : Rule(o, u) = Rule(o, t)
  <1>1. LinesOf(o) \subseteq L
    BY DEF LinesOf, LinesInv
  <1>2. ASSUME NEW t \in LinesOf(o)
        PROVE  Rule(o, t) \in AllRules
    <2>1. CASE t \in boxes[o]
      <3>1. Rule(o, t) \in Rules(o, boxes[o])
        BY <2>1 DEF Rules
      <3> QED BY <3>1 DEF AllRules, Outbound
    <2>2. CASE t \in {i.line : i \in {x \in input : x.outbound = o}}
      <3>1. Rule(o, t) \in NewRules
        BY <2>2 DEF NewRules
      <3> QED BY <3>1 DEF AllRules
    <2> QED BY <2>1, <2>2 DEF LinesOf
  <1>3. ASSUME NEW t \in L, Rule(o, t) \in AllRules
        PROVE  \E u \in LinesOf(o) : Rule(o, u) = Rule(o, t)
    <2>1. \A q, u : Rule(q, u).outbound = q
      BY DEF Rule
    <2>2. ASSUME NEW q \in Outbound, Rule(o, t) \in Rules(q, boxes[q])
          PROVE  \E u \in LinesOf(o) : Rule(o, u) = Rule(o, t)
      <3>1. PICK u \in boxes[q] : Rule(o, t) = Rule(q, u)
        BY <2>2 DEF Rules
      <3>2. q = o
        BY <2>1, <3>1
      <3> QED BY <3>1, <3>2 DEF LinesOf
    <2>3. CASE Rule(o, t) \in NewRules
      <3>1. PICK i \in input : Rule(o, t) = Rule(i.outbound, i.line)
        BY <2>3 DEF NewRules
      <3>2. i.outbound = o
        BY <2>1, <3>1
      <3> QED BY <3>1, <3>2 DEF LinesOf
    <2> QED BY <1>3, <2>2, <2>3 DEF AllRules, Outbound
  <1> QED BY <1>1, <1>2, <1>3

(* If keys tell, what a line stands for is written, and it alone.          *)
LEMMA WritesTheLines ==
    ASSUME NEW L, L \subseteq Text, \A t \in L : Tame(t), LinesInv(L), NEW M, Chosen(M),
           NEW o \in Outbound
    PROVE  Managed(M, o) = {Meaning(t) : t \in LinesOf(o)}
  <1>1. ASSUME NEW v \in Managed(M, o)
        PROVE  v \in {Meaning(t) : t \in LinesOf(o)}
    <2>1. PICK t \in L : Rule(o, t) \in M /\ v = Meaning(t)
      BY ManagedIsMeant
    <2>2. PICK u \in LinesOf(o) : Rule(o, u) = Rule(o, t)
      BY <2>1, RulesOfOutbound DEF Chosen
    <2>3. u \in Text /\ t \in Text
      BY RulesOfOutbound
    <2>4. Meaning(u) = Written(Rule(o, u)) /\ Meaning(t) = Written(Rule(o, t))
      BY <2>3, WrittenIsMeaning
    <2> QED BY <2>1, <2>2, <2>4
  <1>2. ASSUME NEW t \in LinesOf(o)
        PROVE  Meaning(t) \in Managed(M, o)
    <2>1. t \in L /\ t \in Text /\ Rule(o, t) \in AllRules
      BY RulesOfOutbound
    <2>2. PICK m \in M : Key(m) = Key(Rule(o, t))
      BY <2>1 DEF Chosen
    <2>3. PICK q \in Outbound, u \in L : m = Rule(q, u)
      BY RulesAreOfLines DEF Chosen
    <2>4. u \in Text
      OBVIOUS
    <2>5. q = o /\ Meaning(u) = Meaning(t)
      BY <2>1, <2>2, <2>3, <2>4, KeyTells
    <2>6. m.outbound = o /\ Written(m) = Meaning(t)
      BY <2>3, <2>4, <2>5, WrittenIsMeaning
    <2> QED BY <2>6 DEF Managed
  <1> QED BY <1>1, <1>2

(* A star that is said to be a full name stays in it, and is not seen when *)
(* keys are compared: lines without that.                                  *)
Tidy == {t \in Text : t.form = "wild" => \A i \in DOMAIN t.prefixes : t.prefixes[i] # "full"}

LEMMA TidyIsTame ==
    ASSUME NEW t \in Tidy
    PROVE  /\ Tame(t)
           /\ Meaning(t).field = "domain" => Meaning(t).text.form # "wild"
  <1>1. t \in Text
    BY DEF Tidy
  <1>2. CASE Kind(t) = "domain"
    <2>1. Starless(Entry(t)).form # "wild"
      BY <1>1, EntryIsText, StarlessIsText
    <2> QED BY <1>2, <2>1 DEF Meaning, Tame
  <1>3. CASE Kind(t) = "full"
    <2>1. t.form # "wild"
      <3>1. SUFFICES ASSUME t.form = "wild" PROVE FALSE
        OBVIOUS
      <3>2. Prefix(t) = "full"
        BY <1>1, <1>3, <3>1, Kinds
      <3>3. t.prefixes \in Seq(Marks) /\ t.prefixes # <<>> /\ Head(t.prefixes) = "full"
        BY <1>1, <3>2, TextParts DEF Prefix
      <3>4. 1 \in DOMAIN t.prefixes /\ t.prefixes[1] = "full"
        BY <3>3
      <3> QED BY <3>1, <3>4 DEF Tidy
    <2>2. Meaning(t).text = Entry(t) /\ Entry(t).form = t.form
      BY <1>1, <1>3, EntryIsText DEF Meaning
    <2> QED BY <2>1, <2>2 DEF Tame
  <1>4. CASE Kind(t) \notin {"domain", "full"}
    BY <1>1, <1>4, Kinds DEF Meaning, Tame
  <1> QED BY <1>2, <1>3, <1>4

(* What holds of every prefix, wherever it stands, holds of what is left   *)
(* when the first one is taken, and when "process" is put in front.        *)
LEMMA TidyIsClosed ==
    ASSUME NEW t \in Tidy
    PROVE  Again(t) \in Tidy
  <1>1. t \in Text /\ Again(t) \in Text
    BY AgainIs DEF Tidy
  <1>2. Meaning(t).field \in {"domain", "ip", "process"}
    BY <1>1, MeaningIsValue DEF Value
  <1>3. CASE Meaning(t).field = "domain"
    <2>1. Meaning(t).text \in Text
      BY <1>1, MeaningIsValue DEF Value
    <2>2. Again(t).form = Meaning(t).text.form
      BY <1>1, <1>3, <2>1, AgainIs, WithoutIsText DEF Display
    <2> QED BY <1>1, <1>3, <2>2, TidyIsTame DEF Tidy
  <1>4. Entry(t) \in Tidy
    <2>1. Entry(t) \in Text /\ Entry(t).form = t.form
      BY <1>1, EntryIsText
    <2>2. CASE Kind(t) = Prefix(t)
      <3>1. /\ Entry(t).prefixes = Tail(t.prefixes) /\ t.prefixes # <<>>
            /\ t.prefixes \in Seq(Marks)
        BY <1>1, <2>2, EntryIsText, Kinds, TextParts
      <3>2. \A i \in DOMAIN Tail(t.prefixes) :
               i + 1 \in DOMAIN t.prefixes /\ Tail(t.prefixes)[i] = t.prefixes[i + 1]
        BY <3>1
      <3> QED BY <2>1, <3>1, <3>2 DEF Tidy
    <2>3. CASE Kind(t) # Prefix(t)
      BY <2>1, <2>3, <1>1, EntryIsText DEF Tidy
    <2> QED BY <2>2, <2>3
  <1>5. CASE Meaning(t).field = "ip"
    BY <1>1, <1>4, <1>5, AgainIs
  <1>6. CASE Meaning(t).field = "process"
    <2> DEFINE u == Entry(t)
    <2>1. u \in Text /\ u.prefixes \in Seq(Marks)
      BY <1>1, EntryIsText, TextParts
    <2>2. Again(t) = With("process", u)
      BY <1>1, <1>6, AgainIs
    <2>3. /\ Again(t).form = u.form
          /\ Again(t).prefixes = <<"process">> \o u.prefixes
      BY <2>1, <2>2, WithIsText DEF Marks
    <2>4. \A i \in DOMAIN (<<"process">> \o u.prefixes) :
             \/ (<<"process">> \o u.prefixes)[i] = "process"
             \/ i - 1 \in DOMAIN u.prefixes /\ (<<"process">> \o u.prefixes)[i] = u.prefixes[i - 1]
      BY <2>1
    <2>5. \A i \in DOMAIN u.prefixes : u.form = "wild" => u.prefixes[i] # "full"
      BY <1>4 DEF Tidy
    <2> HIDE DEF u
    <2>6. Again(t).form = "wild" => \A i \in DOMAIN Again(t).prefixes : Again(t).prefixes[i] # "full"
      BY <2>3, <2>4, <2>5
    <2> QED BY <1>1, <2>6 DEF Tidy
  <1> QED BY <1>2, <1>3, <1>5, <1>6

(* Lines that are written as what they are shown as.                       *)
Settled == {t \in Text : Meaning(Again(t)) = Meaning(t)}

LEMMA SettledIsTame ==
    ASSUME NEW t \in Settled
    PROVE  Tame(t)
  <1>1. t \in Text /\ Meaning(Again(t)) = Meaning(t)
    BY DEF Settled
  <1>2. SUFFICES ASSUME Meaning(t).field = "domain", Meaning(t).text.prefixes = <<>>,
                        Meaning(t).text.form = "wild"
                 PROVE  FALSE
    BY DEF Tame
  <1> DEFINE u == Meaning(t).text
  <1>3. u \in Text
    BY <1>1, MeaningIsValue DEF Value
  <1>4. Prefix(u) = ""
    BY <1>2 DEF Prefix
  <1>5. Again(t) = u
    BY <1>1, <1>2, <1>4, AgainIs DEF Display
  <1>6. Kind(u) = "domain"
    BY <1>2, <1>4 DEF Kind
  <1>7. Meaning(u).text.form = "host"
    <2>1. Entry(u) = u
      BY <1>4, <1>6 DEF Entry
    <2>2. Meaning(u).text = Starless(u)
      BY <1>6, <2>1 DEF Meaning
    <2> QED BY <1>2, <1>3, <2>2, StarlessIsText
  <1> QED BY <1>1, <1>2, <1>5, <1>7

LEMMA SettledIsClosed ==
    ASSUME NEW t \in Settled
    PROVE  Again(t) \in Settled
  <1>1. Again(t) \in Text /\ Meaning(Again(t)) = Meaning(t)
    BY AgainIs DEF Settled
  <1>2. Again(Again(t)) = Again(t)
    BY <1>1 DEF Again
  <1> QED BY <1>1, <1>2 DEF Settled

-----------------------------------------------------------------------------
(* The theorems about the window.                                          *)

LEMMA TypeFromLines ==
    ASSUME LinesInv(Text), Lines \subseteq Text, input \subseteq [outbound : Outbound, line : Lines]
    PROVE  TypeOK
  <1>1. {Meaning(t) : t \in Text} \subseteq Value
    BY MeaningIsValue
  <1>2. groups \in [Outbound -> SUBSET Value]
    BY <1>1 DEF LinesInv
  <1> QED BY <1>2 DEF LinesInv, TypeOK

LEMMA TextIsClosed == Closed(Text)
  BY RulesAssumption, AgainIs DEF Closed

(* Whatever is typed, pasted, loaded and merged, a group holds values that *)
(* v2rayN has a place for, and an editor texts.                            *)
THEOREM TypeCorrect == Spec => []TypeOK
  <1> DEFINE Inv == LinesInv(Text) /\ input \subseteq [outbound : Outbound, line : Lines]
  <1>1. Init => Inv
    BY LinesInitially DEF Init
  <1>2. Inv /\ [Next]_vars => Inv'
    <2> SUFFICES ASSUME Inv, [Next]_vars PROVE Inv'
      OBVIOUS
    <2>1. LinesInv(Text)'
      BY TextIsClosed, LinesInductive
    <2>2. input' \subseteq [outbound : Outbound, line : Lines]
      <3>1. CASE \E o \in Outbound, t \in Lines : Paste(o, t)
        BY <3>1 DEF Paste
      <3>2. CASE ~\E o \in Outbound, t \in Lines : Paste(o, t)
        BY <3>2 DEF Next, vars, LoadCurrent, Apply, AddLine, RemoveLine
      <3> QED BY <3>1, <3>2
    <2> QED BY <2>1, <2>2
  <1>3. Inv => TypeOK
    BY RulesAssumption, TypeFromLines
  <1> HIDE DEF Inv
  <1> QED BY <1>1, <1>2, <1>3, PTL DEF Spec

(* Merging loses nothing, in whatever order the lines of the groups come,  *)
(* if no line calls a pattern with a star a full name.                     *)
THEOREM MergingLosesNothing ==
    ASSUME Lines \subseteq Tidy
    PROVE  Spec => NothingLost
  <1> DEFINE Inv == LinesInv(Tidy)
  <1>1. Closed(Tidy) /\ Tidy \subseteq Text /\ \A t \in Tidy : Tame(t)
    BY TidyIsClosed, TidyIsTame DEF Closed, Tidy
  <1>2. Init => Inv
    BY LinesInitially
  <1>3. Inv /\ [Next]_vars => Inv'
    BY <1>1, LinesInductive
  <1>4. ASSUME Inv, Apply, NEW o \in Outbound
        PROVE  Managed(Rules(o, LinesOf(o)), o) \subseteq groups'[o]
    <2>1. PICK M : Chosen(M) /\ groups' = [q \in Outbound |-> Managed(M, q)]
      BY <1>4, Applying
    <2>2. groups'[o] = {Meaning(t) : t \in LinesOf(o)}
      BY <1>1, <1>4, <2>1, WritesTheLines
    <2>3. \A t \in LinesOf(o) : t \in Text /\ Written(Rule(o, t)) = Meaning(t)
      BY <1>1, <1>4, RulesOfOutbound, WrittenIsMeaning
    <2>4. Managed(Rules(o, LinesOf(o)), o) \subseteq {Meaning(t) : t \in LinesOf(o)}
      BY <2>3 DEF Managed, Rules
    <2> QED BY <2>2, <2>4
  <1>5. Inv /\ [Next]_vars =>
          [Apply => \A o \in Outbound : Managed(Rules(o, LinesOf(o)), o) \subseteq groups'[o]]_vars
    BY <1>4
  <1> HIDE DEF Inv
  <1> QED BY <1>2, <1>3, <1>5, PTL DEF Spec, NothingLost

(* What is loaded and written back unedited stays as it is, if each line   *)
(* that was ever typed is written as what it is then shown as.             *)
THEOREM LoadedIsWrittenBack ==
    ASSUME Lines \subseteq Settled
    PROVE  Spec => RoundTrip
  <1> DEFINE Inv == LinesInv(Settled)
             Unedited == /\ ~edited /\ input = {}
                         /\ \A o \in Outbound : boxes[o] = {Line(v) : v \in groups[o]}
  <1>1. Closed(Settled) /\ Settled \subseteq Text /\ \A t \in Settled : Tame(t)
    BY SettledIsClosed, SettledIsTame DEF Closed, Settled
  <1>2. Init => Inv
    BY LinesInitially
  <1>3. Inv /\ [Next]_vars => Inv'
    BY <1>1, LinesInductive
  <1>4. ASSUME Inv, Apply, Unedited
        PROVE  UNCHANGED groups
    <2>1. PICK M : Chosen(M) /\ groups' = [q \in Outbound |-> Managed(M, q)]
      BY <1>4, Applying
    <2>2. groups \in [Outbound -> SUBSET {Meaning(t) : t \in Settled}]
      BY <1>4 DEF LinesInv
    <2>3. ASSUME NEW o \in Outbound
          PROVE  groups'[o] = groups[o]
      <3>1. groups'[o] = {Meaning(t) : t \in LinesOf(o)}
        BY <1>1, <1>4, <2>1, WritesTheLines
      <3>2. LinesOf(o) = {Line(v) : v \in groups[o]}
        BY <1>4 DEF LinesOf
      <3>3. \A v \in groups[o] : Meaning(Line(v)) = v
        BY <2>2 DEF Settled, Again
      <3> QED BY <3>1, <3>2, <3>3
    <2> QED BY <2>1, <2>2, <2>3
  <1>5. Inv /\ [Next]_vars =>
          [/\ Apply /\ ~edited /\ input = {}
           /\ \A o \in Outbound : boxes[o] = {Line(v) : v \in groups[o]}
           => UNCHANGED groups]_vars
    BY <1>4
  <1> HIDE DEF Inv
  <1> QED BY <1>2, <1>3, <1>5, PTL DEF Spec, RoundTrip

-----------------------------------------------------------------------------
(* The database.                                                           *)

GroupRule(o, values) ==
    [enabled |-> TRUE, outbound |-> o, values |-> values, port |-> {}, network |-> {}]

LEMMA ShortSequences ==
    ASSUME NEW S, NEW x \in S, NEW y \in S
    PROVE  /\ <<>> \in Seq(S) /\ <<x>> \in Seq(S) /\ <<x, y>> \in Seq(S)
           /\ Len(<<>>) = 0 /\ Len(<<x>>) = 1 /\ Len(<<x, y>>) = 2
           /\ <<>> \o <<>> = <<>> /\ <<>> \o <<y>> = <<y>> /\ <<x>> \o <<>> = <<x>>
           /\ <<x>> \o <<y>> = <<x, y>>
  <1>1. /\ <<>> \in Seq(S) /\ <<x>> \in Seq(S) /\ <<y>> \in Seq(S) /\ <<x, y>> \in Seq(S)
        /\ Len(<<>>) = 0 /\ Len(<<x>>) = 1 /\ Len(<<x, y>>) = 2
    OBVIOUS
  <1>2. <<>> \o <<>> = <<>> /\ <<>> \o <<y>> = <<y>> /\ <<x>> \o <<>> = <<x>>
    BY <1>1, ConcatEmptySeq
  <1>3. <<x>> \o <<y>> = <<x, y>>
    <2> DEFINE s == <<x>>
               t == <<y>>
               u == <<x, y>>
    <2>1. /\ s \in Seq(S) /\ t \in Seq(S) /\ u \in Seq(S)
          /\ Len(s) = 1 /\ Len(t) = 1 /\ Len(u) = 2
          /\ s[1] = x /\ t[1] = y /\ u[1] = x /\ u[2] = y
      BY <1>1
    <2> HIDE DEF s, t, u
    <2>2. /\ s \o t \in Seq(S) /\ Len(s \o t) = Len(s) + Len(t)
          /\ \A i \in 1..(Len(s) + Len(t)) :
                (s \o t)[i] = IF i <= Len(s) THEN s[i] ELSE t[i - Len(s)]
      BY <2>1, ConcatProperties
    <2>3. Len(s \o t) = Len(u) /\ \A i \in 1..Len(s \o t) : (s \o t)[i] = u[i]
      BY <2>1, <2>2
    <2>4. s \o t = u
      BY <2>1, <2>2, <2>3, SeqEqual
    <2> QED BY <2>4 DEF s, t, u
  <1> QED BY <1>1, <1>2, <1>3

(* The rules of the groups that are not empty, Proxy before Direct.        *)
LEMMA GroupRulesAre ==
    ASSUME NEW g
    PROVE  LET p == GroupRule("proxy", g["proxy"])
               d == GroupRule("direct", g["direct"])
           IN  GroupRules(g) = IF g["proxy"] = {}
                               THEN IF g["direct"] = {} THEN <<>> ELSE <<d>>
                               ELSE IF g["direct"] = {} THEN <<p>> ELSE <<p, d>>
  <1> DEFINE p == GroupRule("proxy", g["proxy"])
             d == GroupRule("direct", g["direct"])
  <1>1. /\ Group("proxy", g["proxy"]) = IF g["proxy"] = {} THEN <<>> ELSE <<p>>
        /\ Group("direct", g["direct"]) = IF g["direct"] = {} THEN <<>> ELSE <<d>>
    BY DEF Group, GroupRule
  <1> HIDE DEF p, d
  <1>2. GroupRules(g) = IF g["proxy"] = {}
                        THEN IF g["direct"] = {} THEN <<>> ELSE <<d>>
                        ELSE IF g["direct"] = {} THEN <<p>> ELSE <<p, d>>
    <2>1. GroupRules(g) = Group("proxy", g["proxy"]) \o Group("direct", g["direct"])
      BY DEF GroupRules
    <2>2. /\ <<>> \o <<>> = <<>> /\ <<>> \o <<d>> = <<d>> /\ <<p>> \o <<>> = <<p>>
          /\ <<p>> \o <<d>> = <<p, d>>
      <3>1. p \in {p, d} /\ d \in {p, d}
        OBVIOUS
      <3> QED BY <3>1, ShortSequences
    <2> QED BY <1>1, <2>1, <2>2
  <1> QED BY <1>2 DEF p, d

(* The user's own rules follow, all of them in their order.                *)
LEMMA DatabaseIs ==
    ASSUME NEW g
    PROVE  /\ Len(GroupRules(g)) \in 0..2 /\ Len(Base) \in Nat
           /\ DOMAIN GroupRules(g) = 1..Len(GroupRules(g)) /\ DOMAIN Base = 1..Len(Base)
           /\ DOMAIN Database(g) = 1..(Len(GroupRules(g)) + Len(Base))
           /\ \A i \in 1..Len(GroupRules(g)) : Database(g)[i] = GroupRules(g)[i]
           /\ \A j \in 1..Len(Base) : Database(g)[Len(GroupRules(g)) + j] = Base[j]
  <1> DEFINE p == GroupRule("proxy", g["proxy"])
             d == GroupRule("direct", g["direct"])
             S == {p, d} \cup V2rayNRule
             G == GroupRules(g)
  <1>1. G \in {<<>>, <<d>>, <<p>>, <<p, d>>}
    BY GroupRulesAre
  <1>2. G \in Seq(S) /\ Len(G) \in 0..2
    <2>1. p \in S /\ d \in S
      OBVIOUS
    <2> HIDE DEF p, d, S, G
    <2>2. /\ <<>> \in Seq(S) /\ <<p>> \in Seq(S) /\ <<d>> \in Seq(S) /\ <<p, d>> \in Seq(S)
          /\ Len(<<>>) = 0 /\ Len(<<p>>) = 1 /\ Len(<<d>>) = 1 /\ Len(<<p, d>>) = 2
      BY <2>1, ShortSequences
    <2>3. G = <<>> \/ G = <<d>> \/ G = <<p>> \/ G = <<p, d>>
      BY <1>1
    <2>4. CASE G = <<>>
      BY <2>2, <2>4
    <2>5. CASE G = <<d>>
      BY <2>2, <2>5
    <2>6. CASE G = <<p>>
      BY <2>2, <2>6
    <2>7. CASE G = <<p, d>>
      BY <2>2, <2>7
    <2> QED BY <2>3, <2>4, <2>5, <2>6, <2>7
  <1>3. Base \in Seq(S)
    <2>1. V2rayNRule \subseteq S /\ Base \in Seq(V2rayNRule)
      BY RoutingAssumption
    <2> HIDE DEF S
    <2> QED BY <2>1, SeqMonotonic
  <1> HIDE DEF S, G
  <1>4. /\ G \o Base \in Seq(S) /\ Len(G \o Base) = Len(G) + Len(Base)
        /\ \A i \in 1..(Len(G) + Len(Base)) :
               (G \o Base)[i] = IF i <= Len(G) THEN G[i] ELSE Base[i - Len(G)]
    BY <1>2, <1>3, ConcatProperties
  <1>5. /\ Len(Base) \in Nat /\ DOMAIN G = 1..Len(G) /\ DOMAIN Base = 1..Len(Base)
        /\ DOMAIN (G \o Base) = 1..(Len(G) + Len(Base))
    BY <1>2, <1>3, <1>4
  <1>6. \A i \in 1..Len(G) : (G \o Base)[i] = G[i]
    BY <1>2, <1>4, <1>5
  <1>7. \A j \in 1..Len(Base) : (G \o Base)[Len(G) + j] = Base[j]
    <2> SUFFICES ASSUME NEW j \in 1..Len(Base) PROVE (G \o Base)[Len(G) + j] = Base[j]
      OBVIOUS
    <2>1. /\ Len(G) + j \in 1..(Len(G) + Len(Base)) /\ ~(Len(G) + j <= Len(G))
          /\ (Len(G) + j) - Len(G) = j
      BY <1>2, <1>5
    <2> QED BY <1>4, <2>1
  <1> QED BY <1>2, <1>5, <1>6, <1>7 DEF G, Database

LEMMA MinIs ==
    ASSUME NEW S \in SUBSET Nat, S # {}
    PROVE  Min(S) \in S /\ \A y \in S : Min(S) <= y
  <1> DEFINE Less == {pair \in Nat \X Nat : pair[1] < pair[2]}
  <1>1. IsWellFoundedOn(Less, Nat)
    BY NatLessThanWellFounded DEF OpToRel
  <1>2. \E x \in S : \A y \in S : <<y, x>> \notin Less
    <2> HIDE DEF Less
    <2> QED BY <1>1, WFMin
  <1>3. \A x, y \in Nat : <<y, x>> \notin Less => x <= y
    OBVIOUS
  <1>4. \E x \in S : \A y \in S : x <= y
    BY <1>2, <1>3
  <1> QED BY <1>4 DEF Min

(* The entry of one value.                                                 *)
EntryOf(v) == CASE v.field = "domain"  -> Name(v.text)
                [] v.field = "ip"      -> Address(v.text)
                [] v.field = "process" -> <<"PROCESS-NAME", v.text>>

(* A rule by values alone takes what one of them takes.                    *)
LEMMA TakesByValue ==
    ASSUME NEW r, r.port = {}, r.network = {}, r.values \subseteq Value, NEW c
    PROVE  Takes(r, c) <=> \E v \in r.values : Meets(c, EntryOf(v))
  <1>1. \A v \in r.values : v.field \in {"domain", "ip", "process"}
    BY DEF Value
  <1>2. Entries(r) = {EntryOf(v) : v \in r.values}
    <2>1. ASSUME NEW e \in Entries(r)
          PROVE  \E v \in r.values : e = EntryOf(v)
      BY <2>1 DEF Entries, EntryOf
    <2>2. ASSUME NEW v \in r.values
          PROVE  EntryOf(v) \in Entries(r)
      <3>1. CASE v.field = "domain"
        BY <3>1 DEF Entries, EntryOf
      <3>2. CASE v.field = "ip"
        BY <3>2 DEF Entries, EntryOf
      <3>3. CASE v.field = "process"
        BY <3>3 DEF Entries, EntryOf
      <3> QED BY <1>1, <3>1, <3>2, <3>3
    <2> QED BY <2>1, <2>2
  <1> QED BY <1>2 DEF Takes

-----------------------------------------------------------------------------
(* Lines that are addresses if they say so.                                *)

(* Behind ip: stands a network, or geoip: and the name of a country.       *)
AddressesAreSo(prefixes, form) ==
    \A i \in DOMAIN prefixes : prefixes[i] = "ip" =>
        IF i = Len(prefixes) THEN form = "network" ELSE prefixes[i + 1] = "geoip"

Readable == {t \in Text : AddressesAreSo(t.prefixes, t.form)}

LEMMA NextPlace ==
    ASSUME NEW n \in Nat, NEW i \in 1..n, i # n
    PROVE  i + 1 \in 1..n
  OBVIOUS

LEMMA AddressesOfTail ==
    ASSUME NEW s \in Seq(Marks), s # <<>>, NEW form, AddressesAreSo(s, form)
    PROVE  AddressesAreSo(Tail(s), form)
  <1> DEFINE r == Tail(s)
  <1>1. r \in Seq(Marks) /\ Len(r) = Len(s) - 1 /\ \A i \in 1..Len(r) : r[i] = s[i + 1]
    BY HeadTailProperties
  <1> HIDE DEF r
  <1>2. Len(s) \in Nat /\ Len(r) \in Nat /\ DOMAIN s = 1..Len(s) /\ DOMAIN r = 1..Len(r)
    BY <1>1
  <1>3. AddressesAreSo(r, form)
    <2> SUFFICES ASSUME NEW i \in 1..Len(r), r[i] = "ip"
                 PROVE  IF i = Len(r) THEN form = "network" ELSE r[i + 1] = "geoip"
      BY <1>2 DEF AddressesAreSo
    <2> DEFINE k == i + 1
    <2>2. k \in 1..Len(s) /\ (i = Len(r) <=> k = Len(s)) /\ r[i] = s[k]
      BY <1>1, <1>2
    <2> HIDE DEF k
    <2>3. IF k = Len(s) THEN form = "network" ELSE s[k + 1] = "geoip"
      BY <1>2, <2>2 DEF AddressesAreSo
    <2>4. CASE i = Len(r)
      BY <2>2, <2>3, <2>4
    <2>5. CASE i # Len(r)
      <3>1. i + 1 \in 1..Len(r)
        BY <1>2, <2>5, NextPlace
      <3>2. r[i + 1] = s[k + 1]
        BY <1>1, <3>1 DEF k
      <3> QED BY <2>2, <2>3, <2>5, <3>2
    <2> QED BY <2>4, <2>5
  <1> QED BY <1>3 DEF r

LEMMA ReadableWithout ==
    ASSUME NEW t \in Readable, Prefix(t) # ""
    PROVE  Without(t) \in Readable
  <1>1. /\ t \in Text /\ Without(t) \in Text /\ Without(t).form = t.form
        /\ Without(t).prefixes = Tail(t.prefixes) /\ t.prefixes \in Seq(Marks) /\ t.prefixes # <<>>
    BY WithoutIsText, TextParts DEF Readable
  <1>2. AddressesAreSo(t.prefixes, t.form)
    BY DEF Readable
  <1> QED BY <1>1, <1>2, AddressesOfTail DEF Readable

LEMMA AddressesAfterProcess ==
    ASSUME NEW s \in Seq(Marks), NEW form, AddressesAreSo(s, form)
    PROVE  AddressesAreSo(<<"process">> \o s, form)
  <1> DEFINE r == <<"process">> \o s
  <1>1. /\ Len(s) \in Nat /\ DOMAIN s = 1..Len(s) /\ DOMAIN r = 1..(1 + Len(s)) /\ Len(r) = 1 + Len(s)
        /\ \A i \in 1..(1 + Len(s)) : r[i] = IF i <= 1 THEN <<"process">>[i] ELSE s[i - 1]
    <2>1. <<"process">> \in Seq(Marks) /\ Len(<<"process">>) = 1
      BY DEF Marks
    <2>2. r \in Seq(Marks) /\ Len(r) = 1 + Len(s)
      BY <2>1, ConcatProperties
    <2>3. \A i \in 1..(1 + Len(s)) : r[i] = IF i <= 1 THEN <<"process">>[i] ELSE s[i - 1]
      BY <2>1, ConcatProperties
    <2> HIDE DEF r
    <2>4. Len(s) \in Nat /\ DOMAIN s = 1..Len(s)
      OBVIOUS
    <2>5. DOMAIN r = 1..Len(r)
      BY <2>2
    <2> QED BY <2>2, <2>3, <2>4, <2>5
  <1> HIDE DEF r
  <1>2. AddressesAreSo(r, form)
    <2> SUFFICES ASSUME NEW i \in 1..(1 + Len(s)), r[i] = "ip"
                 PROVE  IF i = 1 + Len(s) THEN form = "network" ELSE r[i + 1] = "geoip"
      BY <1>1 DEF AddressesAreSo
    <2>1. i # 1
      <3> SUFFICES ASSUME i = 1 PROVE FALSE
        OBVIOUS
      <3>1. r[1] = <<"process">>[1]
        BY <1>1
      <3> QED BY <3>1
    <2> DEFINE k == i - 1
    <2>2. k \in 1..Len(s) /\ i = k + 1 /\ ~(i <= 1)
      BY <1>1, <2>1
    <2>3. s[k] = "ip"
      BY <1>1, <2>2
    <2> HIDE DEF k
    <2>4. IF k = Len(s) THEN form = "network" ELSE s[k + 1] = "geoip"
      BY <1>1, <2>2, <2>3 DEF AddressesAreSo
    <2>5. CASE k = Len(s)
      BY <1>1, <2>2, <2>4, <2>5
    <2>6. CASE k # Len(s)
      <3>1. Len(s) \in Nat /\ k \in 1..Len(s) /\ i = k + 1
        BY <1>1, <2>2
      <3>2. i # 1 + Len(s)
        BY <2>6, <3>1
      <3>3. 1 + Len(s) \in Nat
        BY <3>1
      <3>4. i + 1 \in 1..(1 + Len(s))
        BY <3>2, <3>3, NextPlace
      <3>5. ~(i + 1 <= 1) /\ (i + 1) - 1 = k + 1
        BY <3>1
      <3>6. r[i + 1] = s[k + 1]
        BY <1>1, <3>4, <3>5
      <3> QED BY <2>4, <2>6, <3>2, <3>6
    <2> QED BY <2>5, <2>6
  <1> QED BY <1>2 DEF r

LEMMA ReadableWithProcess ==
    ASSUME NEW t \in Readable
    PROVE  With("process", t) \in Readable
  <1>1. /\ t \in Text /\ With("process", t) \in Text /\ With("process", t).form = t.form
        /\ With("process", t).prefixes = <<"process">> \o t.prefixes /\ t.prefixes \in Seq(Marks)
    BY WithIsText, TextParts DEF Readable, Marks
  <1>2. AddressesAreSo(t.prefixes, t.form)
    BY DEF Readable
  <1> QED BY <1>1, <1>2, AddressesAfterProcess DEF Readable

LEMMA ReadableStarless ==
    ASSUME NEW t \in Readable
    PROVE  Starless(t) \in Readable
  <1>1. t \in Text /\ AddressesAreSo(t.prefixes, t.form)
    BY DEF Readable
  <1>2. /\ Starless(t) \in Text /\ Starless(t).prefixes = t.prefixes
        /\ t.form = "network" => Starless(t).form = "network"
    BY <1>1, StarlessIsText
  <1>3. AddressesAreSo(t.prefixes, Starless(t).form)
    BY <1>1, <1>2 DEF AddressesAreSo
  <1> QED BY <1>2, <1>3 DEF Readable

LEMMA ReadableIsClosed ==
    ASSUME NEW t \in Readable
    PROVE  /\ Again(t) \in Readable
           /\ Meaning(t).field = "ip" =>
                Prefix(Meaning(t).text) = "geoip" \/ Meaning(t).text.form = "network"
  <1>1. t \in Text
    BY DEF Readable
  <1>2. Entry(t) \in Readable
    BY <1>1, Kinds, ReadableWithout DEF Entry
  <1>3. Meaning(t).text \in Readable
    BY <1>2, ReadableStarless DEF Meaning
  <1>4. Display(Meaning(t).text) \in Readable
    BY <1>3, ReadableWithout DEF Display
  <1>5. Again(t) \in Readable
    <2>1. Meaning(t).field \in {"domain", "ip", "process"}
      BY <1>1, MeaningIsValue DEF Value
    <2> QED BY <1>1, <1>2, <1>4, <2>1, AgainIs, ReadableWithProcess
  <1>6. ASSUME Meaning(t).field = "ip"
        PROVE  Prefix(Meaning(t).text) = "geoip" \/ Meaning(t).text.form = "network"
    <2>1. Kind(t) = "ip" /\ Meaning(t).text = Entry(t)
      BY <1>1, <1>6, Kinds DEF Meaning
    <2>2. CASE Prefix(t) = "ip"
      <3> DEFINE s == t.prefixes
      <3>1. /\ Entry(t).prefixes = Tail(s) /\ Entry(t).form = t.form
            /\ s \in Seq(Marks) /\ s # <<>>
        BY <1>1, <2>1, <2>2, EntryIsText, TextParts
      <3>2. Head(s) = "ip"
        BY <2>2, <3>1 DEF Prefix
      <3>3. AddressesAreSo(s, t.form)
        BY DEF Readable
      <3> HIDE DEF s
      <3>4. 1 \in DOMAIN s /\ s[1] = "ip" /\ Len(s) \in Nat
        BY <3>1, <3>2
      <3>6. ASSUME 1 # Len(s)
            PROVE  Tail(s) # <<>> /\ Head(Tail(s)) = s[1 + 1]
        <4>1. /\ Tail(s) \in Seq(Marks) /\ Len(Tail(s)) = Len(s) - 1
              /\ \A j \in 1..(Len(s) - 1) : Tail(s)[j] = s[j + 1]
          BY <3>1, HeadTailProperties
        <4>2. 1 \in 1..(Len(s) - 1) /\ Len(Tail(s)) # 0
          BY <3>1, <3>4, <3>6, <4>1
        <4>3. Tail(s) # <<>>
          BY <4>2
        <4>4. Head(Tail(s)) = Tail(s)[1]
          BY <4>1, <4>3
        <4> QED BY <4>1, <4>2, <4>3, <4>4
      <3>5. IF 1 = Len(s) THEN t.form = "network" ELSE s[1 + 1] = "geoip"
        BY <3>3, <3>4 DEF AddressesAreSo
      <3> QED BY <2>1, <3>1, <3>5, <3>6 DEF Prefix
    <2>3. CASE t.prefixes = <<>> /\ t.form = "network"
      BY <1>1, <2>1, <2>3, EntryIsText
    <2> QED BY <1>1, <2>1, <2>2, <2>3, Kinds
  <1> QED BY <1>5, <1>6

(* No group stops the configuration from being built.                      *)
LEMMA GroupsAreReadable ==
    ASSUME NEW g \in [Outbound -> SUBSET {Meaning(t) : t \in Readable}],
           NEW i \in DOMAIN GroupRules(g)
    PROVE  /\ ~Unreadable(GroupRules(g)[i]) /\ GroupRules(g)[i].enabled
           /\ \E o \in Outbound : GroupRules(g)[i] = GroupRule(o, g[o])
  <1>1. PICK o \in Outbound : GroupRules(g)[i] = GroupRule(o, g[o])
    <2>1. ASSUME NEW p, NEW d, NEW G, NEW k \in DOMAIN G,
                 G = <<>> \/ G = <<d>> \/ G = <<p>> \/ G = <<p, d>>
          PROVE  G[k] = p \/ G[k] = d
      <3>1. CASE G = <<>>
        BY <3>1
      <3>2. CASE G = <<d>>
        BY <3>2
      <3>3. CASE G = <<p>>
        BY <3>3
      <3>4. CASE G = <<p, d>>
        BY <3>4
      <3> QED BY <2>1, <3>1, <3>2, <3>3, <3>4
    <2>2. \/ GroupRules(g)[i] = GroupRule("proxy", g["proxy"])
          \/ GroupRules(g)[i] = GroupRule("direct", g["direct"])
      BY <2>1, GroupRulesAre
    <2> QED BY <2>2 DEF Outbound
  <1>2. ~Unreadable(GroupRule(o, g[o]))
    <2> SUFFICES ASSUME NEW v \in g[o], v.field = "ip"
                 PROVE  Prefix(v.text) = "geoip" \/ v.text.form = "network"
      BY DEF Unreadable, GroupRule
    <2>1. PICK t \in Readable : v = Meaning(t)
      OBVIOUS
    <2> QED BY <2>1, ReadableIsClosed
  <1>3. ~Unreadable(GroupRules(g)[i])
    BY <1>1, <1>2
  <1>4. GroupRules(g)[i].enabled
    BY <1>1 DEF GroupRule
  <1> QED BY <1>1, <1>3, <1>4

-----------------------------------------------------------------------------
(* The user's own rules, after the groups.                                 *)

(* What each kind of entry asks of a connection.                           *)
LEMMA WhatMeets ==
    ASSUME NEW c, NEW x
    PROVE  /\ Meets(c, <<"DST-PORT", x>>) <=> c.port = x
           /\ Meets(c, <<"NETWORK", x>>) <=> c.network = x
           /\ Meets(c, <<"PROCESS-NAME", x>>) <=> c.process = x.form
           /\ Meets(c, <<"GEOIP", x>>) <=> c.to = "country" /\ x.form = "code"
           /\ Meets(c, <<"DOMAIN-SUFFIX", x>>) <=> x.form = "host" /\ c.to \in {"host", "below"}
           /\ Meets(c, <<"DOMAIN", x>>) <=> c.to = x.form
           /\ Meets(c, <<"GEOSITE", x>>) <=> c.to = x.form
           /\ Meets(c, <<"IP-CIDR", x>>) <=> c.to = x.form
  <1>1. Meets(c, <<"DST-PORT", x>>) <=> c.port = x
    BY DEF Meets
  <1>2. Meets(c, <<"NETWORK", x>>) <=> c.network = x
    BY DEF Meets
  <1>3. Meets(c, <<"PROCESS-NAME", x>>) <=> c.process = x.form
    BY DEF Meets
  <1>4. Meets(c, <<"GEOIP", x>>) <=> c.to = "country" /\ x.form = "code"
    BY DEF Meets
  <1>5. Meets(c, <<"DOMAIN-SUFFIX", x>>) <=> x.form = "host" /\ c.to \in {"host", "below"}
    BY DEF Meets
  <1>6. Meets(c, <<"DOMAIN", x>>) <=> c.to = x.form
    BY DEF Meets
  <1>7. Meets(c, <<"GEOSITE", x>>) <=> c.to = x.form
    BY DEF Meets
  <1>8. Meets(c, <<"IP-CIDR", x>>) <=> c.to = x.form
    BY DEF Meets
  <1> QED BY <1>1, <1>2, <1>3, <1>4, <1>5, <1>6, <1>7, <1>8

(* Values that are spelled as v2rayN asks for them.                        *)
Understood == {v \in Value :
    \/ v.field = "process"
    \/ v.field = "ip" /\ v.text.prefixes = <<"geoip">> /\ v.text.form = "code"
    \/ v.field = "ip" /\ v.text.prefixes = <<>> /\ v.text.form = "network"
    \/ v.field = "domain" /\ v.text.prefixes = <<"geosite">> /\ v.text.form = "code"
    \/ v.field = "domain" /\ v.text.form = "host"
       /\ \/ v.text.prefixes = <<"full">> \/ v.text.prefixes = <<"domain">>
          \/ v.text.prefixes = <<>>}

(* Conditions of one kind only, and values as above.                       *)
Plain(r) ==
    /\ r.values \subseteq Understood
    /\ \/ r.port = {} /\ r.network = {}
       \/ r.values = {} /\ r.network = {}
       \/ r.values = {} /\ r.port = {}

LEMMA OnePrefix ==
    ASSUME NEW t \in Text, NEW p \in Marks, t.prefixes = <<p>>
    PROVE  Prefix(t) = p /\ Without(t).form = t.form
  <1>1. <<p>> # <<>> /\ Head(<<p>>) = p
    OBVIOUS
  <1> QED BY <1>1 DEF Prefix, Without, Text

(* Such a value means the same to v2rayN and to Mihomo.                    *)
LEMMA ValueMeans ==
    ASSUME NEW v \in Understood, NEW c
    PROVE  /\ Meets(c, EntryOf(v)) <=> Covers(v, c)
           /\ v.field = "ip" => Prefix(v.text) = "geoip" \/ v.text.form = "network"
  <1> DEFINE t == v.text
  <1>1. t \in Text /\ v \in Value
    BY DEF Understood, Value
  <1>2. CASE v.field = "process"
    <2>1. EntryOf(v) = <<"PROCESS-NAME", t>> /\ (Covers(v, c) <=> c.process = t.form)
      BY <1>2 DEF EntryOf, Covers
    <2>4. Meets(c, EntryOf(v)) <=> Meets(c, <<"PROCESS-NAME", t>>)
      BY <2>1
    <2>5. Meets(c, <<"PROCESS-NAME", t>>) <=> c.process = t.form
      BY WhatMeets
    <2> QED BY <1>2, <2>1, <2>4, <2>5
  <1>3. CASE v.field = "ip" /\ t.prefixes = <<"geoip">> /\ t.form = "code"
    <2>1. Prefix(t) = "geoip" /\ Without(t).form = "code"
      BY <1>1, <1>3, OnePrefix DEF Marks
    <2>2. EntryOf(v) = <<"GEOIP", Without(t)>>
      BY <1>3, <2>1 DEF EntryOf, Address
    <2>3. Covers(v, c) <=> c.to = "country"
      BY <1>3, <2>1 DEF Covers
    <2>4. Meets(c, EntryOf(v)) <=> Meets(c, <<"GEOIP", Without(t)>>)
      BY <2>2
    <2>5. Meets(c, <<"GEOIP", Without(t)>>) <=> c.to = "country" /\ Without(t).form = "code"
      BY WhatMeets
    <2> QED BY <2>1, <2>2, <2>3, <2>4, <2>5
  <1>4. CASE v.field = "ip" /\ t.prefixes = <<>> /\ t.form = "network"
    <2>1. Prefix(t) # "geoip"
      BY <1>4 DEF Prefix
    <2>2. EntryOf(v) = <<"IP-CIDR", t>>
      BY <1>4, <2>1 DEF EntryOf, Address
    <2>3. Covers(v, c) <=> c.to = t.form
      BY <1>4, <2>1 DEF Covers
    <2>4. Meets(c, EntryOf(v)) <=> Meets(c, <<"IP-CIDR", t>>)
      BY <2>2
    <2>5. Meets(c, <<"IP-CIDR", t>>) <=> c.to = t.form
      BY WhatMeets
    <2> QED BY <1>4, <2>2, <2>3, <2>4, <2>5
  <1>5. CASE v.field = "domain" /\ t.prefixes = <<"geosite">> /\ t.form = "code"
    <2>1. Prefix(t) = "geosite" /\ Without(t).form = "code"
      BY <1>1, <1>5, OnePrefix DEF Marks
    <2>2. Name(t) = <<"GEOSITE", Without(t)>> /\ EntryOf(v) = Name(t)
      BY <1>5, <2>1 DEF EntryOf, Name
    <2>3. Covers(v, c) <=> c.to = "code"
      BY <1>5, <2>1 DEF Covers
    <2>4. Meets(c, EntryOf(v)) <=> Meets(c, <<"GEOSITE", Without(t)>>)
      BY <2>2
    <2>5. Meets(c, <<"GEOSITE", Without(t)>>) <=> c.to = Without(t).form
      BY WhatMeets
    <2> QED BY <1>5, <2>1, <2>2, <2>3, <2>4, <2>5
  <1>6. CASE v.field = "domain" /\ t.form = "host" /\ t.prefixes = <<"full">>
    <2>1. Prefix(t) = "full" /\ Without(t).form = "host"
      BY <1>1, <1>6, OnePrefix DEF Marks
    <2>2. Name(t) = <<"DOMAIN", Without(t)>> /\ EntryOf(v) = Name(t)
      BY <1>6, <2>1 DEF EntryOf, Name
    <2>3. Covers(v, c) <=> c.to = "host"
      BY <1>6, <2>1 DEF Covers
    <2>4. Meets(c, EntryOf(v)) <=> Meets(c, <<"DOMAIN", Without(t)>>)
      BY <2>2
    <2>5. Meets(c, <<"DOMAIN", Without(t)>>) <=> c.to = Without(t).form
      BY WhatMeets
    <2> QED BY <1>6, <2>1, <2>2, <2>3, <2>4, <2>5
  <1>7. CASE v.field = "domain" /\ t.form = "host" /\ t.prefixes = <<"domain">>
    <2>1. Prefix(t) = "domain" /\ Without(t).form = "host"
      BY <1>1, <1>7, OnePrefix DEF Marks
    <2>2. Name(t) = <<"DOMAIN-SUFFIX", Without(t)>> /\ EntryOf(v) = Name(t)
      BY <1>7, <2>1 DEF EntryOf, Name
    <2>3. Covers(v, c) <=> c.to \in {"host", "below"}
      BY <1>7, <2>1 DEF Covers
    <2>4. Meets(c, EntryOf(v)) <=> Meets(c, <<"DOMAIN-SUFFIX", Without(t)>>)
      BY <2>2
    <2>5. Meets(c, <<"DOMAIN-SUFFIX", Without(t)>>) <=> Without(t).form = "host" /\ c.to \in {"host", "below"}
      BY WhatMeets
    <2> QED BY <1>7, <2>1, <2>2, <2>3, <2>4, <2>5
  <1>8. CASE v.field = "domain" /\ t.form = "host" /\ t.prefixes = <<>>
    <2>1. Prefix(t) = "" /\ Starless(t) = t
      BY <1>8 DEF Prefix, Starless
    <2>2. Name(t) = <<"DOMAIN-SUFFIX", t>> /\ EntryOf(v) = Name(t)
      BY <1>8, <2>1 DEF EntryOf, Name
    <2>3. Covers(v, c) <=> c.to \in {"host", "below"}
      BY <1>8, <2>1 DEF Covers
    <2>4. Meets(c, EntryOf(v)) <=> Meets(c, <<"DOMAIN-SUFFIX", t>>)
      BY <2>2
    <2>5. Meets(c, <<"DOMAIN-SUFFIX", t>>) <=> t.form = "host" /\ c.to \in {"host", "below"}
      BY WhatMeets
    <2> QED BY <1>8, <2>2, <2>3, <2>4, <2>5
  <1> QED BY <1>2, <1>3, <1>4, <1>5, <1>6, <1>7, <1>8 DEF Understood

(* And so does a rule that has conditions of one kind only.                *)
LEMMA RuleMeans ==
    ASSUME NEW r \in V2rayNRule, r.enabled, Plain(r), NEW c
    PROVE  (Takes(r, c) <=> Applies(r, c)) /\ ~Unreadable(r)
  <1>1. r.values \subseteq Understood /\ r.values \subseteq Value
    BY DEF Plain, Understood
  <1>2. CASE r.port = {} /\ r.network = {}
    <2>1. Takes(r, c) <=> \E v \in r.values : Covers(v, c)
      BY <1>1, <1>2, TakesByValue, ValueMeans
    <2>2. Applies(r, c) <=> \E v \in r.values : Covers(v, c)
      BY <1>2 DEF Applies
    <2> QED BY <1>1, <2>1, <2>2, ValueMeans DEF Unreadable
  <1>3. CASE r.values = {} /\ r.network = {}
    <2>1. Entries(r) = {<<"DST-PORT", p>> : p \in r.port}
      BY <1>3 DEF Entries
    <2>2. Takes(r, c) <=> \E p \in r.port : c.port = p
      <3>1. \A p : Meets(c, <<"DST-PORT", p>>) <=> c.port = p
        BY WhatMeets
      <3>2. Takes(r, c) <=> \E p \in r.port : Meets(c, <<"DST-PORT", p>>)
        BY <2>1 DEF Takes
      <3> QED BY <3>1, <3>2
    <2>3. Applies(r, c) <=> c.port \in r.port
      BY <1>3 DEF Applies
    <2> QED BY <1>3, <2>2, <2>3 DEF Unreadable
  <1>4. CASE r.values = {} /\ r.port = {}
    <2>1. Entries(r) = {<<"NETWORK", n>> : n \in r.network}
      BY <1>4 DEF Entries
    <2>2. Takes(r, c) <=> \E n \in r.network : c.network = n
      <3>1. \A n : Meets(c, <<"NETWORK", n>>) <=> c.network = n
        BY WhatMeets
      <3>2. Takes(r, c) <=> \E n \in r.network : Meets(c, <<"NETWORK", n>>)
        BY <2>1 DEF Takes
      <3> QED BY <3>1, <3>2
    <2>3. Applies(r, c) <=> c.network \in r.network
      BY <1>4 DEF Applies
    <2> QED BY <1>4, <2>2, <2>3 DEF Unreadable
  <1> QED BY <1>2, <1>3, <1>4 DEF Plain

BaseIsPlain == \A j \in DOMAIN Base : Base[j].enabled => Plain(Base[j])

(* Where a connection goes that no group takes.                            *)
LEMMA PastTheGroups ==
    ASSUME BaseIsPlain,
           NEW g \in [Outbound -> SUBSET {Meaning(t) : t \in Readable}],
           NEW c, \A i \in DOMAIN GroupRules(g) : ~Takes(GroupRules(g)[i], c)
    PROVE  Route(Database(g), c) = Target(InV2rayN(Base, c))
  <1> DEFINE G == GroupRules(g)
             D == Database(g)
             n == Len(G)
             H == {j \in DOMAIN Base : Applies(Base[j], c)}
  <1>1. /\ n \in Nat /\ Len(Base) \in Nat /\ DOMAIN G = 1..n /\ DOMAIN Base = 1..Len(Base)
        /\ DOMAIN D = 1..(n + Len(Base))
        /\ \A i \in 1..n : D[i] = G[i]
        /\ \A j \in 1..Len(Base) : D[n + j] = Base[j]
    BY DatabaseIs
  <1>2. \A i \in 1..n : D[i].enabled /\ ~Unreadable(D[i]) /\ ~Takes(D[i], c)
    BY <1>1, GroupsAreReadable
  <1>3. \A j \in 1..Len(Base) :
           /\ D[n + j].enabled => ~Unreadable(D[n + j])
           /\ D[n + j].enabled /\ Takes(D[n + j], c) <=> Applies(Base[j], c)
    <2> SUFFICES ASSUME NEW j \in 1..Len(Base)
                 PROVE  /\ Base[j].enabled => ~Unreadable(Base[j])
                        /\ Base[j].enabled /\ Takes(Base[j], c) <=> Applies(Base[j], c)
      BY <1>1
    <2>1. Base[j] \in V2rayNRule /\ (Base[j].enabled => Plain(Base[j]))
      BY <1>1, RoutingAssumption DEF BaseIsPlain
    <2>2. Applies(Base[j], c) => Base[j].enabled
      BY DEF Applies
    <2> QED BY <2>1, <2>2, RuleMeans
  <1> HIDE DEF G, D, n
  <1>4. \A i \in DOMAIN D : i \in 1..n \/ \E j \in 1..Len(Base) : i = n + j
    <2> SUFFICES ASSUME NEW i \in 1..(n + Len(Base)), i \notin 1..n
                 PROVE  \E j \in 1..Len(Base) : i = n + j
      BY <1>1
    <2>1. i - n \in 1..Len(Base) /\ i = n + (i - n)
      BY <1>1
    <2> QED BY <2>1
  <1>5. ~\E i \in Imported(D) : Unreadable(D[i])
    BY <1>2, <1>3, <1>4 DEF Imported
  <1>6. Hits(D, c) = {n + j : j \in H}
    <2>1. ASSUME NEW i \in Hits(D, c)
          PROVE  \E j \in H : i = n + j
      <3>1. i \in DOMAIN D /\ D[i].enabled /\ Takes(D[i], c)
        BY <2>1 DEF Hits, Imported
      <3> QED BY <1>1, <1>2, <1>3, <1>4, <3>1
    <2>2. ASSUME NEW j \in H
          PROVE  n + j \in Hits(D, c)
      <3>1. j \in 1..Len(Base) /\ Applies(Base[j], c)
        BY <1>1
      <3>2. n + j \in DOMAIN D
        BY <1>1, <3>1
      <3>3. D[n + j].enabled /\ Takes(D[n + j], c)
        BY <1>3, <3>1
      <3> QED BY <3>2, <3>3 DEF Hits, Imported
    <2> HIDE DEF H
    <2> QED BY <2>1, <2>2
  <1>7. Route(D, c) = IF Hits(D, c) = {} THEN "PROXY" ELSE Target(D[Min(Hits(D, c))].outbound)
    BY <1>5 DEF Route
  <1>8. InV2rayN(Base, c) = IF H = {} THEN "proxy" ELSE Base[Min(H)].outbound
    BY DEF InV2rayN
  <1>9. H \subseteq 1..Len(Base)
    BY <1>1
  <1> HIDE DEF H
  <1>10. CASE H = {}
    BY <1>6, <1>7, <1>8, <1>10 DEF D, Target
  <1>11. CASE H # {}
    <2>1. H \in SUBSET Nat /\ Hits(D, c) \in SUBSET Nat /\ Hits(D, c) # {}
      BY <1>1, <1>6, <1>9, <1>11
    <2>2. Min(H) \in H /\ \A j \in H : Min(H) <= j
      BY <1>11, <2>1, MinIs
    <2>3. Min(Hits(D, c)) \in Hits(D, c) /\ \A i \in Hits(D, c) : Min(Hits(D, c)) <= i
      BY <2>1, MinIs
    <2>4. PICK j \in H : Min(Hits(D, c)) = n + j
      BY <1>6, <2>3
    <2>5. j = Min(H)
      <3>1. n + j <= n + Min(H)
        BY <1>6, <2>2, <2>3, <2>4
      <3>2. j \in Nat /\ Min(H) \in Nat /\ Min(H) <= j
        BY <2>1, <2>2
      <3> QED BY <1>1, <3>1, <3>2
    <2>6. D[Min(Hits(D, c))] = Base[Min(H)]
      BY <1>1, <1>9, <2>4, <2>5
    <2> QED BY <1>7, <1>8, <1>11, <2>1, <2>6 DEF D
  <1> QED BY <1>10, <1>11

(* A connection that no managed group takes goes where v2rayN would send   *)
(* it, whatever the groups hold, how many rules the user has and in which  *)
(* order, as long as the lines that say they are addresses are some and    *)
(* no switched-on rule of the user's has two kinds of conditions.          *)
THEOREM OthersAsBefore ==
    ASSUME Lines \subseteq Readable, BaseIsPlain
    PROVE  Spec => []SameRoute
  <1>1. Closed(Readable)
    BY ReadableIsClosed DEF Closed, Readable
  <1>2. Init => LinesInv(Readable)
    BY LinesInitially
  <1>3. LinesInv(Readable) /\ [Next]_vars => LinesInv(Readable)'
    BY <1>1, LinesInductive
  <1>4. LinesInv(Readable) => SameRoute
    <2> SUFFICES ASSUME LinesInv(Readable), NEW c \in Connections,
                        \A r \in Range(GroupRules(groups)) : ~Takes(r, c)
                 PROVE  Route(Database(groups), c) = Target(InV2rayN(Base, c))
      BY DEF SameRoute
    <2>1. \A i \in DOMAIN GroupRules(groups) : ~Takes(GroupRules(groups)[i], c)
      BY DEF Range
    <2> QED BY <2>1, PastTheGroups DEF LinesInv
  <1> QED BY <1>2, <1>3, <1>4, PTL DEF Spec

-----------------------------------------------------------------------------
(* What the lines say is what happens.                                     *)

(* Hosts with all that is below them, networks, lists of hosts and         *)
(* programs, in every spelling that the importer has for them.             *)
Spelled == {t \in Text :
    \/ t.form \in {"host", "wild"} /\ (t.prefixes = <<>> \/ t.prefixes = <<"domain">>)
    \/ t.form = "network" /\ (t.prefixes = <<>> \/ t.prefixes = <<"ip">>)
    \/ t.form = "code" /\ t.prefixes = <<"geosite">>
    \/ t.form = "program" /\ t.prefixes = <<"process">>}

LEMMA EntryOfPrefixed ==
    ASSUME NEW t \in Text, NEW p \in {"domain", "ip", "process"}, t.prefixes = <<p>>
    PROVE  Kind(t) = p /\ Entry(t) \in Text /\ Entry(t).form = t.form /\ Entry(t).prefixes = <<>>
  <1>1. p \in Marks
    BY DEF Marks
  <1>2. Prefix(t) = p
    BY <1>1, OnePrefix
  <1>3. Kind(t) = p
    BY <1>2 DEF Kind
  <1>4. Tail(<<p>>) = <<>>
    OBVIOUS
  <1> QED BY <1>2, <1>3, <1>4, EntryIsText

LEMMA EntryOfBare ==
    ASSUME NEW t \in Text, t.prefixes = <<>>
    PROVE  /\ Entry(t) = t
           /\ t.form = "host" => Kind(t) = "full"
           /\ t.form = "wild" => Kind(t) = "domain"
           /\ t.form = "network" => Kind(t) = "ip"
  <1>1. Prefix(t) = ""
    BY DEF Prefix
  <1>2. Entry(t) = t
    BY <1>1, Kinds DEF Entry
  <1>3. t.form = "host" => Kind(t) = "full"
    BY <1>1 DEF Kind
  <1>4. t.form = "wild" => Kind(t) = "domain"
    BY <1>1 DEF Kind
  <1>5. t.form = "network" => Kind(t) = "ip"
    BY <1>1 DEF Kind
  <1> QED BY <1>2, <1>3, <1>4, <1>5

(* Both ways to write a host, and both to write a network, come to one.    *)
LEMMA SpelledMeans ==
    ASSUME NEW t \in Spelled
    PROVE  LET m == Meaning(t) IN
           /\ t \in Text /\ m.text \in Text
           /\ t.form \in {"host", "wild", "network", "code", "program"}
           /\ t.form \in {"host", "wild"} =>
                m.field = "domain" /\ m.text.prefixes = <<>> /\ m.text.form = "host"
           /\ t.form = "network" =>
                m.field = "ip" /\ m.text.prefixes = <<>> /\ m.text.form = "network"
           /\ t.form = "code" => m.field = "domain" /\ m.text = t /\ t.prefixes = <<"geosite">>
           /\ t.form = "program" =>
                m.field = "process" /\ m.text.prefixes = <<>> /\ m.text.form = "program"
                /\ t.prefixes = <<"process">>
  <1> DEFINE e == Entry(t)
  <1>1. t \in Text
    BY DEF Spelled
  <1>2. e \in Text /\ Starless(e) \in Text /\ Meaning(t).text \in Text
    BY <1>1, EntryIsText, StarlessIsText, MeaningIsValue DEF Value
  <1>3. CASE t.form \in {"host", "wild"}
    <2>1. t.prefixes = <<>> \/ t.prefixes = <<"domain">>
      BY <1>3 DEF Spelled
    <2>2. /\ e.prefixes = <<>> /\ e.form = t.form /\ Kind(t) \in {"domain", "full"}
          /\ Kind(t) = "full" => t.form = "host"
      BY <1>1, <1>3, <2>1, EntryOfBare, EntryOfPrefixed
    <2>3. Starless(e).prefixes = <<>> /\ Starless(e).form = "host"
      BY <1>2, <1>3, <2>2, StarlessIsText
    <2>4. CASE Kind(t) = "domain"
      BY <1>1, <1>2, <1>3, <2>3, <2>4 DEF Meaning
    <2>5. CASE Kind(t) = "full"
      BY <1>1, <1>2, <1>3, <2>2, <2>5 DEF Meaning
    <2> QED BY <2>2, <2>4, <2>5
  <1>4. CASE t.form = "network"
    <2>1. t.prefixes = <<>> \/ t.prefixes = <<"ip">>
      BY <1>4 DEF Spelled
    <2>2. e.prefixes = <<>> /\ e.form = "network" /\ Kind(t) = "ip"
      BY <1>1, <1>4, <2>1, EntryOfBare, EntryOfPrefixed
    <2> QED BY <1>1, <1>2, <1>4, <2>2 DEF Meaning
  <1>5. CASE t.form = "code"
    <2>1. t.prefixes = <<"geosite">>
      BY <1>5 DEF Spelled
    <2>2. Prefix(t) = "geosite" /\ t.prefixes # <<>>
      BY <1>1, <2>1, OnePrefix DEF Marks
    <2>3. Kind(t) = "full"
      BY <1>5, <2>2 DEF Kind
    <2>4. e = t
      BY <2>2, <2>3 DEF Entry
    <2> QED BY <1>1, <1>2, <1>5, <2>1, <2>3, <2>4 DEF Meaning
  <1>6. CASE t.form = "program"
    <2>1. t.prefixes = <<"process">>
      BY <1>6 DEF Spelled
    <2>2. e.prefixes = <<>> /\ e.form = "program" /\ Kind(t) = "process"
      BY <1>1, <1>6, <2>1, EntryOfPrefixed
    <2> QED BY <1>1, <1>2, <1>6, <2>1, <2>2 DEF Meaning
  <1> QED BY <1>3, <1>4, <1>5, <1>6 DEF Spelled

LEMMA SpelledIsTame ==
    ASSUME NEW t \in Spelled
    PROVE  Tame(t)
  BY SpelledMeans DEF Tame

LEMMA SpelledIsReadable ==
    ASSUME NEW t \in Spelled
    PROVE  t \in Readable
  <1>1. t \in Text
    BY DEF Spelled
  <1>2. ASSUME t.prefixes = <<>>
        PROVE  AddressesAreSo(t.prefixes, t.form)
    BY <1>2 DEF AddressesAreSo
  <1>3. ASSUME NEW p, t.prefixes = <<p>>, p = "ip" => t.form = "network"
        PROVE  AddressesAreSo(t.prefixes, t.form)
    <2>1. DOMAIN <<p>> = {1} /\ <<p>>[1] = p /\ Len(<<p>>) = 1
      OBVIOUS
    <2> QED BY <1>3, <2>1 DEF AddressesAreSo
  <1> QED BY <1>1, <1>2, <1>3 DEF Spelled, Readable

LEMMA SpelledIsClosed ==
    ASSUME NEW t \in Spelled
    PROVE  Again(t) \in Spelled
  <1> DEFINE m == Meaning(t)
  <1>1. t \in Text /\ Again(t) \in Text /\ m.text \in Text
    BY SpelledMeans, AgainIs
  <1>2. CASE t.form \in {"host", "wild"}
    <2>1. m.field = "domain" /\ m.text.prefixes = <<>> /\ m.text.form = "host"
      BY <1>2, SpelledMeans
    <2>2. Prefix(m.text) = ""
      BY <2>1 DEF Prefix
    <2>3. Again(t) = m.text
      BY <1>1, <2>1, <2>2, AgainIs DEF Display
    <2> QED BY <1>1, <2>1, <2>3 DEF Spelled
  <1>3. CASE t.form = "network"
    <2>1. m.field = "ip" /\ m.text.prefixes = <<>> /\ m.text.form = "network"
      BY <1>3, SpelledMeans
    <2>2. Again(t) = m.text
      BY <2>1 DEF Again, Line
    <2> QED BY <1>1, <2>1, <2>2 DEF Spelled
  <1>4. CASE t.form = "code"
    <2>1. m.field = "domain" /\ m.text = t /\ t.prefixes = <<"geosite">>
      BY <1>4, SpelledMeans
    <2>2. Prefix(t) = "geosite"
      BY <1>1, <2>1, OnePrefix DEF Marks
    <2>3. Again(t) = t
      BY <1>1, <2>1, <2>2, AgainIs DEF Display
    <2> QED BY <2>3
  <1>5. CASE t.form = "program"
    <2>1. m.field = "process" /\ m.text.prefixes = <<>> /\ m.text.form = "program"
      BY <1>5, SpelledMeans
    <2>2. Again(t) = With("process", m.text)
      BY <2>1 DEF Again, Line
    <2>3. /\ Again(t).prefixes = <<"process">> \o m.text.prefixes
          /\ Again(t).form = "program"
      BY <1>1, <2>1, <2>2, WithIsText DEF Marks
    <2>4. <<"process">> \o <<>> = <<"process">>
      OBVIOUS
    <2> QED BY <1>1, <2>1, <2>3, <2>4 DEF Spelled
  <1> QED BY <1>2, <1>3, <1>4, <1>5, SpelledMeans

(* What is written for a line holds for the connections it speaks of.      *)
LEMMA SaysWhatMeets ==
    ASSUME NEW t \in Spelled, NEW c
    PROVE  Meets(c, EntryOf(Meaning(t))) <=> Says(t, c)
  <1> DEFINE m == Meaning(t)
             e == EntryOf(m)
  <1>1. t \in Text /\ m.text \in Text
    BY SpelledMeans
  <1>2. CASE t.form \in {"host", "wild"}
    <2>1. m.field = "domain" /\ m.text.prefixes = <<>> /\ m.text.form = "host"
      BY <1>2, SpelledMeans
    <2>2. Prefix(m.text) = "" /\ Starless(m.text) = m.text
      BY <2>1 DEF Prefix, Starless
    <2>3. Name(m.text) = <<"DOMAIN-SUFFIX", m.text>> /\ e = Name(m.text)
      BY <2>1, <2>2 DEF Name, EntryOf
    <2>4. Meets(c, e) <=> Meets(c, <<"DOMAIN-SUFFIX", m.text>>)
      BY <2>3
    <2>5. Meets(c, <<"DOMAIN-SUFFIX", m.text>>) <=> m.text.form = "host" /\ c.to \in {"host", "below"}
      BY WhatMeets
    <2>6. Prefix(t) # "process"
      <3>1. t.prefixes = <<>> \/ t.prefixes = <<"domain">>
        BY <1>2 DEF Spelled
      <3>2. t.prefixes = <<"domain">> => Prefix(t) = "domain"
        BY <1>1, OnePrefix DEF Marks
      <3> QED BY <3>1, <3>2 DEF Prefix
    <2>7. Says(t, c) <=> c.to \in {"host", "below"}
      BY <1>2, <2>6 DEF Says
    <2> QED BY <2>1, <2>4, <2>5, <2>7
  <1>3. CASE t.form = "network"
    <2>1. m.field = "ip" /\ m.text.prefixes = <<>> /\ m.text.form = "network"
      BY <1>3, SpelledMeans
    <2>2. Prefix(m.text) = ""
      BY <2>1 DEF Prefix
    <2>3. e = <<"IP-CIDR", m.text>>
      BY <2>1, <2>2 DEF Address, EntryOf
    <2>4. Meets(c, e) <=> Meets(c, <<"IP-CIDR", m.text>>)
      BY <2>3
    <2>5. Meets(c, <<"IP-CIDR", m.text>>) <=> c.to = m.text.form
      BY WhatMeets
    <2>6. Prefix(t) # "process"
      <3>1. t.prefixes = <<>> \/ t.prefixes = <<"ip">>
        BY <1>3 DEF Spelled
      <3>2. t.prefixes = <<"ip">> => Prefix(t) = "ip"
        BY <1>1, OnePrefix DEF Marks
      <3> QED BY <3>1, <3>2 DEF Prefix
    <2>7. Says(t, c) <=> c.to = "network"
      BY <1>3, <2>6 DEF Says
    <2> QED BY <2>1, <2>4, <2>5, <2>7
  <1>4. CASE t.form = "code"
    <2>1. m.field = "domain" /\ m.text = t /\ t.prefixes = <<"geosite">>
      BY <1>4, SpelledMeans
    <2>2. Prefix(t) = "geosite" /\ Without(t).form = "code"
      BY <1>1, <1>4, <2>1, OnePrefix DEF Marks
    <2>3. Name(t) = <<"GEOSITE", Without(t)>> /\ e = Name(t)
      BY <2>1, <2>2 DEF Name, EntryOf
    <2>4. Meets(c, e) <=> Meets(c, <<"GEOSITE", Without(t)>>)
      BY <2>3
    <2>5. Meets(c, <<"GEOSITE", Without(t)>>) <=> c.to = Without(t).form
      BY WhatMeets
    <2>6. Says(t, c) <=> c.to = "code"
      BY <1>4, <2>2 DEF Says
    <2> QED BY <2>2, <2>4, <2>5, <2>6
  <1>5. CASE t.form = "program"
    <2>1. /\ m.field = "process" /\ m.text.form = "program" /\ t.prefixes = <<"process">>
      BY <1>5, SpelledMeans
    <2>2. Prefix(t) = "process"
      BY <1>1, <2>1, OnePrefix DEF Marks
    <2>3. e = <<"PROCESS-NAME", m.text>>
      BY <2>1 DEF EntryOf
    <2>4. Meets(c, e) <=> Meets(c, <<"PROCESS-NAME", m.text>>)
      BY <2>3
    <2>5. Meets(c, <<"PROCESS-NAME", m.text>>) <=> c.process = m.text.form
      BY WhatMeets
    <2>6. Says(t, c) <=> c.process = "program"
      BY <2>2 DEF Says
    <2> QED BY <2>1, <2>4, <2>5, <2>6
  <1> QED BY <1>2, <1>3, <1>4, <1>5, SpelledMeans

(* The configuration can be built from the user's own rules.               *)
BaseIsReadable == \A j \in DOMAIN Base : Base[j].enabled => ~Unreadable(Base[j])

(* The groups come first, and the Proxy group before the other.            *)
LEMMA TheGroupsDecide ==
    ASSUME BaseIsReadable,
           NEW g \in [Outbound -> SUBSET {Meaning(t) : t \in Readable}], NEW c
    PROVE  LET p == GroupRule("proxy", g["proxy"])
               d == GroupRule("direct", g["direct"])
           IN  /\ Takes(p, c) => Route(Database(g), c) = "PROXY"
               /\ ~Takes(p, c) /\ Takes(d, c) => Route(Database(g), c) = "DIRECT-BOUND"
  <1> DEFINE p == GroupRule("proxy", g["proxy"])
             d == GroupRule("direct", g["direct"])
             G == GroupRules(g)
             D == Database(g)
             n == Len(G)
  <1>1. /\ n \in 0..2 /\ Len(Base) \in Nat /\ DOMAIN G = 1..n /\ DOMAIN Base = 1..Len(Base)
        /\ DOMAIN D = 1..(n + Len(Base))
        /\ \A i \in 1..n : D[i] = G[i]
        /\ \A j \in 1..Len(Base) : D[n + j] = Base[j]
    BY DatabaseIs
  <1>2. \A i \in 1..n : D[i].enabled /\ ~Unreadable(D[i])
    BY <1>1, GroupsAreReadable
  <1>3. G = IF g["proxy"] = {} THEN IF g["direct"] = {} THEN <<>> ELSE <<d>>
            ELSE IF g["direct"] = {} THEN <<p>> ELSE <<p, d>>
    BY GroupRulesAre
  <1>4. ASSUME NEW o
        PROVE  Takes(GroupRule(o, g[o]), c) => g[o] # {}
    BY DEF Takes, Entries, GroupRule
  <1>5. p.outbound = "proxy" /\ d.outbound = "direct"
    BY DEF GroupRule
  <1>6. Takes(p, c) => g["proxy"] # {}
    BY <1>4
  <1>7. Takes(d, c) => g["direct"] # {}
    BY <1>4
  <1> HIDE DEF p, d, G, D, n
  <1>8. ~\E i \in Imported(D) : Unreadable(D[i])
    <2> SUFFICES ASSUME NEW i \in 1..(n + Len(Base)), D[i].enabled
                 PROVE  ~Unreadable(D[i])
      BY <1>1 DEF Imported
    <2>1. CASE i \in 1..n
      BY <1>2, <2>1
    <2>2. CASE i \notin 1..n
      <3>1. i - n \in 1..Len(Base) /\ n + (i - n) = i
        BY <1>1, <2>2
      <3>2. D[i] = Base[i - n]
        BY <1>1, <3>1
      <3> QED BY <1>1, <3>1, <3>2 DEF BaseIsReadable
    <2> QED BY <2>1, <2>2
  <1>9. ASSUME NEW i \in 1..n, Takes(D[i], c), \A k \in 1..n : k < i => ~Takes(D[k], c)
        PROVE  Route(D, c) = Target(D[i].outbound)
    <2>1. i \in DOMAIN D /\ i \in Nat
      BY <1>1
    <2>2. i \in Hits(D, c)
      BY <1>2, <1>9, <2>1 DEF Hits, Imported
    <2>3. Hits(D, c) \in SUBSET Nat /\ Hits(D, c) \subseteq DOMAIN D
      BY <1>1 DEF Hits, Imported
    <2>4. Min(Hits(D, c)) \in Hits(D, c) /\ Min(Hits(D, c)) <= i
      BY <2>2, <2>3, MinIs
    <2>5. ASSUME NEW k \in Hits(D, c), k <= i
          PROVE  k = i
      <3>1. k \in 1..(n + Len(Base)) /\ Takes(D[k], c)
        BY <1>1, <2>3 DEF Hits
      <3>2. k < i => k \in 1..n
        BY <1>1, <2>1, <3>1
      <3> QED BY <1>1, <1>9, <2>1, <2>5, <3>1, <3>2
    <2>6. Min(Hits(D, c)) = i
      BY <2>4, <2>5
    <2> QED BY <1>8, <2>2, <2>6 DEF Route
  <1>10. ASSUME Takes(p, c)
         PROVE  Route(D, c) = "PROXY"
    <2>1. G = <<p>> \/ G = <<p, d>>
      BY <1>3, <1>6, <1>10
    <2>2. 1 \in 1..n /\ G[1] = p
      BY <2>1 DEF n
    <2>3. D[1] = p /\ \A k \in 1..n : ~(k < 1)
      BY <1>1, <2>2
    <2>4. Route(D, c) = Target(D[1].outbound)
      BY <1>9, <1>10, <2>2, <2>3
    <2> QED BY <1>5, <2>3, <2>4 DEF Target
  <1>11. ASSUME ~Takes(p, c), Takes(d, c)
         PROVE  Route(D, c) = "DIRECT-BOUND"
    <2>1. PICK i \in 1..n : G[i] = d /\ \A k \in 1..n : k < i => G[k] = p
      <3>1. G = <<d>> \/ G = <<p, d>>
        BY <1>3, <1>7, <1>11
      <3>2. CASE G = <<d>>
        <4>1. n = 1 /\ G[1] = d
          BY <3>2 DEF n
        <4> QED BY <4>1
      <3>3. CASE G = <<p, d>>
        <4>1. n = 2 /\ G[1] = p /\ G[2] = d
          BY <3>3 DEF n
        <4>2. 2 \in 1..n /\ \A k \in 1..n : k < 2 => k = 1
          BY <4>1
        <4> QED BY <4>1, <4>2
      <3> QED BY <3>1, <3>2, <3>3
    <2>2. D[i] = d /\ \A k \in 1..n : k < i => D[k] = p
      BY <1>1, <2>1
    <2>3. Route(D, c) = Target(D[i].outbound)
      BY <1>9, <1>11, <2>1, <2>2
    <2> QED BY <1>5, <2>2, <2>3 DEF Target
  <1> QED BY <1>10, <1>11 DEF p, d, D

(* Once lines are applied, what they say of a connection is what happens   *)
(* to it: whichever spelling was used, whatever lines it was merged with,  *)
(* whatever rules of their own the user has; a Proxy line decides against  *)
(* a Direct one.                                                           *)
THEOREM LinesDecide ==
    ASSUME Lines \subseteq Spelled, BaseIsReadable
    PROVE  Spec => RoutesAsTyped
  <1> DEFINE Inv == LinesInv(Spelled)
  <1>1. Closed(Spelled) /\ Spelled \subseteq Text /\ Spelled \subseteq Readable
    BY SpelledIsClosed, SpelledIsReadable DEF Closed, Spelled
  <1>2. Init => Inv
    BY LinesInitially
  <1>3. Inv /\ [Next]_vars => Inv'
    BY <1>1, LinesInductive
  <1>4. ASSUME Inv, Apply
        PROVE  AsTyped(groups')
    <2>1. PICK M : Chosen(M) /\ groups' = [q \in Outbound |-> Managed(M, q)]
      BY <1>4, Applying
    <2>2. ASSUME NEW o \in Outbound
          PROVE  groups'[o] = {Meaning(t) : t \in LinesOf(o)} /\ LinesOf(o) \subseteq Spelled
      <3>1. groups'[o] = {Meaning(t) : t \in LinesOf(o)}
        BY <1>1, <1>4, <2>1, SpelledIsTame, WritesTheLines
      <3>2. LinesOf(o) \subseteq Spelled
        BY <1>4 DEF LinesInv, LinesOf
      <3> QED BY <3>1, <3>2
    <2> DEFINE g == groups'
    <2>3. g \in [Outbound -> SUBSET {Meaning(t) : t \in Readable}]
      <3>1. g = [o \in Outbound |-> g[o]]
        BY <2>1
      <3> QED BY <1>1, <2>2, <3>1
    <2>4. ASSUME NEW o \in Outbound, NEW c
          PROVE  Takes(GroupRule(o, g[o]), c) <=> \E t \in LinesOf(o) : Says(t, c)
      <3> DEFINE r == GroupRule(o, g[o])
      <3>1. r.values = {Meaning(t) : t \in LinesOf(o)} /\ r.port = {} /\ r.network = {}
        BY <2>2 DEF GroupRule
      <3>2. r.values \subseteq Value
        BY <1>1, <2>2, <3>1, MeaningIsValue
      <3> HIDE DEF r
      <3>3. Takes(r, c) <=> \E v \in r.values : Meets(c, EntryOf(v))
        BY <3>1, <3>2, TakesByValue
      <3>4. \A t \in LinesOf(o) : Meets(c, EntryOf(Meaning(t))) <=> Says(t, c)
        BY <2>2, SaysWhatMeets
      <3>5. Takes(r, c) <=> \E t \in LinesOf(o) : Says(t, c)
        BY <3>1, <3>3, <3>4
      <3> QED BY <3>5 DEF r
    <2> HIDE DEF g
    <2>5. ASSUME NEW c
          PROVE  /\ (\E t \in LinesOf("proxy") : Says(t, c)) => Route(Database(g), c) = "PROXY"
                 /\ ~(\E t \in LinesOf("proxy") : Says(t, c)) /\ (\E t \in LinesOf("direct") : Says(t, c))
                      => Route(Database(g), c) = "DIRECT-BOUND"
      BY <2>3, <2>4, TheGroupsDecide DEF Outbound
    <2>6. AsTyped(g)
      BY <2>5 DEF AsTyped
    <2> QED BY <2>6 DEF g
  <1>5. Inv /\ [Next]_vars => [Apply => AsTyped(groups')]_vars
    BY <1>4
  <1> HIDE DEF Inv
  <1> QED BY <1>2, <1>3, <1>5, PTL DEF Spec, RoutesAsTyped
=============================================================================
