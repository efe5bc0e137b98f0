------------------------------ MODULE Synthesis ------------------------------
(***************************************************************************)
(* From the property tree to an answer and back (swagger/monomorphisizer.go,*)
(* synth.go, json_value.go, as synthResponse and the end of Handle in       *)
(* mockserver/server.go use them): the tree is split into instances without *)
(* a choice of variant, each is synthesized, one is answered, and the body  *)
(* is read back against the whole tree, which gives each leaf a position.   *)
(* The next run of the execution makes the request again, for which all is  *)
(* done anew (the cache is used only under an override, expander.go:139).   *)
(*                                                                          *)
(* A body is a tagged record; a leaf keeps, as history, the property it was *)
(* synthesized from.  The words of a file (enumerations, discriminators)    *)
(* have a shape of their own: that a generated string spells one of them is *)
(* left out.                                                                *)
(***************************************************************************)
EXTENDS Expander, Rnd

CONSTANTS
  Tokens,          \* of a name that is not its own one token, what it splits into
  FirstHour, LastHour, \* bound: the clock at the first run, and at most at the second
  NoPath,          \* no property
  Absent, Panic    \* nothing synthesized; the synthesizer panics

ASSUME HoursAssumption == FirstHour \in Nat /\ LastHour \in Nat /\ FirstHour <= LastHour

VARIABLES
  instances,   \* modelInstances, each the set of its paths
  synthesized, \* the instances that were synthesized
  rnd,         \* the generator of the server
  responses,   \* the bodies synthesized so far
  leaves,      \* the leaves of the recorded body: [at, from, pos, value]
  before       \* history: the bodies of the run before this one

synthVars == <<instances, synthesized, rnd, responses, leaves, before>>
allVars == <<expanderVars, variantVars, synthVars>>

Branch(inst, p) == {e \in prop[p].kids : Append(p, e) \in inst}

-------------------------------------------------------------------------------
(* Variant: one combination stands for all.                                 *)
CatesianProductFirst(p, below) ==
  {{p} \cup UNION {CHOOSE b \in below[e] : TRUE : e \in DOMAIN below}}

(* An instance of p for each way to take one instance of each of its kids.  *)
CatesianProduct(p, below) ==
  LET With(e, insts) == {i \cup b : i \in insts, b \in below[e]}
  IN  FoldSet(With, {{p}}, DOMAIN below)

(* The instances below p.  A kid without an instance is left out of an      *)
(* object; a property all whose kids have none has none itself, unless it   *)
(* is an object without properties.                                         *)
RECURSIVE Monomorphization(_)
Monomorphization(p) ==
  LET below == [e \in prop[p].kids |-> Monomorphization(Append(p, e))]
      live == {e \in prop[p].kids : below[e] # {}}
      each == UNION {below[e] : e \in live}
  IN  CASE prop[p].has = "nothing" -> {{p}}
        [] prop[p].has = "element" -> {{p} \cup i : i \in each}
        [] prop[p].has = "variants" -> {{p} \cup i : i \in each}
        [] prop[p].has = "children" ->
             IF prop[p].kids # {} /\ live = {} THEN {}
             ELSE CatesianProduct(p, [e \in live |-> below[e]])

IsMono(inst) ==
  \A p \in inst : prop[p].has = "variants" => Cardinality(Branch(inst, p)) <= 1

-------------------------------------------------------------------------------
Leaf(p, g) == [json |-> [t |-> "leaf", v |-> g.value, from |-> p], rnd |-> g.rnd]
Without(r) == [json |-> Absent, rnd |-> r]
Key(i) == IF i = 1 THEN "KEY" ELSE "KEY" \o ToString(i - 1)

Name(p) ==
  IF prop[p].addr = <<>> \/ Last(prop[p].addr).kind # "prop" THEN ""
  ELSE Last(prop[p].addr).name

(* Variant: only an array is taken for circular.                            *)
ArrayOnly == {"array"}

(* Types without a value of their own: a circular reference was hit.        *)
CircularTypes == {"object", "array"}

(* A leaf, or nothing where a circular reference was hit.                   *)
SynthLeaf(parent, p, r) ==
  LET s == prop[p].schema
      isDiscriminator == /\ parent # NoPath
                         /\ prop[parent].discriminator # ""
                         /\ prop[parent].discriminator = Name(p)
  IN  CASE s.type = "" -> [json |-> Panic, rnd |-> r]   \* len(Type) is not 1
        [] s.type \in CircularTypes -> Without(r)
        [] s.type = "string" ->
             IF isDiscriminator
               THEN Leaf(p, [rnd |-> r, value |-> <<"text", prop[parent].value>>])
             ELSE IF Operations[operation].useEnumValues /\ s.enum # <<>>
               THEN Leaf(p, [rnd |-> r, value |-> <<"text", s.enum[1]>>])
             ELSE Leaf(p, NextString(r, s.format))
        [] s.type = "file" -> Leaf(p, NextString(r, s.format))
        [] s.type = "integer" -> Leaf(p, NextInteger(r))
        [] s.type = "number" -> Leaf(p, NextNumber(r))
        [] s.type = "boolean" -> Leaf(p, [rnd |-> r, value |-> <<"boolean", "TRUE">>])
        [] OTHER -> [json |-> Panic, rnd |-> r]   \* unknown type

Duplicates(addr) ==
  LET d == Operations[operation].duplicateElements IN IF addr \in DOMAIN d THEN d[addr] ELSE 0

(* The elements of an array or a map: one, and as many as duplicate_element *)
(* adds.  A map takes as many as it asked for, an array what it got; a Go   *)
(* slice that got nothing is null in the body.                              *)
Collection(p, asked, got) ==
  IF Panic \in Range(got) THEN Panic
  ELSE LET v == SelectSeq(got, LAMBDA j : j # Absent) IN
    IF SchemaIsArray(prop[p].schema)
      THEN IF v = <<>> THEN [t |-> "null"] ELSE [t |-> "array", v |-> v]
      ELSE IF Len(v) < asked THEN Panic
           ELSE [t |-> "object",
                 v |-> [k \in {Key(i) : i \in 1..asked} |->
                          v[CHOOSE i \in 1..asked : Key(i) = k]]]

Object(keys, got) ==
  IF Panic \in Range(got) THEN Panic
  ELSE [t |-> "object",
        v |-> [k \in {keys[i][2] : i \in {j \in DOMAIN keys : got[j] # Absent}} |->
                 got[CHOOSE i \in DOMAIN keys : keys[i][2] = k]]]

(* sort.Strings: any one order.                                             *)
Sorted(S) == FoldSet(LAMBDA e, s : Append(s, e), <<>>, S)

(* Synthesize: the body of the instance below p, and the generator after.   *)
RECURSIVE Synth(_, _, _, _)
Synth(inst, parent, p, r) ==
  LET Take(acc, e) ==
        LET s == Synth(inst, p, Append(p, e), acc.rnd)
        IN  [json |-> Append(acc.json, s.json), rnd |-> s.rnd]
      All(edges) == FoldLeft(Take, [json |-> <<>>, rnd |-> r], edges)
  IN  CASE prop[p].has = "element" ->
             LET asked == 1 + Duplicates(prop[p].addr)
                 all == All([i \in 1..asked |-> <<"element", "">>])
             IN  [json |-> Collection(p, asked, all.json), rnd |-> all.rnd]
        [] prop[p].has = "children" ->
             LET keys == Sorted(Branch(inst, p))
                 all == All(keys)
             IN  [json |-> Object(keys, all.json), rnd |-> all.rnd]
        [] prop[p].has = "variants" ->
             Synth(inst, p, Append(p, CHOOSE e \in Branch(inst, p) : TRUE), r)
        [] prop[p].has = "nothing" -> SynthLeaf(parent, p, r)

-------------------------------------------------------------------------------
(* UnmarshalJSONToJSONValue: a body read against the property at p, at loc  *)
(* in the body.  Of a polymorphic property the variant is taken that the    *)
(* discriminator in the body names.                                         *)
Read(is, ls) == [is |-> is, leaves |-> ls]

(* Variant: any of the variants is taken.                                   *)
ChosenAny(json, p) == [is |-> "ok", p |-> Append(p, CHOOSE e \in prop[p].kids : TRUE)]

Chosen(json, p) ==
  LET d == prop[Append(p, CHOOSE e \in prop[p].kids : TRUE)].discriminator
      named == {e \in prop[p].kids :
                  d \in DOMAIN json.v /\ json.v[d].t = "leaf" /\ json.v[d].v = <<"text", e[2]>>}
  IN  IF d \in DOMAIN json.v /\ json.v[d].t = "leaf" /\ json.v[d].v[1] \notin {"integer", "number", "boolean"}
        THEN [is |-> "ok", p |-> IF named = {} THEN NoPath ELSE Append(p, CHOOSE e \in named : TRUE)]
        ELSE [is |-> "error", p |-> NoPath]

(* The property of an element or a member, NoPath if none defines it.       *)
Kid(p, edge) == IF p # NoPath /\ edge \in prop[p].kids THEN Append(p, edge) ELSE NoPath
Member(p, k) ==
  IF p # NoPath /\ prop[p].has = "element" THEN Kid(p, <<"element", "">>)
  ELSE Kid(p, <<"child", k>>)

RECURSIVE JsonVal(_, _, _)
JsonVal(json, p, loc) ==
  LET polymorphic == p # NoPath /\ prop[p].has = "variants" /\ prop[p].kids # {}
      choice == IF polymorphic THEN Chosen(json, p) ELSE [is |-> "ok", p |-> p]
      q == choice.p
      sub == IF json.t = "array"
               THEN [i \in DOMAIN json.v |->
                       JsonVal(json.v[i], Kid(q, <<"element", "">>), Append(loc, ToString(i - 1)))]
               ELSE [k \in DOMAIN json.v |-> JsonVal(json.v[k], Member(q, k), Append(loc, k))]
      bad == {k \in DOMAIN sub : sub[k].is # "ok"}
  IN  IF polymorphic /\ json.t # "object" THEN Read("panic", {})
      ELSE IF choice.is # "ok" THEN Read("error", {})
      ELSE CASE json.t = "null" -> Read("ok", {})
             [] json.t = "leaf" -> Read("ok", {[at |-> loc, from |-> json.from, pos |-> q, value |-> json.v]})
             [] json.t \in {"array", "object"} ->
                  IF bad # {} THEN Read(sub[CHOOSE k \in bad : TRUE].is, {})
                  ELSE Read("ok", UNION {sub[k].leaves : k \in DOMAIN sub})

-------------------------------------------------------------------------------
SynthInit ==
  /\ Init
  /\ instances = {} /\ synthesized = {} /\ rnd = NewRnd(FirstHour) /\ responses = <<>>
  /\ leaves = {} /\ before = <<>>

Expanding == ExpandStep /\ UNCHANGED synthVars

Monomorphize ==
  /\ pc = "expanded"
  /\ instances' = Monomorphization(<<>>)
  /\ pc' = "synthesize"
  /\ UNCHANGED <<operation, prop, worklist, nextLevel, current, objectVars, variantMaps, variantVars,
                 synthesized, rnd, responses, leaves, before>>

(* NewSynthesizer and Synthesize, for one instance after the other.         *)
Synthesize ==
  /\ pc = "synthesize" /\ synthesized # instances
  /\ LET i == CHOOSE i \in instances \ synthesized : TRUE
         s == Synth(i, NoPath, <<>>, rnd)
     IN  /\ synthesized' = synthesized \cup {i}
         /\ rnd' = s.rnd
         /\ pc' = IF ~IsMono(i) THEN "error" ELSE IF s.json = Panic THEN "panic" ELSE pc
         /\ responses' = IF s.json \in {Absent, Panic} THEN responses ELSE Append(responses, s.json)
  /\ UNCHANGED <<operation, prop, worklist, nextLevel, current, objectVars, variantMaps, variantVars,
                 instances, leaves, before>>

(* selResponse picks one of the bodies, the last lines of Handle record it. *)
Answer ==
  /\ pc = "synthesize" /\ synthesized = instances
  /\ \/ responses = <<>> /\ pc' = "error" /\ UNCHANGED leaves
     \/ \E body \in Range(responses) :
          LET d == JsonVal(body, <<>>, <<>>)
          IN  /\ pc' = CASE d.is = "ok" -> "answered"
                         [] d.is = "error" -> "unreadable"
                         [] d.is = "panic" -> "panic"
              /\ leaves' = d.leaves
  /\ UNCHANGED <<operation, prop, worklist, nextLevel, current, objectVars, variantMaps, variantVars,
                 instances, synthesized, rnd, responses, before>>

(* InitVibration starts the generator anew, with what the clock reads now,  *)
(* and the program makes its request as before.                             *)
Again ==
  /\ pc = "answered" /\ before = <<>>
  /\ before' = responses
  /\ pc' = "new" /\ prop' = Empty /\ variantMaps' = Empty
  /\ instances' = {} /\ synthesized' = {} /\ responses' = <<>>
  /\ \E h \in FirstHour..LastHour : rnd' = NewRnd(h)
  /\ leaves' = {}
  /\ UNCHANGED <<operation, worklist, nextLevel, current, objectVars, variantVars>>

Ended ==
  \/ pc \in {"unreadable", "error", "panic"}
  \/ pc = "answered" /\ before # <<>>
Terminated == Ended /\ UNCHANGED allVars

Next == Expanding \/ Monomorphize \/ Synthesize \/ Answer \/ Again \/ Terminated

(* A handler keeps running until it has ended: WF_allVars(Next) with its    *)
(* ENABLED spelled out, which the absence of deadlocks justifies.           *)
Fairness == []<>Ended \/ []<><<Next>>_allVars
Spec == SynthInit /\ [][Next]_allVars /\ Fairness

-------------------------------------------------------------------------------
(* Every leaf that is recorded has the position of the property it was      *)
(* synthesized from, through the choice of instance and the way back over   *)
(* the discriminators (json_value.go:215).                                  *)
PositionsAreOrigins == \A l \in leaves : l.pos = l.from

(* Nothing can be synthesized below p: all ways on were cut.                *)
RECURSIVE Dead(_)
Dead(p) ==
  /\ prop[p].has \in {"element", "variants"} \/ prop[p].kids # {}
  /\ \A e \in prop[p].kids : Dead(Append(p, e))
Live(p) == \A q \in Above(p) \cup {p} : ~Dead(q)

(* p and q belong to different variants of one property.                    *)
Exclude(p, q) ==
  \E a \in Above(p) \cap Above(q) :
    prop[a].has = "variants" /\ p[Len(a) + 1] # q[Len(a) + 1]

(* Any two properties that do not exclude each other are together in an     *)
(* instance, unless they are dead, and an instance has no two that do       *)
(* (monomorphisizer.go:34).                                                 *)
InstancesMeetAllChoices ==
  pc = "synthesize" /\ synthesized = {} =>
    /\ \A p, q \in {x \in DOMAIN prop : Live(x)} :
         Exclude(p, q) \/ \E i \in instances : {p, q} \subseteq i
    /\ \A i \in instances : \A p, q \in i : ~Exclude(p, q) /\ Live(p)

(* All leaves of all the bodies synthesized for a request.                  *)
Synthesized ==
  UNION {{[body |-> i, at |-> l.at, value |-> l.value] :
            l \in JsonVal(responses[i], NoPath, <<>>).leaves} : i \in DOMAIN responses}

(* Two leaves have one value only if the generator does not make it, or it  *)
(* may repeat: a time of day comes back after a day, and at the end of      *)
(* summer time, when a date may too (random.go:89); the bytes of a binary   *)
(* can print alike (random.go:87).  That base64 can spell a later raw       *)
(* string (random.go:80) takes thousands of calls, NoValueTwice excepts it. *)
GeneratedValuesDiffer ==
  pc = "synthesize" => \A a, b \in Synthesized :
    a.value = b.value /\ a # b =>
      a.value[1] \in {"text", "boolean", "time", "date", "binary"}

(* ToPointer: where the address of a property says its leaf is.  Its names  *)
(* are joined by "/" as they are, and the text is split and unescaped as a  *)
(* JSON pointer; a text without names, "/", has one empty token.            *)
TokensOf(name) == IF name \in DOMAIN Tokens THEN Tokens[name] ELSE <<name>>
ToPointer(addr) ==
  IF addr = <<>> THEN <<"">>
  ELSE FlattenSeq([i \in DOMAIN addr |->
                     IF addr[i].kind = "index" THEN <<"0">> ELSE TokensOf(addr[i].name)])

(* The vibration built from an address hits the leaf it was built from,     *)
(* except for a body that is a leaf itself, everything below a polymorphic  *)
(* root, entries of maps, elements after the first, and whatever is below   *)
(* a name with a "/", a "~0" or a "~1" (ctrl.go:472).                       *)
FindableExactly ==
  \A l \in leaves :
    LET way == SelectSeq(l.pos, LAMBDA e : e[1] # "variant")
    IN  ToPointer(prop[l.pos].addr) = l.at <=>
          /\ l.at # <<>> /\ prop[<<>>].has # "variants"
          /\ \A i \in DOMAIN l.at :
               IF way[i][1] = "element" THEN l.at[i] = "0" ELSE l.at[i] \notin DOMAIN Tokens

(* Expansion, synthesis and answer come to an end (expander.go:145,         *)
(* variant_map.go:31, variant_map.go:69).                                   *)
Termination == <>Ended

(* What is answered was read against the tree it was synthesized from       *)
(* (expander.go:414).                                                       *)
AnswersAreReadable == pc # "unreadable"

(* A request that was expanded is answered: the handler neither panics      *)
(* where a circular reference was cut (synth.go:129) nor refuses the body   *)
(* it has made itself.                                                      *)
HandlersComeThrough == pc # "panic" /\ AnswersAreReadable

(* No two models derive from others under one value in one file.            *)
ValuesDiffer ==
  \A file \in DOMAIN doc :
    LET defs == doc[file].definitions
        heirs == {d \in DOMAIN defs : \E i \in DOMAIN defs[d].allOf : defs[d].allOf[i].ref # None}
        Value(d) == IF defs[d].value = None THEN d ELSE defs[d].value
    IN  \A d, e \in heirs : d # e => Value(d) # Value(e)

(* A body without what it shows of the clock.                               *)
RECURSIVE Timeless(_)
Timeless(json) ==
  CASE json.t = "null" -> json
    [] json.t = "leaf" ->
         IF json.v[1] \in TimeFormats THEN [json EXCEPT !.v = <<json.v[1]>>] ELSE json
    [] json.t \in {"array", "object"} ->
         [json EXCEPT !.v = [k \in DOMAIN json.v |-> Timeless(json.v[k])]]

(* Two runs of one request get the same bodies with the same values but for *)
(* dates and times, in whatever order Go walks its maps each time and       *)
(* whatever the clock reads (expander.go:158, variant_map.go:71): vibrate   *)
(* takes every difference for the vibration's.                              *)
SameAgain ==
  before # <<>> /\ pc = "synthesize" /\ synthesized = instances /\ ValuesDiffer =>
    /\ DOMAIN responses = DOMAIN before
    /\ \A i \in DOMAIN before : Timeless(responses[i]) = Timeless(before[i])
===============================================================================
