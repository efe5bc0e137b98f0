----------------------------- MODULE MCSynthesis -----------------------------
(* Specification files for Synthesis, each a shape the expander treats in a *)
(* way of its own.                                                          *)
EXTENDS Synthesis

Plain == [StringSchema EXCEPT !.type = ""]
Str(format) == [StringSchema EXCEPT !.format = format]
Type(t) == [Plain EXCEPT !.type = t]
Obj(properties) == [Plain EXCEPT !.type = "object", !.properties = properties]
Arr(items) == [Plain EXCEPT !.type = "array", !.items = items]
Map(element) == [Plain EXCEPT !.type = "object", !.additionalProperties = element]
To(file, name) == [Plain EXCEPT !.ref = <<file, <<"definitions", name>>>>]
A(name) == To("a", name)
Bases_(names, s) == [s EXCEPT !.allOf = [i \in DOMAIN names |-> A(names[i])]]
Base(discriminator, s) == [s EXCEPT !.discriminator = discriminator]

(* A file with one operation, and an operation on it.                       *)
File(definitions_, schema) ==
  [definitions |-> definitions_,
   responses |-> <<>>,
   paths |-> [get |-> [kind |-> "get",
                       responses |-> ("200" :> [ref |-> None, schema |-> schema])]]]
Operation(doc_) ==
  [doc |-> doc_, ref |-> <<"a", <<"paths", "get">>>>, emptyObjAsStr |-> FALSE,
   useEnumValues |-> TRUE, duplicateElements |-> <<>>]
Get_(definitions_, schema) == Operation([a |-> File(definitions_, schema)])

At_(names) == [i \in DOMAIN names |->
                IF names[i] = "*" THEN IndexStep ELSE PropStep(names[i])]

-------------------------------------------------------------------------------
(* All kinds of leaves and of containers, without references.               *)
Scalars == Obj([
  id |-> Str("arm-id"), size |-> Type("integer"), ratio |-> Type("number"),
  on |-> Str("date-time"), tier |-> [Str("") EXCEPT !.enum = <<"free", "paid">>],
  up |-> Type("boolean"), key |-> Str("uuid"), hash |-> Str("byte"),
  from |-> Str("date"), to |-> Str("date")])
Containers == Obj([
  list |-> Arr(Str("")), tags |-> Map(Str("")), any |-> Map(Anything),
  none |-> Obj(<<>>), rows |-> Arr(Arr(Str("uri"))), opaque |-> Map(Obj(<<>>))])

(* Names that are not one token of a JSON pointer.                          *)
Names == Obj(("odata/type" :> Str("")) @@ ("m~1n" :> Str("")) @@ ("a~b" :> Str(""))
             @@ ("in/out" :> Obj([way |-> Str("time")])))
MCTokens == ("odata/type" :> <<"odata", "type">>) @@ ("m~1n" :> <<"m/n">>)
            @@ ("in/out" :> <<"in", "out">>)

(* Summer time ends while the generator makes dates.                        *)
MCSummer == 0..59

(* A schema that leads back to itself in every way, also as a base.         *)
Tree == [Tree |-> Obj([name |-> Str(""), parent |-> A("Tree"),
                       kids |-> Arr(A("Tree")), index |-> Map(A("Tree")),
                       self |-> A("Alias"), leaf |-> A("Leaf")]),
         Leaf |-> Bases_(<<"Tree">>, Obj([age |-> Type("integer")])),
         Alias |-> A("Tree"), Loop |-> A("Loop2"), Loop2 |-> A("Loop")]

(* A hierarchy of two levels, whose variants lead to the base again.        *)
Pets == [Pet |-> Base("kind", Obj([kind |-> Str(""), name |-> Str(""), peer |-> A("Pet")])),
         Cat |-> Bases_(<<"Pet">>, Obj([lives |-> Type("integer")])),
         Dog |-> [Bases_(<<"Pet">>, Obj([owner |-> A("Person")])) EXCEPT !.value = "dog"],
         Lion |-> Bases_(<<"Cat">>, Obj([mane |-> Type("boolean")])),
         Person |-> Obj([pet |-> A("Pet")])]

(* References over two files; bases of bases, the last of which wins.       *)
Things == [a |-> [File(
                [Thing |-> Bases_(<<"Base1", "Base2">>, Obj([own |-> Str("")])),
                 Base0 |-> Obj([shared |-> Str("email"), root |-> Str("")]),
                 Base1 |-> Bases_(<<"Base0">>, Obj([shared |-> Type("integer")])),
                 Base2 |-> Obj([shared |-> Str("date")])],
                Plain) EXCEPT
             !.responses = [Ok |-> [ref |-> <<"b", <<"responses", "Ok">>>>, schema |-> None]],
             !.paths.get.responses = "200" :> [ref |-> <<"a", <<"responses", "Ok">>>>,
                                               schema |-> None]],
           b |-> [definitions |-> [Alias |-> To("a", "Thing")],
                  responses |-> [Ok |-> [ref |-> None, schema |->
                     Obj([one |-> To("b", "Alias"), all |-> Map(To("a", "Thing"))])]],
                  paths |-> <<>>]]

(* The only variant leads to its base again, where no variant is left.      *)
Chain == [Node |-> Base("kind", Obj([kind |-> Str("")])),
         Link |-> Bases_(<<"Node">>, Obj([next |-> A("Node"),
                                          wrap |-> Obj([next |-> A("Node")])]))]

(* Variants of variants of variants, all of which stand for the base.       *)
Deep == [Base |-> Base("kind", Obj([kind |-> Str("")])),
         First |-> Bases_(<<"Base">>, Obj(<<>>)),
         Second |-> Bases_(<<"First">>, Obj([n |-> Type("integer")])),
         Third |-> Bases_(<<"Second">>, Obj(<<>>))]

(* A model with two bases, one of which has its discriminator from above.   *)
Mixed == [Left |-> Base("left", Obj([left |-> Str("")])),
          Right |-> Base("right", Obj([right |-> Str("")])),
          Only |-> Bases_(<<"Left">>, Obj(<<>>)),
          Mid |-> Bases_(<<"Right">>, Obj(<<>>)),
          Both |-> Bases_(<<"Left", "Mid">>, Obj([n |-> Str("")]))]

(* Two files that name models alike: the map of a file goes by names only.  *)
Cross == [a |-> File([Pet |-> Base("kind", Obj([kind |-> Str("")])),
                      Cat |-> [Obj([lives |-> Type("integer")]) EXCEPT
                                !.allOf = <<To("b", "Pet")>>]],
                     Obj([mine |-> To("a", "Pet"), other |-> To("b", "Pet")])),
          b |-> [definitions |->
                   [Pet |-> Base("kind", Obj([kind |-> Str(""), tag |-> To("a", "Cat")])),
                    Fish |-> [Obj([sea |-> Str("time")]) EXCEPT !.allOf = <<To("b", "Pet")>>]],
                 responses |-> <<>>, paths |-> <<>>]]

(* Two variants under one value, of which one is offered.                   *)
Twins == [Pet |-> Base("kind", Obj([kind |-> Str("")])),
          Cat |-> [Bases_(<<"Pet">>, Obj([c |-> Str("")])) EXCEPT !.value = "twin"],
          Dog |-> [Bases_(<<"Pet">>, Obj([d |-> Str("")])) EXCEPT !.value = "twin"],
          Cub |-> Bases_(<<"Cat">>, Obj(<<>>))]

Ring == [Ring |-> Arr(A("Ring"))]

Broken(s) == Get_([Bag |-> Map(Str(""))], Obj([p |-> s, q |-> Str("")]))

MCOperations ==
  [leaves |-> Get_(<<>>, Scalars),
   raw |-> [Get_(<<>>, Scalars) EXCEPT !.useEnumValues = FALSE],
   names |-> Get_(<<>>, Names),
   scalar |-> Get_(<<>>, Str("uuid")),
   containers |-> [Get_(<<>>, Containers) EXCEPT
                    !.duplicateElements = (At_(<<"list">>) :> 2) @@ (At_(<<"tags">>) :> 1)],
   text |-> [Get_(<<>>, Containers) EXCEPT !.emptyObjAsStr = TRUE],
   tree |-> Get_(Tree, Obj([top |-> A("Tree"), loop |-> A("Loop")])),
   pets |-> Get_(Pets, Obj([all |-> Arr(A("Pet")), cat |-> A("Cat")])),
   pet |-> Get_(Pets, A("Pet")),
   things |-> Operation(Things),
   dead |-> Get_(Chain, Obj([first |-> A("Node")])),
   deep |-> Get_(Deep, Arr(A("Base"))),
   mixed |-> Get_(Mixed, Obj([l |-> A("Left"), r |-> A("Right")])),
   cross |-> Operation(Cross),
   twins |-> [Get_(Twins, Arr(A("Pet"))) EXCEPT !.duplicateElements = <<>> :> 1],
   ring |-> Get_(Ring, A("Ring")),
   put |-> [Get_(<<>>, Scalars) EXCEPT !.doc.a.paths.get.kind = "put"],
   empty |-> [Get_(<<>>, Scalars) EXCEPT !.doc.a.paths.get.responses = <<>>],
   loop |-> Get_(Tree, A("Loop")),
   nowhere |-> Broken(A("Missing")),
   several |-> Broken(Type("several")),
   many |-> Broken(Arr(Many)),
   bag |-> Broken(Bases_(<<"Bag">>, Obj([x |-> Str("")])))]

(* The schemas and responses in them.                                       *)
RECURSIVE Parts(_)
Parts(s) ==
  {s} \cup UNION {Parts(part) : part \in Range(s.properties) \cup Range(s.allOf)
                     \cup ({s.items, s.additionalProperties} \ {None, Anything, Many})}
Files == UNION {Range(Operations[o].doc) : o \in DOMAIN Operations}
MCResponse ==
  UNION {Range(f.responses) \cup UNION {Range(op.responses) : op \in Range(f.paths)} : f \in Files}
MCSchema ==
  UNION {Parts(s) : s \in UNION {Range(f.definitions) : f \in Files}
                          \cup ({r.schema : r \in MCResponse} \ {None})}

(* What the proofs suppose of the files: RefsToModels, and BasesAreFew, for *)
(* the schema at every reference.                                           *)
RECURSIVE Within(_, _)
Within(d, ref) ==
  LET s == At(d, ref)
      steps == ({"properties"} \X DOMAIN s.properties) \cup ({"allOf"} \X DOMAIN s.allOf)
                 \cup ({"items", "additionalProperties"} \X {""})
  IN  IF s \in {None, Anything, Many} THEN {}
      ELSE {ref} \cup UNION {Within(d, Ref(ref, step[1], step[2])) : step \in steps}
SchemaRefs(d) ==
  UNION {Within(d, ref) : ref \in UNION {
    {<<f, <<"definitions", n>>>> : n \in DOMAIN d[f].definitions}
      \cup {<<f, <<"responses", n>>, <<"schema", "">>>> : n \in DOMAIN d[f].responses}
      \cup UNION {{<<f, <<"paths", q>>, <<"responses", c>>, <<"schema", "">>>> :
                     c \in DOMAIN d[f].paths[q].responses} : q \in DOMAIN d[f].paths}
    : f \in DOMAIN d}}

ASSUME FilesReferToModels == RefsToModels
ASSUME FilesHaveFewBases ==
  \A o \in DOMAIN Operations :
    LET d == Operations[o].doc IN \A ref \in SchemaRefs(d) : BasesEnd(d, ref)

-------------------------------------------------------------------------------
(* Where the expander or the synthesizer does not live up to its word: a    *)
(* variant below a sibling it derives from; a map of what cannot be         *)
(* synthesized, an untyped map of itself, an array without items; a model   *)
(* that derives from itself.                                                *)
Lineage == [Pet |-> Base("kind", Obj([kind |-> Str("")])),
            Cat |-> Bases_(<<"Pet">>, Obj([rival |-> A("Pet")])),
            Lion |-> Bases_(<<"Cat">>, Obj([mane |-> Type("boolean")]))]
LineageOperations == [lineage |-> Get_(Lineage, Obj([pet |-> A("Pet")]))]

Shelf == [Shelf |-> Obj([name |-> Str(""), boxes |-> Map(Arr(A("Shelf")))]),
          Free |-> [Plain EXCEPT !.additionalProperties = A("Free")]]
PanicOperations ==
  [shelf |-> Get_(Shelf, A("Shelf")), free |-> Get_(Shelf, Obj([f |-> A("Free")])),
   items |-> Get_(<<>>, Type("array"))]

Circle == [Pet |-> Base("kind", Bases_(<<"Cat">>, Obj([kind |-> Str("")]))),
           Cat |-> Bases_(<<"Pet">>, Obj(<<>>))]
CircleOperations == [circle |-> Get_(Circle, A("Pet"))]
===============================================================================
