------------------------------- MODULE Expander -------------------------------
(***************************************************************************)
(* The expander (swagger/expander.go): from the 200 response of an          *)
(* operation to the tree of all properties a body may have, in which a      *)
(* property is cut off where its reference was followed on the way to it.   *)
(* The properties of a level come in any order, because Go walks the maps   *)
(* of children and variants in an order of its own.                         *)
(*                                                                          *)
(* The tree is the function prop from paths to properties; a path is the    *)
(* sequence of the edges <<"child", name>>, <<"element", "">> and           *)
(* <<"variant", value>> taken from the root.                                *)
(***************************************************************************)
EXTENDS VariantMap, Resolver

CONSTANT Operations   \* what may be expanded: name -> [doc, ref, emptyObjAsStr, ...]

(* A file has operations, responses and definitions; an operation is in the *)
(* paths of its file.                                                       *)
ASSUME FilesAssumption ==
  \A o \in DOMAIN Operations :
       /\ \A f \in DOMAIN Operations[o].doc :
            LET file == Operations[o].doc[f] IN
            /\ DOMAIN file = {"definitions", "responses", "paths"}
            /\ \A d \in DOMAIN file.definitions : file.definitions[d] \in Schema
            /\ \A r \in DOMAIN file.responses : file.responses[r] \in Response
            /\ \A q \in DOMAIN file.paths :
                 /\ DOMAIN file.paths[q] = {"kind", "responses"}
                 /\ \A c \in DOMAIN file.paths[q].responses : file.paths[q].responses[c] \in Response
       /\ IsRef(Operations[o].ref) /\ Len(Operations[o].ref) = 2
       /\ Operations[o].ref[2][1] = "paths"

VARIABLES
  operation,    \* the one of Operations that is expanded
  prop,         \* the property tree
  worklist,     \* the level being expanded
  nextLevel,    \* nwl, the level after it
  current,      \* the object that is being expanded while pc = "object"
  bases,        \* the schemas whose properties it has yet to get, the next one first
  children,     \* its Children so far: edge -> property
  variantMaps,  \* the variant maps built so far: file -> VariantMap
  pc            \* "new", "expand", "object", "expanded", "error" or "panic"

objectVars == <<bases, children>>
expanderVars ==
  <<operation, prop, worklist, nextLevel, current, objectVars, variantMaps, pc>>

-------------------------------------------------------------------------------
doc == Operations[operation].doc
opRef == Operations[operation].ref
emptyObjAsStr == Operations[operation].emptyObjAsStr

NewProp(schema, r, addr) ==
  [schema |-> schema, ref |-> r.ref, visited |-> r.visited, addr |-> addr,
   discriminator |-> "", value |-> "", has |-> "nothing", kids |-> {}]

PropStep(name) == [kind |-> "prop", name |-> name, variant |-> ""]
IndexStep == [kind |-> "index", name |-> "", variant |-> ""]

(* The property at p gets the kids (edge -> property); they join the level  *)
(* after this one.                                                          *)
Grow(p, has, kids) ==
  LET new == {Append(p, e) : e \in DOMAIN kids} IN
  /\ prop' = [q \in DOMAIN prop \cup new |->
                IF q \in new THEN kids[Last(q)]
                ELSE IF q = p THEN [prop[p] EXCEPT !.has = has, !.kids = DOMAIN kids]
                ELSE prop[q]]
  /\ nextLevel' = nextLevel \cup new
  /\ worklist' = worklist \ {p}
  /\ pc' = "expand"

Leave(p) == worklist' = worklist \ {p} /\ UNCHANGED <<prop, nextLevel, pc>>
Stopped(how) == pc' = how /\ UNCHANGED <<prop, worklist, nextLevel>>

(* The only element, if there is one, of an array or a map.                 *)
GrowElement(p, r, schema) ==
  \/ r.is = "error" /\ Stopped("error")
  \/ r.is = "cut" /\ Leave(p)
  \/ /\ r.is = "ok"
     /\ Grow(p, "element",
             Put(Empty, <<"element", "">>, NewProp(schema, r, Append(prop[p].addr, IndexStep))))

(* Variant: it is a step of its own.                                        *)
VariantAddrStep(addr, v) == Append(addr, [PropStep("") EXCEPT !.variant = v])

(* A variant is part of the last step of the address of its property.       *)
VariantAddr(addr, v) ==
  IF addr = <<>> THEN <<[PropStep("") EXCEPT !.variant = v]>>
  ELSE [addr EXCEPT ![Len(addr)].variant = v]

(* Variants: nothing counts as visited below a variant; the base still does. *)
VariantPropsAfresh(p) ==
  [v \in DOMAIN out |->
     RResolve(doc, <<prop[p].ref[1], <<"definitions", out[v]>>>>, {}, TRUE)]
VariantPropsBelowBase(p) ==
  [v \in DOMAIN out |->
     RResolve(doc, <<prop[p].ref[1], <<"definitions", out[v]>>>>, prop[p].visited, TRUE)]

(* The variants of a polymorphic property.  The base is taken out of the    *)
(* visited references, so that a variant can inherit from it.               *)
VariantProps(p) ==
  LET visited == prop[p].visited \ {prop[p].ref}
  IN  [v \in DOMAIN out |->
         RResolve(doc, <<prop[p].ref[1], <<"definitions", out[v]>>>>, visited, TRUE)]

-------------------------------------------------------------------------------
Init ==
  /\ operation \in DOMAIN Operations
  /\ prop = Empty /\ worklist = {} /\ nextLevel = {}
  /\ current = <<>> /\ bases = <<>> /\ children = Empty
  /\ variantMaps = Empty /\ pc = "new"
  /\ VariantIdle

(* NewExpanderFromOpRef and NewExpander: the operation must be a get or a   *)
(* post with a 200 response, whose references lead to a schema.             *)
NewExpander ==
  LET response == RResolve(doc, Ref(opRef, "responses", "200"), {}, FALSE)
      root == RResolve(doc, Ref(response.ref, "schema", ""), {}, TRUE)
  IN
  /\ pc = "new"
  /\ IF At(doc, opRef).kind \in {"get", "post"} /\ response.is = "ok" /\ root.is = "ok"
       THEN /\ prop' = Put(Empty, <<>>, NewProp(At(doc, root.ref), root, <<>>))
            /\ worklist' = {<<>>}
            /\ pc' = "expand"
            /\ UNCHANGED nextLevel
       ELSE Stopped("error")
  /\ UNCHANGED <<operation, current, objectVars, variantMaps, variantVars>>

(* What expandPropStep does at once, for a property that is no object.      *)
Ready(p) == pc = "expand" /\ p \in worklist
Step == UNCHANGED <<operation, current, objectVars, variantMaps, variantVars>>

ExpandPrimitive(p) ==
  LET type == prop[p].schema.type IN
  /\ Ready(p) /\ type \notin {"", "object", "array"}
  /\ IF type = "several" THEN Stopped("error") ELSE Leave(p)
  /\ Step

ExpandArray(p) ==
  LET s == prop[p].schema
      r == RResolve(doc, Ref(prop[p].ref, "items", ""), prop[p].visited, FALSE)
  IN
  /\ Ready(p) /\ SchemaIsArray(s)
  /\ \/ s.items = None /\ Stopped("panic")   \* Items is a nil pointer
     \/ s.items = Many /\ Stopped("error")
     \/ s.items \notin {None, Many} /\ GrowElement(p, r, At(doc, r.ref))
  /\ Step

(* The element of a map is a string when additionalProperties is true, and  *)
(* with the option when it is an object without any content.                *)
ExpandMap(p) ==
  LET ref == Ref(prop[p].ref, "additionalProperties", "")
      free == prop[p].schema.additionalProperties = Anything
      r == IF free THEN [is |-> "ok", ref |-> ref, visited |-> prop[p].visited]
           ELSE RResolve(doc, ref, prop[p].visited, FALSE)
      element == IF free \/ (emptyObjAsStr /\ SchemaIsEmptyObject(At(doc, r.ref)))
                   THEN StringSchema ELSE At(doc, r.ref)
  IN
  /\ Ready(p) /\ SchemaIsMap(prop[p].schema)
  /\ GrowElement(p, r, element)
  /\ Step

(* With the option an object without any content becomes a string.          *)
IsText(p) == emptyObjAsStr /\ SchemaIsEmptyObject(prop[p].schema)

ExpandEmptyObject(p) ==
  /\ Ready(p) /\ SchemaIsObject(prop[p].schema) /\ IsText(p)
  /\ prop' = [prop EXCEPT ![p].schema = StringSchema]
  /\ worklist' = worklist \ {p}
  /\ UNCHANGED <<nextLevel, pc>>
  /\ Step

(* An object first gets the variant map of its file, built on first use.    *)
InitVariantMap(p) ==
  LET file == prop[p].ref[1] IN
  /\ Ready(p) /\ SchemaIsObject(prop[p].schema) /\ ~IsText(p)
  /\ pc' = "object" /\ current' = p
  /\ definitions' = doc[file].definitions
  /\ IF file \in DOMAIN variantMaps
       THEN m' = variantMaps[file] /\ phase' = "built"
       ELSE phase' = "seed" /\ UNCHANGED m
  /\ UNCHANGED <<operation, prop, worklist, nextLevel, objectVars, variantMaps,
                 todo, toContinue, modelName, wl, out>>

GetVariants ==
  /\ Get(SchemaName(prop[current].ref))
  /\ variantMaps' = Put(variantMaps, prop[current].ref[1], m)
  /\ UNCHANGED <<operation, prop, worklist, nextLevel, current, objectVars, pc>>

VariantStep ==
  /\ BuildStep \/ GetLevel \/ GetEnd
  /\ UNCHANGED expanderVars

Regular == DOMAIN out = {} \/ prop[current].discriminator # ""

(* Variant: the visited references are one map for the whole tree.          *)
ExpandAsRegularObjectShared ==
  LET visited == UNION {prop[p].visited : p \in DOMAIN prop} IN
  /\ phase = "got" /\ Regular
  /\ bases' = <<[is |-> "ok", ref |-> prop[current].ref, visited |-> visited]>>
  /\ children' = Empty /\ Forget
  /\ UNCHANGED <<operation, prop, worklist, nextLevel, current, variantMaps, pc>>

(* An object gets its own properties and those of its bases: bases is the   *)
(* recursion of expandPropAsRegularObject over allOf, the object itself     *)
(* being the first.                                                         *)
ExpandAsRegularObject ==
  /\ phase = "got" /\ Regular
  /\ bases' = <<[is |-> "ok", ref |-> prop[current].ref, visited |-> prop[current].visited]>>
  /\ children' = Empty /\ Forget
  /\ UNCHANGED <<operation, prop, worklist, nextLevel, current, variantMaps, pc>>

Abandon ==
  /\ Stopped("error")
  /\ current' = <<>> /\ bases' = <<>> /\ children' = Empty

(* The properties of one schema replace what was there; its bases, in the   *)
(* order of allOf, come before those that wait already.  A base is always   *)
(* expanded as a regular object.                                            *)
ExpandBase ==
  LET b == Head(bases)
      s == At(doc, b.ref)
      own == [k \in DOMAIN s.properties |->
                RResolve(doc, Ref(b.ref, "properties", k), b.visited, FALSE)]
      addr(k) == Append(prop[current].addr, PropStep(k))
      new == {<<"child", k>> : k \in {j \in DOMAIN own : own[j].is = "ok"}}
  IN
  /\ bases # <<>>
  /\ \/ b.is = "cut" /\ bases' = Tail(bases)
        /\ UNCHANGED <<current, children, prop, worklist, nextLevel, pc>>
     \/ b.is = "error" /\ Abandon
     \/ /\ b.is = "ok"
        /\ ~SchemaIsObject(s) \/ \E k \in DOMAIN own : own[k].is = "error"
        /\ Abandon
     \/ /\ b.is = "ok" /\ SchemaIsObject(s)
        /\ \A k \in DOMAIN own : own[k].is # "error"
        /\ children' = [e \in new \cup DOMAIN children |->
                          IF e \in new THEN NewProp(At(doc, own[e[2]].ref), own[e[2]], addr(e[2]))
                          ELSE children[e]]
        /\ bases' = [i \in DOMAIN s.allOf |-> RResolve(doc, Ref(b.ref, "allOf", i), b.visited, FALSE)]
                      \o Tail(bases)
        /\ UNCHANGED <<current, prop, worklist, nextLevel, pc>>
  /\ UNCHANGED <<operation, variantMaps, variantVars>>

GotChildren ==
  /\ pc = "object" /\ phase = "idle" /\ bases = <<>>
  /\ Grow(current, "children", children)
  /\ current' = <<>> /\ children' = Empty
  /\ UNCHANGED <<operation, bases, variantMaps, variantVars>>

ExpandAsPolymorphicObject ==
  LET r == VariantProps(current)
      kept == {v \in DOMAIN r : r[v].is = "ok"}
  IN
  /\ phase = "got" /\ ~Regular
  /\ IF \E v \in DOMAIN r : r[v].is = "error"
       THEN Stopped("error")
       ELSE Grow(current, "variants",
                 [e \in {<<"variant", v>> : v \in kept} |->
                    [NewProp(At(doc, r[e[2]].ref), r[e[2]],
                             VariantAddr(prop[current].addr, e[2]))
                       EXCEPT !.discriminator = m[modelName].discriminator,
                              !.value = e[2]]])
  /\ current' = <<>> /\ Forget
  /\ UNCHANGED <<operation, objectVars, variantMaps>>

(* Variant: the next level is not started anew.                             *)
NextLevelKept ==
  /\ pc = "expand" /\ worklist = {}
  /\ worklist' = nextLevel
  /\ pc' = IF nextLevel = {} THEN "expanded" ELSE "expand"
  /\ UNCHANGED <<operation, prop, nextLevel, current, objectVars, variantMaps, variantVars>>

(* Expand goes on with the next level, and stops after an empty one.        *)
NextLevel ==
  /\ pc = "expand" /\ worklist = {}
  /\ worklist' = nextLevel /\ nextLevel' = {}
  /\ pc' = IF nextLevel = {} THEN "expanded" ELSE "expand"
  /\ UNCHANGED <<operation, prop, current, objectVars, variantMaps, variantVars>>

ExpandStep ==
  \/ NewExpander \/ NextLevel \/ GetVariants \/ VariantStep
  \/ ExpandAsRegularObject \/ ExpandBase \/ GotChildren \/ ExpandAsPolymorphicObject
  \/ \E p \in worklist : \/ ExpandPrimitive(p) \/ ExpandArray(p) \/ ExpandMap(p)
                         \/ ExpandEmptyObject(p) \/ InitVariantMap(p)

ExpanderSpec == Init /\ [][ExpandStep]_<<expanderVars, variantVars>>

-------------------------------------------------------------------------------
Above(p) == {SubSeq(p, 1, i) : i \in 0..(Len(p) - 1)}

(* A property has children, an element or variants, one of them at most     *)
(* (property.go:77), and all of them are in the tree; a level holds         *)
(* properties of one depth that are not expanded yet.                       *)
TreeOK ==
  /\ \A p \in DOMAIN prop :
       /\ prop[p].has \in {"nothing", "children", "element", "variants"}
       /\ prop[p].has = "nothing" => prop[p].kids = {}
       /\ \A e \in prop[p].kids :
            /\ Append(p, e) \in DOMAIN prop
            /\ <<prop[p].has, e[1]>> \in {<<"children", "child">>, <<"element", "element">>,
                                          <<"variants", "variant">>}
       /\ p # <<>> => Front(p) \in DOMAIN prop /\ Last(p) \in prop[Front(p)].kids
  /\ worklist \cup nextLevel \subseteq {p \in DOMAIN prop : prop[p].has = "nothing"}
  /\ \A p, q \in worklist : Len(p) = Len(q)
  /\ pc = "object" => current \in worklist

(* A schema refers to models, a response to responses.                      *)
RefsToModels ==
  /\ \A s \in Schema : s.ref # None => Len(s.ref) = 2 /\ s.ref[2][1] = "definitions"
  /\ \A r \in Response : r.ref # None => Len(r.ref) = 2 /\ r.ref[2][1] = "responses"

(* What makes Expand stop: no schema is expanded below itself, but for a    *)
(* polymorphic one, whose variants are not (property.go:60,                 *)
(* expander.go:414).  A schema inside a model counts as visited only when a *)
(* $ref leads right there, hence RefsToModels.                              *)
ConcreteOnce ==
  \A p \in DOMAIN prop : \A q \in Above(p) :
    prop[q].ref = prop[p].ref => prop[q].has = "variants"

-------------------------------------------------------------------------------
(* The schema a reference leads to, <<>> if it leads nowhere or in a circle. *)
End(d, ref) == Follow(d, ref, {}).ref

(* The schemas a schema is directly based on, and those it inherits from    *)
(* over bases outside skip, itself among them.                              *)
BasesOf(d, ref) == {End(d, Ref(ref, "allOf", i)) : i \in DOMAIN At(d, ref).allOf} \ {<<>>}
WithBases(d, S, skip) == S \cup ((UNION {BasesOf(d, r) : r \in S}) \ skip)
Ancestry(d, ref, skip) ==
  LET up[n \in 0..Turns] == IF n = 0 THEN {ref} ELSE WithBases(d, up[n - 1], skip)
  IN  up[Turns]

(* Turns are enough for the bases of bases, too.                            *)
BasesEnd(d, ref) ==
  LET ancestry == Ancestry(d, ref, {}) IN WithBases(d, ancestry, {}) = ancestry

(* The tree leaves out a property only where it would start over: its       *)
(* schema is one being expanded on the way from the root, or a base of one  *)
(* (expander.go:355).                                                       *)
AncestryAbove(p) == UNION {Ancestry(doc, prop[q].ref, {}) : q \in Above(p)}
CutOnlyCycles ==
  pc = "expanded" => \A p \in {q \in DOMAIN prop : prop[q].has = "children"} :
    LET above == AncestryAbove(p)
        restarts == above \cup Ancestry(doc, prop[p].ref, {}) \cup {<<>>}
    IN  \A r \in Ancestry(doc, prop[p].ref, above) : \A k \in DOMAIN At(doc, r).properties :
          \/ <<"child", k>> \in prop[p].kids
          \/ End(doc, Ref(r, "properties", k)) \in restarts
===============================================================================
