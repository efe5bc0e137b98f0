------------------------------ MODULE VariantMap ------------------------------
(***************************************************************************)
(* The variant map of a specification file (swagger/variant_map.go): which  *)
(* models derive from a model with a discriminator, under which value.  Go  *)
(* walks a map in an order of its own, so the definitions of a pass, and    *)
(* the variants of a level of Get, come in any order.                       *)
(***************************************************************************)
EXTENDS Naturals, Schemas

VARIABLES
  definitions,  \* the /definitions of the file: name -> schema
  m,            \* the VariantMap: model -> [discriminator, values]
  phase,        \* where NewVariantMap, or Get after it, is
  todo,         \* the definitions this pass has yet to visit
  toContinue,   \* this pass added a model
  modelName,    \* the model Get was asked for
  wl,           \* the models whose variants Get adds next
  out           \* the variants Get has found: value -> model

variantVars == <<definitions, m, phase, todo, toContinue, modelName, wl, out>>

(* f with k mapped to v.                                                    *)
Put(f, k, v) == [x \in DOMAIN f \cup {k} |-> IF x = k THEN v ELSE f[x]]
Empty == [x \in {} |-> x]

Bases(d) == {i \in DOMAIN definitions[d].allOf : definitions[d].allOf[i].ref # None}
Parent(d, i) == LastToken(definitions[d].allOf[i].ref)
Parents(d) == {Parent(d, i) : i \in Bases(d)}
Heirs == {d \in DOMAIN definitions : Bases(d) # {}}

VariantName(d) ==
  IF definitions[d].value = None THEN d ELSE definitions[d].value

-------------------------------------------------------------------------------
(* No variant map is in work.                                               *)
VariantIdle ==
  /\ definitions = Empty /\ m = Empty /\ phase = "idle"
  /\ todo = {} /\ toContinue = FALSE /\ modelName = "" /\ wl = {} /\ out = Empty

Forget ==
  /\ definitions' = Empty /\ m' = Empty /\ phase' = "idle"
  /\ todo' = {} /\ toContinue' = FALSE /\ modelName' = "" /\ wl' = {} /\ out' = Empty

(* The first loop of NewVariantMap: the models with a discriminator.        *)
Seed ==
  /\ phase = "seed"
  /\ m' = [d \in {e \in DOMAIN definitions : definitions[e].discriminator # ""} |->
             [discriminator |-> definitions[d].discriminator, values |-> Empty]]
  /\ phase' = "inherit" /\ todo' = Heirs /\ toContinue' = FALSE
  /\ UNCHANGED <<definitions, modelName, wl, out>>

(* A model whose parent is in the map joins it; the last parent in the      *)
(* order of allOf gives the discriminator.                                  *)
Inherit(d) ==
  LET known == {i \in Bases(d) : Parent(d, i) \in DOMAIN m} IN
  /\ phase = "inherit" /\ d \in todo
  /\ todo' = todo \ {d}
  /\ IF d \in DOMAIN m \/ known = {}
       THEN UNCHANGED <<m, toContinue>>
       ELSE LET i == CHOOSE i \in known : \A j \in known : j <= i
            IN  /\ m' = Put(m, d, [discriminator |-> m[Parent(d, i)].discriminator,
                                   values |-> Empty])
                /\ toContinue' = TRUE
  /\ UNCHANGED <<definitions, phase, modelName, wl, out>>

(* Variants: one pass is taken to be enough; the flag is not reset.         *)
NextPassOnce ==
  /\ phase = "inherit" /\ todo = {}
  /\ phase' = "collect"
  /\ todo' = Heirs /\ toContinue' = FALSE
  /\ UNCHANGED <<definitions, m, modelName, wl, out>>
NextPassKeepsFlag ==
  /\ phase = "inherit" /\ todo = {}
  /\ phase' = IF toContinue THEN "inherit" ELSE "collect"
  /\ todo' = Heirs
  /\ UNCHANGED <<definitions, m, toContinue, modelName, wl, out>>

NextPass ==
  /\ phase = "inherit" /\ todo = {}
  /\ phase' = IF toContinue THEN "inherit" ELSE "collect"
  /\ todo' = Heirs /\ toContinue' = FALSE
  /\ UNCHANGED <<definitions, m, modelName, wl, out>>

(* The last loop: a model is a variant of each of its parents in the map.   *)
Collect(d) ==
  /\ phase = "collect" /\ d \in todo
  /\ todo' = todo \ {d}
  /\ m' = [p \in DOMAIN m |->
             IF p \in Parents(d)
               THEN [m[p] EXCEPT !.values = Put(m[p].values, VariantName(d), d)]
               ELSE m[p]]
  /\ UNCHANGED <<definitions, phase, toContinue, modelName, wl, out>>

Collected ==
  /\ phase = "collect" /\ todo = {}
  /\ phase' = "built"
  /\ UNCHANGED <<definitions, m, todo, toContinue, modelName, wl, out>>

(* Get(name): a model outside the map has no variants.                      *)
Get(name) ==
  /\ phase = "built"
  /\ modelName' = name /\ out' = Empty
  /\ wl' = {name} \cap DOMAIN m
  /\ phase' = IF name \in DOMAIN m THEN "get" ELSE "got"
  /\ UNCHANGED <<definitions, m, todo, toContinue>>

(* Variant: the variants of variants are not followed.                      *)
GetLevelOnce ==
  /\ phase = "get" /\ wl # {}
  /\ wl' = {} /\ out' = m[modelName].values
  /\ UNCHANGED <<definitions, m, phase, todo, toContinue, modelName>>

(* One round of Get's loop: of two variants with one value either may stay. *)
GetLevel ==
  LET found == UNION {{<<v, m[n].values[v]>> : v \in DOMAIN m[n].values} :
                        n \in wl \cap DOMAIN m}
      values == {f[1] : f \in found}
  IN
  /\ phase = "get" /\ wl # {}
  /\ wl' = {f[2] : f \in found}
  /\ \E w \in [values -> {f[2] : f \in found}] :
       /\ \A v \in values : <<v, w[v]>> \in found
       /\ out' = [v \in DOMAIN out \cup values |-> IF v \in values THEN w[v] ELSE out[v]]
  /\ UNCHANGED <<definitions, m, phase, todo, toContinue, modelName>>

GetEnd ==
  /\ phase = "get" /\ wl = {}
  /\ phase' = "got"
  /\ UNCHANGED <<definitions, m, todo, toContinue, modelName, wl, out>>

BuildStep ==
  \/ Seed \/ NextPass \/ Collected
  \/ \E d \in todo : Inherit(d) \/ Collect(d)

(* The map of one file on its own, whatever its definitions.                *)
VariantInit ==
  /\ m = Empty /\ phase = "seed"
  /\ todo = {} /\ toContinue = FALSE /\ modelName = "" /\ wl = {} /\ out = Empty
VariantNext ==
  BuildStep \/ GetLevel \/ GetEnd \/ \E name \in DOMAIN definitions : Get(name)
VariantSpec == VariantInit /\ [][VariantNext]_variantVars

-------------------------------------------------------------------------------
(* The hierarchy without an order: a set of models together with all that   *)
(* derive from them, the models below p.                                    *)
Closed(S) == \A d \in DOMAIN definitions : Parents(d) \cap S # {} => d \in S
Roots == {d \in DOMAIN definitions : definitions[d].discriminator # ""}
Below(p) ==
  {d \in DOMAIN definitions :
     \A S \in SUBSET DOMAIN definitions :
       (Closed(S) /\ \A e \in DOMAIN definitions : p \in Parents(e) => e \in S) => d \in S}

(* The passes stop with exactly the models that derive, over any number of  *)
(* steps, from one with a discriminator, whatever the order of the passes   *)
(* (variant_map.go:68).                                                     *)
MapsTheHierarchy ==
  phase = "built" =>
    /\ Roots \subseteq DOMAIN m /\ Closed(DOMAIN m)
    /\ \A S \in SUBSET DOMAIN definitions :
         Roots \subseteq S /\ Closed(S) => DOMAIN m \subseteq S

(* Get offers every model below the one it is asked for, over all levels,   *)
(* under its value and nothing else (variant_map.go:18).  Of two models     *)
(* with one value only the last one visited is kept (variant_map.go:103),   *)
(* and with it what derives from it.                                        *)
GetIsComplete ==
  phase = "got" =>
    LET below == IF modelName \in DOMAIN m THEN Below(modelName) ELSE {}
        offered == {out[v] : v \in DOMAIN out}
    IN  /\ \A v \in DOMAIN out : out[v] \in below /\ VariantName(out[v]) = v
        /\ below = offered \/ \E d, e \in below : d # e /\ VariantName(d) = VariantName(e)
===============================================================================
