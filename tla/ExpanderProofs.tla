--------------------------- MODULE ExpanderProofs ---------------------------
(***************************************************************************)
(* Proofs about the expander, for any specification files: the variant map  *)
(* it builds of a file, the tree, the references it follows, how these      *)
(* descend, and where the tree is cut off.                                  *)
(***************************************************************************)
EXTENDS Expander, Minima, SequenceTheorems, FiniteSetTheorems

-------------------------------------------------------------------------------
(* The variant map of any definitions, in any order of the passes, holds    *)
(* exactly the models that derive from one with a discriminator.            *)

(* What the map holds has a root above it: it lies in every set of models   *)
(* that has the roots and all that derives from its members.                *)
OnlyBelow ==
  phase # "seed" =>
    \A S \in SUBSET DOMAIN definitions : Roots \subseteq S /\ Closed(S) => DOMAIN m \subseteq S

(* A pass that has added nothing so far leaves no visited model out.        *)
VisitedAreIn ==
  phase = "inherit" /\ ~toContinue =>
    \A d \in Heirs \ todo : Parents(d) \cap DOMAIN m # {} => d \in DOMAIN m

VariantInv ==
  /\ todo \subseteq Heirs
  /\ toContinue \in BOOLEAN
  /\ phase # "seed" => Roots \subseteq DOMAIN m
  /\ OnlyBelow
  /\ VisitedAreIn
  /\ phase \notin {"seed", "inherit"} => Closed(DOMAIN m)

(* The steps that build a map and look something up in it, whatever the     *)
(* name.                                                                    *)
MapStep ==
  BuildStep \/ GetLevel \/ GetEnd \/ (\E name : Get(name)) \/ UNCHANGED variantVars

-------------------------------------------------------------------------------
(* Only a model with a parent is an heir.                                   *)
LEMMA ParentsOfHeirs ==
  ASSUME NEW d \in DOMAIN definitions, Parents(d) # {}
  PROVE  d \in Heirs
BY DEF Heirs, Parents

(* The models a pass finds a parent for are those the map has a parent of.  *)
LEMMA KnownParents ==
  ASSUME NEW d, NEW D
  PROVE  {i \in Bases(d) : Parent(d, i) \in D} = {} <=> Parents(d) \cap D = {}
BY DEF Parents

LEMMA PutDomain ==
  ASSUME NEW f, NEW k, NEW v
  PROVE  DOMAIN Put(f, k, v) = DOMAIN f \cup {k}
BY DEF Put

(* The hierarchy depends on the definitions alone.                          *)
LEMMA SameDefinitions ==
  ASSUME UNCHANGED definitions
  PROVE  /\ Heirs' = Heirs /\ Roots' = Roots
         /\ \A S : Closed(S)' <=> Closed(S)
         /\ \A d : Parents(d)' = Parents(d)
BY DEF Heirs, Roots, Closed, Parents, Parent, Bases

-------------------------------------------------------------------------------
(* Steps that change neither the hierarchy nor the models of the map.       *)
LEMMA SameModels ==
  ASSUME VariantInv, UNCHANGED definitions, DOMAIN m' = DOMAIN m,
         phase \notin {"seed", "inherit"}, phase' \notin {"seed", "inherit"},
         todo' \subseteq todo, toContinue' = toContinue
  PROVE  VariantInv'
BY SameDefinitions DEF VariantInv, OnlyBelow, VisitedAreIn

LEMMA SeedKeeps ==
  ASSUME VariantInv, Seed
  PROVE  VariantInv'
<1>1. UNCHANGED definitions /\ phase' = "inherit" /\ todo' = Heirs /\ toContinue' = FALSE
  BY DEF Seed
<1>2. DOMAIN m' = Roots
  BY DEF Seed, Roots
<1>. QED
  BY <1>1, <1>2, SameDefinitions DEF VariantInv, OnlyBelow, VisitedAreIn

LEMMA InheritKeeps ==
  ASSUME VariantInv, NEW d, Inherit(d)
  PROVE  VariantInv'
<1>1. /\ UNCHANGED <<definitions, phase>> /\ phase = "inherit"
      /\ d \in todo /\ todo' = todo \ {d}
  BY DEF Inherit
<1>2. d \in Heirs /\ d \in DOMAIN definitions
  BY <1>1 DEF VariantInv, Heirs
<1>3. CASE d \in DOMAIN m \/ {i \in Bases(d) : Parent(d, i) \in DOMAIN m} = {}
  <2>1. UNCHANGED <<m, toContinue>>
    BY <1>3 DEF Inherit
  <2>2. VisitedAreIn'
    <3>1. Parents(d) \cap DOMAIN m # {} => d \in DOMAIN m
      BY <1>3, KnownParents
    <3>. QED
      BY <1>1, <2>1, <3>1, SameDefinitions DEF VariantInv, VisitedAreIn
  <2>. QED
    BY <1>1, <2>1, <2>2, SameDefinitions DEF VariantInv, OnlyBelow
<1>4. CASE ~(d \in DOMAIN m \/ {i \in Bases(d) : Parent(d, i) \in DOMAIN m} = {})
  <2>1. toContinue' = TRUE /\ DOMAIN m' = DOMAIN m \cup {d}
    BY <1>4, PutDomain DEF Inherit
  <2>2. Parents(d) \cap DOMAIN m # {}
    BY <1>4, KnownParents
  <2>3. OnlyBelow'
    <3>. SUFFICES ASSUME NEW S \in SUBSET DOMAIN definitions, Roots \subseteq S, Closed(S)
                  PROVE  DOMAIN m' \subseteq S
      BY <1>1, SameDefinitions DEF OnlyBelow
    <3>1. DOMAIN m \subseteq S
      BY <1>1 DEF VariantInv, OnlyBelow
    <3>2. d \in S
      BY <1>2, <2>2, <3>1 DEF Closed
    <3>. QED
      BY <2>1, <3>1, <3>2
  <2>. QED
    BY <1>1, <2>1, <2>3, SameDefinitions DEF VariantInv, VisitedAreIn
<1>. QED
  BY <1>3, <1>4

(* A pass that added nothing has shown that the map is closed.              *)
LEMMA NextPassKeeps ==
  ASSUME VariantInv, NextPass
  PROVE  VariantInv'
<1>1. /\ UNCHANGED <<definitions, m>> /\ phase = "inherit" /\ todo = {}
      /\ todo' = Heirs /\ toContinue' = FALSE
      /\ phase' = IF toContinue THEN "inherit" ELSE "collect"
  BY DEF NextPass
<1>2. Roots \subseteq DOMAIN m /\ OnlyBelow /\ toContinue \in BOOLEAN
  BY <1>1 DEF VariantInv
<1>3. OnlyBelow' /\ VisitedAreIn'
  BY <1>1, <1>2, SameDefinitions DEF OnlyBelow, VisitedAreIn
<1>4. ~toContinue => Closed(DOMAIN m)
  <2>. SUFFICES ASSUME ~toContinue, NEW d \in DOMAIN definitions,
                       Parents(d) \cap DOMAIN m # {}
                PROVE  d \in DOMAIN m
    BY DEF Closed
  <2>1. d \in Heirs \ todo
    BY <1>1, ParentsOfHeirs
  <2>. QED
    BY <1>1, <2>1 DEF VariantInv, VisitedAreIn
<1>5. phase' \notin {"seed", "inherit"} => Closed(DOMAIN m)'
  BY <1>1, <1>4, SameDefinitions
<1>. QED
  BY <1>1, <1>2, <1>3, <1>5, SameDefinitions DEF VariantInv

LEMMA CollectKeeps ==
  ASSUME VariantInv, NEW d, Collect(d)
  PROVE  VariantInv'
<1>1. /\ UNCHANGED <<definitions, phase, toContinue>> /\ phase = "collect"
      /\ todo' = todo \ {d} /\ DOMAIN m' = DOMAIN m
  BY DEF Collect
<1>. QED
  BY <1>1, SameModels

LEMMA VariantKeeps ==
  ASSUME VariantInv, MapStep
  PROVE  VariantInv'
<1>1. CASE Seed
  BY <1>1, SeedKeeps
<1>2. CASE NextPass
  BY <1>2, NextPassKeeps
<1>3. ASSUME NEW d \in todo, Inherit(d) PROVE VariantInv'
  BY <1>3, InheritKeeps
<1>4. ASSUME NEW d \in todo, Collect(d) PROVE VariantInv'
  BY <1>4, CollectKeeps
<1>5. CASE Collected
  BY <1>5, SameModels DEF Collected
<1>6. ASSUME NEW name, Get(name) PROVE VariantInv'
  BY <1>6, SameModels DEF Get
<1>7. CASE GetLevel
  BY <1>7, SameModels DEF GetLevel
<1>8. CASE GetEnd
  BY <1>8, SameModels DEF GetEnd
<1>9. CASE UNCHANGED variantVars
  <2>1. UNCHANGED <<definitions, m, phase, todo, toContinue>>
    BY <1>9 DEF variantVars
  <2>. QED
    BY <2>1, SameDefinitions DEF VariantInv, OnlyBelow, VisitedAreIn
<1>. QED
  BY <1>1, <1>2, <1>3, <1>4, <1>5, <1>6, <1>7, <1>8, <1>9 DEF MapStep, BuildStep

(* The invariant of the map holds for any definitions.                      *)
THEOREM VariantInvariant == VariantSpec => []VariantInv
<1>1. VariantInit => VariantInv
  BY DEF VariantInit, VariantInv, OnlyBelow, VisitedAreIn
<1>2. VariantInv /\ [VariantNext]_variantVars => VariantInv'
  BY VariantKeeps DEF VariantNext, MapStep
<1>. QED
  BY <1>1, <1>2, PTL DEF VariantSpec

(* Once built, the map holds the models that derive, over any number of     *)
(* steps, from one with a discriminator, and no others (variant_map.go:68). *)
THEOREM MapIsTheHierarchy == VariantSpec => []MapsTheHierarchy
<1>1. VariantInv => MapsTheHierarchy
  BY DEF VariantInv, OnlyBelow, MapsTheHierarchy
<1>. QED
  BY <1>1, VariantInvariant, PTL

-------------------------------------------------------------------------------
(* The models that name p as a base, and what m holds of them: every value  *)
(* is one of them under its own name, and none that has been visited is     *)
(* without a value.                                                         *)
Children(p) == {d \in DOMAIN definitions : p \in Parents(d)}
Unambiguous(S) == \A d, e \in S : VariantName(d) = VariantName(e) => d = e
Offered == {out[v] : v \in DOMAIN out}

ValuesAreChildren ==
  \A p \in DOMAIN m :
    /\ "values" \in DOMAIN m[p]
    /\ \A v \in DOMAIN m[p].values :
         m[p].values[v] \in Children(p) /\ VariantName(m[p].values[v]) = v

ValuesMeetChildren ==
  phase \notin {"seed", "inherit"} =>
    \A p \in DOMAIN m : \A d \in Children(p) \ todo : VariantName(d) \in DOMAIN m[p].values

(* What Get has found, and what it has yet to follow, lies below the model  *)
(* it was asked for.                                                        *)
FoundAreBelow ==
  phase \in {"get", "got"} =>
    \A v \in DOMAIN out :
      modelName \in DOMAIN m /\ out[v] \in Below(modelName) /\ VariantName(out[v]) = v

FollowsKnown ==
  phase = "get" => modelName \in DOMAIN m /\ wl \subseteq Below(modelName) \cup {modelName}

(* Unless two of them have one value, all that has been followed has its    *)
(* children among the found, and what is left to follow is found.           *)
FollowedAreDone ==
  phase \in {"get", "got"} /\ modelName \in DOMAIN m /\ Unambiguous(Below(modelName)) =>
    /\ wl \subseteq Offered \cup {modelName}
    /\ \A n \in (Offered \cup {modelName}) \ wl : Children(n) \subseteq Offered
    /\ phase = "got" => wl = {}

CollectInv == ValuesAreChildren /\ ValuesMeetChildren /\ (phase \in {"built", "get", "got"} => todo = {})
GetInv == FoundAreBelow /\ FollowsKnown /\ FollowedAreDone

LEMMA ChildrenAreBelow ==
  ASSUME NEW p
  PROVE  /\ Children(p) \subseteq Below(p)
         /\ \A n \in Below(p) : Children(n) \subseteq Below(p)
BY DEF Children, Below, Closed

LEMMA BelowIsLeast ==
  ASSUME NEW p, NEW S \in SUBSET DOMAIN definitions,
         Children(p) \subseteq S, \A n \in S : Children(n) \subseteq S
  PROVE  Below(p) \subseteq S
<1>1. Closed(S)
  BY DEF Closed, Children
<1>. QED
  BY <1>1 DEF Below, Children

(* What the definitions alone decide.                                       *)
LEMMA SameBelow ==
  ASSUME UNCHANGED definitions
  PROVE  /\ \A p : Children(p)' = Children(p) /\ Below(p)' = Below(p)
         /\ \A d : VariantName(d)' = VariantName(d)
         /\ \A S : Unambiguous(S)' <=> Unambiguous(S)
<1>1. \A p : Children(p)' = Children(p)
  BY SameDefinitions DEF Children
<1>2. \A d : VariantName(d)' = VariantName(d)
  BY DEF VariantName
<1>3. \A p : Below(p)' = Below(p)
  BY SameDefinitions DEF Below
<1>. QED
  BY <1>1, <1>2, <1>3 DEF Unambiguous

(* Steps after which the map holds what it held.                            *)
LEMMA SameValues ==
  ASSUME CollectInv, UNCHANGED <<definitions, m, todo>>,
         phase \notin {"seed", "inherit"}, phase' \in {"built", "get", "got"}, todo = {}
  PROVE  CollectInv'
BY SameBelow DEF CollectInv, ValuesAreChildren, ValuesMeetChildren

LEMMA NoValuesYet ==
  ASSUME UNCHANGED definitions,
         \A p \in DOMAIN m' : "values" \in DOMAIN m'[p] /\ DOMAIN m'[p].values = {},
         phase' \in {"seed", "inherit"}
  PROVE  CollectInv'
BY DEF CollectInv, ValuesAreChildren, ValuesMeetChildren

LEMMA CollectVisits ==
  ASSUME VariantInv, CollectInv, NEW d, Collect(d)
  PROVE  CollectInv'
<1>1. /\ UNCHANGED <<definitions, phase>> /\ phase = "collect"
      /\ d \in todo /\ todo' = todo \ {d} /\ d \in DOMAIN definitions
      /\ DOMAIN m' = DOMAIN m
  BY DEF Collect, VariantInv, Heirs
<1>2. \A p \in DOMAIN m :
        /\ "values" \in DOMAIN m'[p]
        /\ d \in Children(p) => m'[p].values = Put(m[p].values, VariantName(d), d)
        /\ d \notin Children(p) => m'[p] = m[p]
  BY <1>1 DEF Collect, Children, CollectInv, ValuesAreChildren
<1>3. ValuesAreChildren'
  <2>. SUFFICES ASSUME NEW p \in DOMAIN m, NEW v \in DOMAIN m'[p].values
                PROVE  m'[p].values[v] \in Children(p) /\ VariantName(m'[p].values[v]) = v
    BY <1>1, <1>2, SameBelow DEF ValuesAreChildren
  <2>1. CASE d \in Children(p)
    <3>1. m'[p].values = Put(m[p].values, VariantName(d), d)
      BY <2>1, <1>2
    <3>2. \/ v = VariantName(d) /\ m'[p].values[v] = d
          \/ v \in DOMAIN m[p].values /\ m'[p].values[v] = m[p].values[v]
      BY <3>1 DEF Put
    <3>. QED
      BY <2>1, <3>2 DEF CollectInv, ValuesAreChildren
  <2>2. CASE d \notin Children(p)
    BY <2>2, <1>1, <1>2 DEF CollectInv, ValuesAreChildren
  <2>. QED
    BY <2>1, <2>2
<1>4. ValuesMeetChildren'
  <2>. SUFFICES ASSUME NEW p \in DOMAIN m, NEW e \in Children(p) \ todo'
                PROVE  VariantName(e) \in DOMAIN m'[p].values
    BY <1>1, SameBelow DEF ValuesMeetChildren
  <2>1. e # d => VariantName(e) \in DOMAIN m[p].values
    BY <1>1 DEF CollectInv, ValuesMeetChildren
  <2>2. CASE d \in Children(p)
    <3>1. m'[p].values = Put(m[p].values, VariantName(d), d)
      BY <2>2, <1>2
    <3>2. DOMAIN m'[p].values = DOMAIN m[p].values \cup {VariantName(d)}
      BY <3>1 DEF Put
    <3>. QED
      BY <2>1, <3>2
  <2>3. CASE d \notin Children(p)
    BY <2>1, <2>3, <1>1, <1>2
  <2>. QED
    BY <2>2, <2>3
<1>. QED
  BY <1>1, <1>3, <1>4 DEF CollectInv

(* The passes put models without values into the map, the last loop fills   *)
(* them, Get leaves them alone.                                             *)
PassInv == phase \in {"seed", "inherit"} => \A p \in DOMAIN m : "values" \in DOMAIN m[p] /\ DOMAIN m[p].values = {}

LEMMA PassKeeps ==
  ASSUME VariantInv, PassInv, CollectInv, MapStep
  PROVE  PassInv' /\ CollectInv'
<1>0. DOMAIN Empty = {}
  BY DEF Empty
<1>1. CASE Seed
  <2>1. UNCHANGED definitions /\ phase' = "inherit"
    BY <1>1 DEF Seed
  <2>2. \A p \in DOMAIN m' : "values" \in DOMAIN m'[p] /\ DOMAIN m'[p].values = {}
    BY <1>0, <1>1 DEF Seed
  <2>. QED
    BY <2>1, <2>2, NoValuesYet DEF PassInv
<1>2. ASSUME NEW d \in todo, Inherit(d) PROVE PassInv' /\ CollectInv'
  <2>1. UNCHANGED definitions /\ phase = "inherit" /\ phase' = "inherit"
    BY <1>2 DEF Inherit
  <2>2. m' = m \/ \E x : m' = Put(m, d, [discriminator |-> x, values |-> Empty])
    BY <1>2 DEF Inherit
  <2>3. \A p \in DOMAIN m' : "values" \in DOMAIN m'[p] /\ DOMAIN m'[p].values = {}
    BY <1>0, <2>1, <2>2 DEF Put, PassInv
  <2>. QED
    BY <2>1, <2>3, NoValuesYet DEF PassInv
<1>3. CASE NextPass
  <2>1. UNCHANGED <<definitions, m>> /\ phase = "inherit" /\ todo' = Heirs
        /\ phase' \in {"inherit", "collect"}
    BY <1>3 DEF NextPass
  <2>2. \A p \in DOMAIN m : "values" \in DOMAIN m[p] /\ DOMAIN m[p].values = {}
    BY <2>1 DEF PassInv
  <2>3. \A p : Children(p) \subseteq Heirs
    BY ParentsOfHeirs DEF Children
  <2>4. ValuesAreChildren' /\ ValuesMeetChildren'
    BY <2>1, <2>2, <2>3, SameBelow DEF ValuesAreChildren, ValuesMeetChildren
  <2>. QED
    BY <2>1, <2>2, <2>4 DEF PassInv, CollectInv
<1>4. ASSUME NEW d \in todo, Collect(d) PROVE PassInv' /\ CollectInv'
  BY <1>4, CollectVisits DEF PassInv, Collect
<1>5. CASE Collected
  BY <1>5, SameValues DEF PassInv, Collected
<1>6. ASSUME NEW name, Get(name) PROVE PassInv' /\ CollectInv'
  BY <1>6, SameValues DEF PassInv, Get, CollectInv
<1>7. CASE GetLevel
  BY <1>7, SameValues DEF PassInv, GetLevel, CollectInv
<1>8. CASE GetEnd
  BY <1>8, SameValues DEF PassInv, GetEnd, CollectInv
<1>9. CASE UNCHANGED variantVars
  <2>1. UNCHANGED <<definitions, phase, m, todo>>
    BY <1>9 DEF variantVars
  <2>. QED
    BY <2>1, SameBelow DEF PassInv, CollectInv, ValuesAreChildren, ValuesMeetChildren
<1>. QED
  BY <1>1, <1>2, <1>3, <1>4, <1>5, <1>6, <1>7, <1>8, <1>9 DEF MapStep, BuildStep

-------------------------------------------------------------------------------
(* The map's models are defined ones, and what lies below one of them is in *)
(* the map.                                                                 *)
LEMMA BelowIsInMap ==
  ASSUME VariantInv, phase \in {"built", "get", "got"}
  PROVE  /\ DOMAIN m \subseteq DOMAIN definitions
         /\ \A n \in DOMAIN m : Below(n) \subseteq DOMAIN m
<1>1. DOMAIN m \subseteq DOMAIN definitions
  BY DEF VariantInv, OnlyBelow, Roots, Closed
<1>2. Closed(DOMAIN m)
  BY DEF VariantInv
<1>3. ASSUME NEW n \in DOMAIN m PROVE Below(n) \subseteq DOMAIN m
  BY <1>1, <1>2, <1>3 DEF Below, Closed
<1>. QED
  BY <1>1, <1>3

(* A model in the finished map has its children as values, and if their     *)
(* names differ, all of them.                                               *)
LEMMA ValuesAreAllChildren ==
  ASSUME CollectInv, phase \in {"built", "get", "got"}, NEW n \in DOMAIN m,
         Unambiguous(Children(n)), NEW d \in Children(n)
  PROVE  VariantName(d) \in DOMAIN m[n].values /\ m[n].values[VariantName(d)] = d
<1>1. VariantName(d) \in DOMAIN m[n].values
  BY DEF CollectInv, ValuesMeetChildren
<1>2. /\ m[n].values[VariantName(d)] \in Children(n)
      /\ VariantName(m[n].values[VariantName(d)]) = VariantName(d)
  BY <1>1 DEF CollectInv, ValuesAreChildren
<1>. QED
  BY <1>1, <1>2 DEF Unambiguous

LEMMA GetStarts ==
  ASSUME VariantInv, CollectInv, NEW name, Get(name)
  PROVE  GetInv'
<1>1. /\ UNCHANGED <<definitions, m>>
      /\ modelName' = name /\ DOMAIN out' = {} /\ wl' = {name} \cap DOMAIN m
      /\ phase' = IF name \in DOMAIN m THEN "get" ELSE "got"
  BY DEF Get, Empty
<1>2. Offered' = {}
  BY <1>1 DEF Offered
<1>. QED
  BY <1>1, <1>2 DEF GetInv, FoundAreBelow, FollowsKnown, FollowedAreDone

(* One round follows the models of wl: what it finds are their children,    *)
(* and all of them unless two models below have one value.                  *)
LEMMA GetFollows ==
  ASSUME VariantInv, CollectInv, GetInv, GetLevel
  PROVE  GetInv'
<1>. DEFINE found == UNION {{<<v, m[n].values[v]>> : v \in DOMAIN m[n].values} :
                              n \in wl \cap DOMAIN m}
            values == {f[1] : f \in found}
<1>1. /\ UNCHANGED <<definitions, m, modelName>>
      /\ phase = "get" /\ phase' = "get"
      /\ wl' = {f[2] : f \in found}
  BY DEF GetLevel
<1>2. PICK w \in [values -> {f[2] : f \in found}] :
        /\ \A v \in values : <<v, w[v]>> \in found
        /\ out' = [v \in DOMAIN out \cup values |-> IF v \in values THEN w[v] ELSE out[v]]
  BY DEF GetLevel
<1>3. /\ modelName \in DOMAIN m /\ wl \subseteq Below(modelName) \cup {modelName}
      /\ wl \subseteq DOMAIN m
  BY <1>1, BelowIsInMap DEF GetInv, FollowsKnown
<1>4. \A f \in found : \E n \in wl : \E v \in DOMAIN m[n].values : f = <<v, m[n].values[v]>>
  OBVIOUS
<1>5. \A f \in found : \E n \in wl : f[2] \in Children(n) /\ VariantName(f[2]) = f[1]
  BY <1>3, <1>4 DEF CollectInv, ValuesAreChildren
<1>6. \A f \in found : f[2] \in Below(modelName) /\ VariantName(f[2]) = f[1]
  BY <1>3, <1>5, ChildrenAreBelow
<1>. HIDE DEF found
<1>7. \A v \in values : w[v] \in Below(modelName) /\ VariantName(w[v]) = v
  <2>. SUFFICES ASSUME NEW v \in values
                PROVE  w[v] \in Below(modelName) /\ VariantName(w[v]) = v
    OBVIOUS
  <2>1. <<v, w[v]>> \in found
    BY <1>2
  <2>. QED
    BY <2>1, <1>6
<1>8. \A v \in DOMAIN out' : out'[v] \in Below(modelName) /\ VariantName(out'[v]) = v
  <2>1. \A v \in DOMAIN out : out[v] \in Below(modelName) /\ VariantName(out[v]) = v
    BY <1>1 DEF GetInv, FoundAreBelow
  <2>. QED
    BY <2>1, <1>2, <1>7
<1>9. wl' \subseteq Below(modelName)
  BY <1>1, <1>6
<1>10. FollowedAreDone'
  <2>. SUFFICES ASSUME Unambiguous(Below(modelName))
                PROVE  /\ wl' \subseteq Offered'
                       /\ \A n \in (Offered' \cup {modelName}) \ wl' : Children(n) \subseteq Offered'
    BY <1>1, SameBelow DEF FollowedAreDone
  <2>1. /\ wl \subseteq Offered \cup {modelName}
        /\ \A n \in (Offered \cup {modelName}) \ wl : Children(n) \subseteq Offered
    BY <1>1, <1>3 DEF GetInv, FollowedAreDone
  <2>2. \A f \in found : f[2] \in Offered'
    <3>. SUFFICES ASSUME NEW f \in found PROVE f[2] \in Offered'
      OBVIOUS
    <3>1. f[1] \in values /\ f[1] \in DOMAIN out' /\ out'[f[1]] = w[f[1]]
      BY <1>2
    <3>2. w[f[1]] = f[2]
      BY <3>1, <1>6, <1>7 DEF Unambiguous
    <3>. QED
      BY <3>1, <3>2 DEF Offered
  <2>3. Offered \subseteq Offered'
    <3>. SUFFICES ASSUME NEW v \in DOMAIN out PROVE out[v] \in Offered'
      BY DEF Offered
    <3>1. v \in DOMAIN out' /\ out[v] \in Below(modelName) /\ VariantName(out[v]) = v
      BY <1>1, <1>2 DEF GetInv, FoundAreBelow
    <3>2. out'[v] = out[v]
      BY <3>1, <1>8 DEF Unambiguous
    <3>. QED
      BY <3>1, <3>2 DEF Offered
  <2>4. \A n \in wl : Children(n) \subseteq wl'
    <3>. SUFFICES ASSUME NEW n \in wl, NEW d \in Children(n) PROVE d \in wl'
      OBVIOUS
    <3>1. Children(n) \subseteq Below(modelName) /\ n \in DOMAIN m
      BY <1>3, ChildrenAreBelow
    <3>2. Unambiguous(Children(n))
      BY <3>1 DEF Unambiguous
    <3>3. VariantName(d) \in DOMAIN m[n].values /\ m[n].values[VariantName(d)] = d
      BY <3>1, <3>2, <1>1, ValuesAreAllChildren
    <3>4. <<VariantName(d), d>> \in found
      BY <3>1, <3>3 DEF found
    <3>. QED
      BY <3>4, <1>1
  <2>5. wl' \subseteq Offered'
    BY <1>1, <2>2
  <2>6. ASSUME NEW n \in (Offered' \cup {modelName}) \ wl' PROVE Children(n) \subseteq Offered'
    <3>1. n \in Offered \cup {modelName}
      <4>1. ASSUME NEW v \in DOMAIN out', n = out'[v] PROVE n \in Offered
        <5>1. v \notin values
          BY <4>1, <2>6, <1>1, <1>2
        <5>. QED
          BY <4>1, <5>1, <1>2 DEF Offered
      <4>. QED
        BY <4>1, <2>6 DEF Offered
    <3>. QED
      BY <3>1, <2>1, <2>3, <2>4, <2>5
  <2>. QED
    BY <2>5, <2>6
<1>11. FoundAreBelow' /\ FollowsKnown'
  BY <1>1, <1>3, <1>8, <1>9, SameBelow DEF FoundAreBelow, FollowsKnown
<1>. QED
  BY <1>10, <1>11 DEF GetInv

LEMMA GetStops ==
  ASSUME GetInv, GetEnd
  PROVE  GetInv'
<1>1. /\ UNCHANGED <<definitions, m, modelName, wl, out>>
      /\ phase = "get" /\ phase' = "got" /\ wl = {}
  BY DEF GetEnd
<1>. QED
  BY <1>1, SameBelow DEF GetInv, FoundAreBelow, FollowsKnown, FollowedAreDone, Offered

AnswerInv == VariantInv /\ PassInv /\ CollectInv /\ GetInv

LEMMA AnswerKeeps ==
  ASSUME AnswerInv, MapStep
  PROVE  AnswerInv'
<1>1. VariantInv' /\ PassInv' /\ CollectInv'
  BY VariantKeeps, PassKeeps DEF AnswerInv
<1>2. ASSUME phase' \notin {"get", "got"} PROVE GetInv'
  BY <1>2 DEF GetInv, FoundAreBelow, FollowsKnown, FollowedAreDone
<1>3. CASE Seed \/ NextPass \/ Collected \/ \E d \in todo : Inherit(d) \/ Collect(d)
  <2>1. phase' \notin {"get", "got"}
    BY <1>3 DEF Seed, NextPass, Collected, Inherit, Collect
  <2>. QED
    BY <1>1, <1>2, <2>1 DEF AnswerInv
<1>4. ASSUME NEW name, Get(name) PROVE GetInv'
  BY <1>4, GetStarts DEF AnswerInv
<1>5. CASE GetLevel
  BY <1>1, <1>5, GetFollows DEF AnswerInv
<1>6. CASE GetEnd
  BY <1>1, <1>6, GetStops DEF AnswerInv
<1>7. CASE UNCHANGED variantVars
  <2>1. UNCHANGED <<definitions, m, phase, modelName, wl, out>>
    BY <1>7 DEF variantVars
  <2>2. GetInv'
    BY <2>1, SameBelow DEF AnswerInv, GetInv, FoundAreBelow, FollowsKnown, FollowedAreDone, Offered
  <2>. QED
    BY <1>1, <2>2 DEF AnswerInv
<1>. QED
  BY <1>1, <1>3, <1>4, <1>5, <1>6, <1>7 DEF AnswerInv, MapStep, BuildStep

LEMMA AnswerIsComplete == AnswerInv => MapsTheHierarchy /\ GetIsComplete
<1>. SUFFICES ASSUME AnswerInv PROVE MapsTheHierarchy /\ GetIsComplete
  OBVIOUS
<1>1. MapsTheHierarchy
  BY DEF AnswerInv, VariantInv, OnlyBelow, MapsTheHierarchy
<1>2. ASSUME phase = "got" PROVE GetIsComplete
  <2>. DEFINE below == IF modelName \in DOMAIN m THEN Below(modelName) ELSE {}
  <2>1. \A v \in DOMAIN out : out[v] \in below /\ VariantName(out[v]) = v
    BY <1>2 DEF AnswerInv, GetInv, FoundAreBelow
  <2>2. Offered \subseteq below
    BY <2>1 DEF Offered
  <2>3. CASE modelName \notin DOMAIN m
    BY <2>1, <2>2, <2>3 DEF GetIsComplete, Offered
  <2>4. CASE modelName \in DOMAIN m /\ ~Unambiguous(Below(modelName))
    BY <2>1, <2>4 DEF GetIsComplete, Unambiguous
  <2>5. CASE modelName \in DOMAIN m /\ Unambiguous(Below(modelName))
    <3>1. \A n \in Offered \cup {modelName} : Children(n) \subseteq Offered
      BY <1>2, <2>5 DEF AnswerInv, GetInv, FollowedAreDone
    <3>2. Offered \subseteq DOMAIN definitions
      BY <2>2, <2>5 DEF Below
    <3>3. Below(modelName) \subseteq Offered
      BY <3>1, <3>2, BelowIsLeast
    <3>. QED
      BY <2>1, <2>2, <2>5, <3>3 DEF GetIsComplete, Offered
  <2>. QED
    BY <2>3, <2>4, <2>5
<1>. QED
  BY <1>1, <1>2 DEF GetIsComplete

(* What Get has found stays true of the map for any definitions, any order  *)
(* of the passes and any choice between models with one value.              *)
THEOREM AnswerInvariant == VariantSpec => []AnswerInv
<1>1. VariantInit => AnswerInv
  BY DEF VariantInit, Empty, AnswerInv, VariantInv, OnlyBelow, VisitedAreIn, PassInv, CollectInv,
         ValuesAreChildren, ValuesMeetChildren, GetInv, FoundAreBelow, FollowsKnown, FollowedAreDone
<1>2. AnswerInv /\ [VariantNext]_variantVars => AnswerInv'
  BY AnswerKeeps DEF VariantNext, MapStep
<1>. QED
  BY <1>1, <1>2, PTL DEF VariantSpec

(* Get offers every model below the one it is asked for, over all levels,   *)
(* unless two of them have one value, and nothing else (variant_map.go:18). *)
THEOREM AnswersAreComplete == VariantSpec => []GetIsComplete
BY AnswerInvariant, AnswerIsComplete, PTL

-------------------------------------------------------------------------------
(* Paths.                                                                   *)

IsPath(p) == \E E : p \in Seq(E)

LEMMA PathLen == ASSUME NEW p, IsPath(p) PROVE Len(p) \in Nat
BY DEF IsPath

(* The path to a kid: what is above it.                                     *)
LEMMA KidPath ==
  ASSUME NEW p, IsPath(p), NEW e
  PROVE  LET k == Append(p, e) IN
           /\ IsPath(k) /\ k # <<>> /\ Len(k) = Len(p) + 1
           /\ Front(k) = p /\ Last(k) = e
           /\ Above(k) = Above(p) \cup {p}
<1>1. PICK E : p \in Seq(E)
  BY DEF IsPath
<1>. DEFINE F == E \cup {e}
            k == Append(p, e)
<1>2. p \in Seq(F) /\ e \in F
  BY <1>1, SeqMonotonic
<1>3. /\ k \in Seq(F) /\ k # <<>> /\ Len(k) = Len(p) + 1
      /\ \A i \in 1..Len(p) : k[i] = p[i]
      /\ k[Len(p) + 1] = e
  BY <1>2, AppendProperties
<1>. HIDE DEF F, k
<1>4. Len(p) \in Nat
  BY <1>2, LenProperties
<1>5. ASSUME NEW i \in 0..Len(p) PROVE SubSeq(k, 1, i) = SubSeq(p, 1, i)
  <2>1. i \in Int /\ 1 \in Int /\ \A j \in 1..i : k[j] \in F /\ p[j] \in F /\ k[j] = p[j]
    BY <1>2, <1>3, <1>4, <1>5, ElementOfSeq
  <2>2. /\ SubSeq(k, 1, i) \in Seq(F) /\ SubSeq(p, 1, i) \in Seq(F)
        /\ Len(SubSeq(k, 1, i)) = i /\ Len(SubSeq(p, 1, i)) = i
        /\ \A j \in 1..i : SubSeq(k, 1, i)[j] = k[j] /\ SubSeq(p, 1, i)[j] = p[j]
    BY <2>1, <1>4, SubSeqProperties
  <2>. QED
    BY <2>1, <2>2, SeqEqual
<1>6. SubSeq(p, 1, Len(p)) = p
  BY <1>2, SubSeqFull
<1>7. Front(k) = p /\ Last(k) = e
  <2>1. Front(k) = SubSeq(k, 1, Len(p))
    BY <1>3, <1>4 DEF Front
  <2>. QED
    BY <2>1, <1>3, <1>4, <1>5, <1>6 DEF Last
<1>8. Above(k) = Above(p) \cup {p}
  <2>1. Above(k) = {SubSeq(k, 1, i) : i \in 0..Len(p)}
    BY <1>3, <1>4 DEF Above
  <2>2. Above(k) = {SubSeq(p, 1, i) : i \in 0..Len(p)}
    BY <2>1, <1>5
  <2>3. 0..Len(p) = (0..(Len(p) - 1)) \cup {Len(p)}
    BY <1>4
  <2>. QED
    BY <2>2, <2>3, <1>6 DEF Above
<1>. QED
  BY <1>3, <1>7, <1>8 DEF IsPath, k

LEMMA RootPath == IsPath(<<>>) /\ Len(<<>>) = 0 /\ Above(<<>>) = {}
<1>1. IsPath(<<>>) /\ Len(<<>>) = 0
  BY EmptySeq DEF IsPath
<1>2. 0..(0 - 1) = {}
  OBVIOUS
<1>. QED
  BY <1>1, <1>2 DEF Above

-------------------------------------------------------------------------------
(* The tree and its levels.                                                 *)

PropFields == {"schema", "ref", "visited", "addr", "discriminator", "value", "has", "kids"}
EdgeKinds == {<<"children", "child">>, <<"element", "element">>, <<"variants", "variant">>}

(* A property that is not expanded yet.                                     *)
Fresh(x) == DOMAIN x = PropFields /\ x.has = "nothing" /\ x.kids = {}

(* A property is where its path says, below properties that are expanded.   *)
PropertiesFit ==
  \A p \in DOMAIN prop :
    /\ IsPath(p) /\ DOMAIN prop[p] = PropFields
    /\ prop[p].has \in {"nothing", "children", "element", "variants"}
    /\ prop[p].has = "nothing" => prop[p].kids = {}
    /\ \A e \in prop[p].kids : Append(p, e) \in DOMAIN prop /\ <<prop[p].has, e[1]>> \in EdgeKinds
    /\ p # <<>> => Front(p) \in DOMAIN prop /\ Last(p) \in prop[Front(p)].kids
    /\ \A q \in Above(p) : q \in DOMAIN prop /\ prop[q].has # "nothing"

(* The two levels: all of one depth, and the next one deeper by one.        *)
LevelsFit ==
  /\ worklist \cup nextLevel \subseteq {p \in DOMAIN prop : prop[p].has = "nothing"}
  /\ \A p, q \in worklist : Len(p) = Len(q)
  /\ \A p, q \in nextLevel : Len(p) = Len(q)
  /\ \A p \in worklist, q \in nextLevel : Len(q) = Len(p) + 1

(* Only the object at hand has a variant map, bases or children.            *)
ObjectFits ==
  /\ pc = "new" => prop = Empty /\ worklist = {} /\ nextLevel = {}
  /\ phase # "idle" \/ bases # <<>> => pc = "object"
  /\ bases # <<>> => phase = "idle"
  /\ pc = "object" => current \in worklist
  /\ \A e \in DOMAIN children : e[1] = "child" /\ Fresh(children[e])

TreeInv == PropertiesFit /\ LevelsFit /\ ObjectFits

LEMMA NewIsFresh ==
  ASSUME NEW s, NEW r, NEW a
  PROVE  LET x == NewProp(s, r, a) IN
           Fresh(x) /\ x.schema = s /\ x.ref = r.ref /\ x.visited = r.visited
BY DEF NewProp, Fresh, PropFields

(* A property of the level gets kids: what the tree is after that.          *)
NewPaths(p, kids) == {Append(p, e) : e \in DOMAIN kids}

LEMMA GrowShape ==
  ASSUME PropertiesFit, LevelsFit, NEW p \in worklist, NEW has, NEW kids, Grow(p, has, kids)
  PROVE  LET new == NewPaths(p, kids) IN
         /\ nextLevel' = nextLevel \cup new /\ worklist' = worklist \ {p}
         /\ \A k \in new : \E e \in DOMAIN kids :
               /\ k = Append(p, e) /\ Last(k) = e /\ Front(k) = p /\ k # <<>>
               /\ IsPath(k) /\ Len(k) = Len(p) + 1 /\ Above(k) = Above(p) \cup {p}
         /\ DOMAIN prop' = DOMAIN prop \cup new /\ new \cap DOMAIN prop = {}
         /\ DOMAIN prop'[p] = PropFields /\ prop'[p].has = has /\ prop'[p].kids = DOMAIN kids
         /\ \A f \in PropFields \ {"has", "kids"} : prop'[p][f] = prop[p][f]
         /\ \A q \in DOMAIN prop : q # p => prop'[q] = prop[q]
         /\ \A k \in new : prop'[k] = kids[Last(k)]
<1>. DEFINE new == NewPaths(p, kids)
<1>1. /\ prop' = [q \in DOMAIN prop \cup new |->
                    IF q \in new THEN kids[Last(q)]
                    ELSE IF q = p THEN [prop[p] EXCEPT !.has = has, !.kids = DOMAIN kids]
                    ELSE prop[q]]
      /\ nextLevel' = nextLevel \cup new
      /\ worklist' = worklist \ {p}
  BY DEF Grow, NewPaths
<1>2. p \in DOMAIN prop /\ prop[p].kids = {} /\ IsPath(p) /\ DOMAIN prop[p] = PropFields
  BY DEF LevelsFit, PropertiesFit
<1>3. \A k \in new : \E e \in DOMAIN kids :
        /\ k = Append(p, e) /\ Last(k) = e /\ Front(k) = p /\ k # <<>>
        /\ IsPath(k) /\ Len(k) = Len(p) + 1 /\ Above(k) = Above(p) \cup {p}
  <2>1. ASSUME NEW e
        PROVE  LET k == Append(p, e) IN
                 /\ IsPath(k) /\ k # <<>> /\ Len(k) = Len(p) + 1
                 /\ Front(k) = p /\ Last(k) = e
                 /\ Above(k) = Above(p) \cup {p}
    BY <1>2, KidPath
  <2>2. \A k \in new : \E e \in DOMAIN kids : k = Append(p, e)
    BY DEF NewPaths
  <2>. QED
    BY <2>1, <2>2, Zenon
<1>4. new \cap DOMAIN prop = {}
  BY <1>2, <1>3 DEF PropertiesFit
<1>5. prop'[p] = [prop[p] EXCEPT !.has = has, !.kids = DOMAIN kids]
  BY <1>1, <1>2, <1>4
<1>6. /\ DOMAIN prop'[p] = PropFields /\ prop'[p].has = has /\ prop'[p].kids = DOMAIN kids
      /\ \A f \in PropFields \ {"has", "kids"} : prop'[p][f] = prop[p][f]
  BY <1>2, <1>5 DEF PropFields
<1>. QED
  BY <1>1, <1>3, <1>4, <1>6

(* The tree still fits.                                                     *)
LEMMA Grows ==
  ASSUME PropertiesFit, LevelsFit, NEW p \in worklist, NEW has, NEW kids, Grow(p, has, kids),
         has \in {"children", "element", "variants"},
         \A e \in DOMAIN kids : <<has, e[1]>> \in EdgeKinds /\ Fresh(kids[e])
  PROVE  PropertiesFit' /\ LevelsFit'
<1>. DEFINE new == NewPaths(p, kids)
<1>1. nextLevel' = nextLevel \cup new /\ worklist' = worklist \ {p}
  BY GrowShape
<1>2. p \in DOMAIN prop /\ prop[p].has = "nothing" /\ prop[p].kids = {} /\ IsPath(p)
      /\ DOMAIN prop[p] = PropFields
  BY DEF LevelsFit, PropertiesFit
<1>3. \A k \in new : \E e \in DOMAIN kids :
        /\ k = Append(p, e) /\ Last(k) = e /\ Front(k) = p /\ k # <<>>
        /\ IsPath(k) /\ Len(k) = Len(p) + 1 /\ Above(k) = Above(p) \cup {p}
  BY GrowShape
<1>4. /\ DOMAIN prop' = DOMAIN prop \cup new
      /\ DOMAIN prop'[p] = PropFields /\ prop'[p].has = has /\ prop'[p].kids = DOMAIN kids
      /\ \A q \in DOMAIN prop : q # p => prop'[q] = prop[q]
      /\ \A k \in new : prop'[k] = kids[Last(k)]
  BY GrowShape
<1>. HIDE DEF new
<1>5. /\ DOMAIN prop' = DOMAIN prop \cup new
      /\ DOMAIN prop'[p] = PropFields /\ prop'[p].has = has /\ prop'[p].kids = DOMAIN kids
      /\ \A q \in DOMAIN prop : q # p => prop'[q] = prop[q]
      /\ \A k \in new : Fresh(prop'[k])
  BY <1>3, <1>4
<1>6. \A q \in DOMAIN prop : prop'[q].has = "nothing" => prop[q].has = "nothing" /\ q # p
  BY <1>2, <1>5
<1>7. PropertiesFit'
  <2>1. ASSUME NEW q \in DOMAIN prop, q # p
        PROVE  /\ IsPath(q) /\ DOMAIN prop'[q] = PropFields
               /\ prop'[q].has \in {"nothing", "children", "element", "variants"}
               /\ prop'[q].has = "nothing" => prop'[q].kids = {}
               /\ \A e \in prop'[q].kids :
                     Append(q, e) \in DOMAIN prop' /\ <<prop'[q].has, e[1]>> \in EdgeKinds
    BY <1>5, <2>1 DEF PropertiesFit
  <2>2. /\ prop'[p].has \in {"nothing", "children", "element", "variants"}
        /\ prop'[p].has # "nothing"
        /\ \A e \in prop'[p].kids :
              Append(p, e) \in DOMAIN prop' /\ <<prop'[p].has, e[1]>> \in EdgeKinds
    BY <1>5 DEF new, NewPaths
  <2>3. ASSUME NEW q \in DOMAIN prop
        PROVE  /\ q # <<>> => Front(q) \in DOMAIN prop' /\ Last(q) \in prop'[Front(q)].kids
               /\ \A a \in Above(q) : a \in DOMAIN prop' /\ prop'[a].has # "nothing"
    <3>1. q # <<>> => Front(q) \in DOMAIN prop /\ Last(q) \in prop[Front(q)].kids
      BY DEF PropertiesFit
    <3>2. q # <<>> => Front(q) # p
      BY <1>2, <3>1
    <3>3. \A a \in Above(q) : a \in DOMAIN prop /\ prop[a].has # "nothing"
      BY DEF PropertiesFit
    <3>. QED
      BY <1>5, <1>6, <3>1, <3>2, <3>3
  <2>4. ASSUME NEW k \in new
        PROVE  /\ IsPath(k) /\ DOMAIN prop'[k] = PropFields
               /\ prop'[k].has = "nothing" /\ prop'[k].kids = {}
               /\ Front(k) \in DOMAIN prop' /\ Last(k) \in prop'[Front(k)].kids
               /\ \A a \in Above(k) : a \in DOMAIN prop' /\ prop'[a].has # "nothing"
    <3>1. DOMAIN prop'[k] = PropFields /\ prop'[k].has = "nothing" /\ prop'[k].kids = {}
      BY <1>5 DEF Fresh
    <3>2. \A a \in Above(k) : a \in DOMAIN prop' /\ prop'[a].has # "nothing"
      BY <1>2, <1>3, <1>5, <2>2, <2>3
    <3>. QED
      BY <1>2, <1>3, <1>5, <3>1, <3>2
  <2>. QED
    BY <1>2, <1>5, <2>1, <2>2, <2>3, <2>4 DEF PropertiesFit
<1>8. LevelsFit'
  <2>1. worklist' \cup nextLevel' \subseteq {q \in DOMAIN prop' : prop'[q].has = "nothing"}
    <3>1. \A k \in new : prop'[k].has = "nothing"
      BY <1>5 DEF Fresh
    <3>2. p \notin nextLevel
      BY <1>2, PathLen DEF LevelsFit
    <3>. QED
      BY <1>1, <1>5, <3>1, <3>2 DEF LevelsFit
  <2>2. \A q \in nextLevel' : Len(q) = Len(p) + 1
    BY <1>1, <1>3 DEF LevelsFit
  <2>. QED
    BY <1>1, <2>1, <2>2 DEF LevelsFit
<1>. QED
  BY <1>7, <1>8

(* Steps that leave the tree as it is.                                      *)
LEMMA SameTree ==
  ASSUME UNCHANGED prop
  PROVE  PropertiesFit' <=> PropertiesFit
BY DEF PropertiesFit

LEMMA SameLevels ==
  ASSUME UNCHANGED <<prop, worklist, nextLevel>>
  PROVE  (PropertiesFit /\ LevelsFit)' <=> PropertiesFit /\ LevelsFit
BY DEF PropertiesFit, LevelsFit

LEMMA Leaves ==
  ASSUME PropertiesFit, LevelsFit, NEW p, Leave(p) \/ \E how : Stopped(how)
  PROVE  PropertiesFit' /\ LevelsFit' /\ prop' = prop /\ nextLevel' = nextLevel
<1>1. UNCHANGED <<prop, nextLevel>> /\ worklist' \subseteq worklist
  BY DEF Leave, Stopped
<1>. QED
  BY <1>1, SameTree DEF LevelsFit

LEMMA PairIs == \A x, y : <<x, y>>[1] = x /\ <<x, y>>[2] = y
OBVIOUS

(* The element of an array or a map.                                        *)
LEMMA ElementGrows ==
  ASSUME PropertiesFit, LevelsFit, NEW p \in worklist, NEW r, NEW s, GrowElement(p, r, s)
  PROVE  PropertiesFit' /\ LevelsFit'
<1>1. CASE Leave(p) \/ Stopped("error")
  BY <1>1, Leaves
<1>2. ASSUME NEW a, Grow(p, "element", Put(Empty, <<"element", "">>, NewProp(s, r, a)))
      PROVE  PropertiesFit' /\ LevelsFit'
  <2>. DEFINE kids == Put(Empty, <<"element", "">>, NewProp(s, r, a))
  <2>1. \A e \in DOMAIN kids : <<"element", e[1]>> \in EdgeKinds /\ Fresh(kids[e])
    <3>1. DOMAIN kids = {<<"element", "">>} /\ kids[<<"element", "">>] = NewProp(s, r, a)
      BY DEF Put, Empty
    <3>2. Fresh(NewProp(s, r, a))
      BY NewIsFresh
    <3>3. \A e \in {<<"element", "">>} : e[1] = "element"
      BY PairIs
    <3>. HIDE DEF kids
    <3>. QED
      BY <3>1, <3>2, <3>3 DEF EdgeKinds
  <2>. HIDE DEF kids
  <2>. QED
    BY <1>2, <2>1, Grows DEF kids
<1>. QED
  BY <1>1, <1>2 DEF GrowElement

LEMMA TreeInit == Init => TreeInv
<1>1. DOMAIN Empty = {}
  BY DEF Empty
<1>. QED
  BY <1>1 DEF Init, VariantIdle, TreeInv, PropertiesFit, LevelsFit, ObjectFits

(* What is done at once leaves no object behind.                            *)
LEMMA ObjectStays ==
  ASSUME ObjectFits, pc \in {"new", "expand"}, Step, pc' \in {"expand", "error", "panic", "expanded"}
  PROVE  ObjectFits'
<1>1. phase = "idle" /\ bases = <<>>
  BY DEF ObjectFits
<1>. QED
  BY <1>1 DEF ObjectFits, Step, objectVars, variantVars

LEMMA PlainStep ==
  ASSUME TreeInv, NEW p \in worklist,
         ExpandPrimitive(p) \/ ExpandArray(p) \/ ExpandMap(p)
  PROVE  TreeInv'
<1>1. pc = "expand" /\ Step /\ pc' \in {"expand", "error", "panic"}
  BY DEF ExpandPrimitive, ExpandArray, ExpandMap, Ready, GrowElement, Grow, Leave, Stopped
<1>2. ObjectFits'
  BY <1>1, ObjectStays DEF TreeInv
<1>3. CASE ExpandPrimitive(p)
  BY <1>2, <1>3, Leaves DEF TreeInv, ExpandPrimitive
<1>4. CASE ExpandArray(p)
  BY <1>2, <1>4, Leaves, ElementGrows DEF TreeInv, ExpandArray
<1>5. CASE ExpandMap(p)
  BY <1>2, <1>5, ElementGrows DEF TreeInv, ExpandMap
<1>. QED
  BY <1>3, <1>4, <1>5

LEMMA TextStep ==
  ASSUME TreeInv, NEW p \in worklist, ExpandEmptyObject(p)
  PROVE  TreeInv'
<1>1. /\ pc = "expand" /\ Step /\ pc' = pc
      /\ worklist' = worklist \ {p} /\ nextLevel' = nextLevel
      /\ prop' = [prop EXCEPT ![p].schema = StringSchema]
  BY DEF ExpandEmptyObject, Ready
<1>2. /\ DOMAIN prop' = DOMAIN prop
      /\ \A q \in DOMAIN prop : /\ DOMAIN prop'[q] = DOMAIN prop[q]
                               /\ DOMAIN prop[q] = PropFields
                               /\ prop'[q].has = prop[q].has /\ prop'[q].kids = prop[q].kids
  BY <1>1 DEF TreeInv, PropertiesFit, PropFields
<1>3. ObjectFits'
  BY <1>1, ObjectStays DEF TreeInv
<1>4. PropertiesFit'
  BY <1>2 DEF TreeInv, PropertiesFit
<1>5. LevelsFit'
  BY <1>1, <1>2 DEF TreeInv, LevelsFit
<1>. QED
  BY <1>3, <1>4, <1>5 DEF TreeInv

LEMMA RootStep ==
  ASSUME TreeInv, NewExpander
  PROVE  TreeInv'
<1>1. pc = "new" /\ Step /\ worklist = {} /\ nextLevel = {} /\ DOMAIN prop = {}
  BY DEF NewExpander, Step, TreeInv, ObjectFits, Empty
<1>2. CASE Stopped("error")
  <2>1. ObjectFits'
    BY <1>1, <1>2, ObjectStays DEF TreeInv, Stopped
  <2>. QED
    BY <1>2, <2>1, Leaves DEF TreeInv
<1>3. ASSUME NEW s, NEW r, NEW a, prop' = Put(Empty, <<>>, NewProp(s, r, a)), worklist' = {<<>>},
             nextLevel' = nextLevel, pc' = "expand"
      PROVE  TreeInv'
  <2>1. DOMAIN prop' = {<<>>} /\ Fresh(prop'[<<>>])
    BY <1>3, NewIsFresh DEF Put, Empty
  <2>2. ObjectFits'
    BY <1>1, <1>3, ObjectStays DEF TreeInv
  <2>3. PropertiesFit'
    BY <2>1, RootPath DEF PropertiesFit, Fresh
  <2>4. LevelsFit'
    BY <1>1, <1>3, <2>1 DEF LevelsFit, Fresh
  <2>. QED
    BY <2>2, <2>3, <2>4 DEF TreeInv
<1>. QED
  BY <1>2, <1>3 DEF NewExpander

LEMMA LevelStep ==
  ASSUME TreeInv, NextLevel
  PROVE  TreeInv'
<1>1. pc = "expand" /\ Step /\ pc' \in {"expand", "expanded"} /\ worklist' = nextLevel /\ nextLevel' = {}
      /\ UNCHANGED prop
  BY DEF NextLevel, Step
<1>2. ObjectFits'
  BY <1>1, ObjectStays DEF TreeInv
<1>3. PropertiesFit' /\ LevelsFit'
  BY <1>1, SameTree DEF TreeInv, LevelsFit
<1>. QED
  BY <1>2, <1>3 DEF TreeInv

LEMMA VariantSteps ==
  ASSUME TreeInv, InitVariantMap(current') \/ GetVariants \/ VariantStep, current' \in worklist \/ pc = "object"
  PROVE  TreeInv'
<1>1. UNCHANGED <<prop, worklist, nextLevel, bases, children>>
  BY DEF InitVariantMap, GetVariants, VariantStep, expanderVars, objectVars
<1>2. PropertiesFit' /\ LevelsFit'
  BY <1>1, SameLevels DEF TreeInv
<1>3. ObjectFits'
  <2>1. CASE InitVariantMap(current')
    <3>1. pc = "expand" /\ pc' = "object" /\ current' \in worklist
      BY <2>1 DEF InitVariantMap, Ready
    <3>. QED
      BY <1>1, <3>1 DEF TreeInv, ObjectFits
  <2>2. CASE GetVariants \/ VariantStep
    <3>1. phase # "idle" /\ UNCHANGED <<pc, current>>
      BY <2>2 DEF GetVariants, Get, VariantStep, BuildStep, Seed, NextPass, Collected, Inherit, Collect,
                  GetLevel, GetEnd, expanderVars
    <3>. QED
      BY <1>1, <3>1 DEF TreeInv, ObjectFits
  <2>. QED
    BY <2>1, <2>2
<1>. QED
  BY <1>2, <1>3 DEF TreeInv

(* The properties of the object at hand and of its bases.                   *)
LEMMA ChildrenSteps ==
  ASSUME TreeInv, ExpandAsRegularObject \/ ExpandBase
  PROVE  TreeInv'
<1>1. CASE ExpandAsRegularObject
  <2>1. /\ UNCHANGED <<prop, worklist, nextLevel, current, pc>> /\ phase = "got"
        /\ phase' = "idle" /\ DOMAIN children' = {}
    BY <1>1 DEF ExpandAsRegularObject, Forget, Empty
  <2>. QED
    BY <2>1, SameLevels DEF TreeInv, ObjectFits
<1>2. CASE ExpandBase
  <2>0. UNCHANGED phase /\ bases # <<>> /\ phase = "idle" /\ pc = "object"
    BY <1>2 DEF ExpandBase, variantVars, TreeInv, ObjectFits
  <2>1. CASE Abandon
    <3>1. UNCHANGED <<prop, worklist, nextLevel>> /\ pc' = "error" /\ bases' = <<>> /\ DOMAIN children' = {}
      BY <2>1 DEF Abandon, Stopped, Empty
    <3>. QED
      BY <2>0, <3>1, SameLevels DEF TreeInv, ObjectFits
  <2>2. ASSUME UNCHANGED <<current, prop, worklist, nextLevel, pc>>,
               \A e \in DOMAIN children' : e[1] = "child" /\ Fresh(children'[e])
        PROVE  TreeInv'
    BY <2>0, <2>2, SameLevels DEF TreeInv, ObjectFits
  <2>3. CASE Head(bases).is = "cut" /\ UNCHANGED <<current, children, prop, worklist, nextLevel, pc>>
    BY <2>2, <2>3 DEF TreeInv, ObjectFits
  <2>. DEFINE own == [k \in DOMAIN At(doc, Head(bases).ref).properties |->
                        RResolve(doc, Ref(Head(bases).ref, "properties", k), Head(bases).visited, FALSE)]
              names == {j \in DOMAIN own : own[j].is = "ok"}
              new == {<<"child", k>> : k \in names}
              kid(k) == NewProp(At(doc, own[k].ref), own[k], Append(prop[current].addr, PropStep(k)))
  <2>4. ASSUME UNCHANGED <<current, prop, worklist, nextLevel, pc>>,
               children' = [e \in new \cup DOMAIN children |->
                              IF e \in new THEN kid(e[2]) ELSE children[e]]
        PROVE  TreeInv'
    <3>0. \A k : Fresh(kid(k))
      BY NewIsFresh
    <3>. HIDE DEF names, kid
    <3>1. ASSUME NEW e \in DOMAIN children' PROVE e[1] = "child" /\ Fresh(children'[e])
      <4>1. CASE e \in new
        <5>1. PICK k \in names : e = <<"child", k>>
          BY <4>1
        <5>2. children'[e] = kid(e[2])
          BY <2>4, <4>1
        <5>. QED
          BY <3>0, <5>1, <5>2, PairIs
      <4>2. CASE e \notin new
        BY <2>4, <3>1, <4>2 DEF TreeInv, ObjectFits
      <4>. QED
        BY <4>1, <4>2
    <3>. QED
      BY <2>2, <2>4, <3>1
  <2>. QED
    BY <1>2, <2>1, <2>3, <2>4 DEF ExpandBase
<1>. QED
  BY <1>1, <1>2

LEMMA GrowSteps ==
  ASSUME TreeInv, GotChildren \/ ExpandAsPolymorphicObject
  PROVE  TreeInv'
<1>1. CASE GotChildren
  <2>1. /\ pc = "object" /\ Grow(current, "children", children) /\ DOMAIN children' = {}
        /\ UNCHANGED <<bases, phase>> /\ phase = "idle" /\ bases = <<>> /\ pc' = "expand"
    BY <1>1 DEF GotChildren, Grow, variantVars, Empty
  <2>2. current \in worklist /\ \A e \in DOMAIN children : <<"children", e[1]>> \in EdgeKinds /\ Fresh(children[e])
    BY <2>1 DEF TreeInv, ObjectFits, EdgeKinds
  <2>3. PropertiesFit' /\ LevelsFit'
    BY <2>1, <2>2, Grows DEF TreeInv
  <2>. QED
    BY <2>1, <2>3 DEF TreeInv, ObjectFits
<1>2. CASE ExpandAsPolymorphicObject
  <2>1. /\ pc = "object" /\ current \in worklist /\ phase' = "idle" /\ bases = <<>>
        /\ UNCHANGED <<bases, children>> /\ pc' \in {"expand", "error"}
    BY <1>2 DEF ExpandAsPolymorphicObject, Forget, Grow, Stopped, objectVars, TreeInv, ObjectFits
  <2>2. ObjectFits'
    BY <2>1 DEF TreeInv, ObjectFits
  <2>3. CASE Stopped("error")
    BY <2>2, <2>3, Leaves DEF TreeInv
  <2>. DEFINE r == VariantProps(current)
              kept == {v \in DOMAIN r : r[v].is = "ok"}
              base(v) == NewProp(At(doc, r[v].ref), r[v], VariantAddr(prop[current].addr, v))
              kids == [e \in {<<"variant", v>> : v \in kept} |->
                         [base(e[2]) EXCEPT !.discriminator = m[modelName].discriminator, !.value = e[2]]]
  <2>4. ASSUME Grow(current, "variants", kids) PROVE TreeInv'
    <3>0. \A v : Fresh(base(v))
      BY NewIsFresh
    <3>. HIDE DEF base, kept
    <3>1. ASSUME NEW e \in DOMAIN kids PROVE <<"variants", e[1]>> \in EdgeKinds /\ Fresh(kids[e])
      <4>1. PICK v \in kept : e = <<"variant", v>>
        BY <3>1
      <4>2. kids[e] = [base(e[2]) EXCEPT !.discriminator = m[modelName].discriminator, !.value = e[2]]
        BY <3>1
      <4>3. Fresh(kids[e])
        BY <3>0, <4>2 DEF Fresh, PropFields
      <4>. QED
        BY <4>1, <4>3, PairIs DEF EdgeKinds
    <3>. HIDE DEF kids
    <3>. QED
      BY <2>1, <2>2, <2>4, <3>1, Grows DEF TreeInv
  <2>. QED
    BY <1>2, <2>3, <2>4 DEF ExpandAsPolymorphicObject
<1>. QED
  BY <1>1, <1>2

(* The tree fits together at every moment of the expansion, for any files.  *)
THEOREM TreeInvariant == ExpanderSpec => []TreeInv
<1>1. TreeInv /\ [ExpandStep]_<<expanderVars, variantVars>> => TreeInv'
  <2>. SUFFICES ASSUME TreeInv, [ExpandStep]_<<expanderVars, variantVars>> PROVE TreeInv'
    OBVIOUS
  <2>1. CASE UNCHANGED <<expanderVars, variantVars>>
    <3>1. UNCHANGED <<prop, worklist, nextLevel, pc, current, bases, children, phase>>
      BY <2>1 DEF expanderVars, objectVars, variantVars
    <3>. QED
      BY <3>1, SameLevels DEF TreeInv, ObjectFits
  <2>2. CASE NewExpander
    BY <2>2, RootStep
  <2>3. CASE NextLevel
    BY <2>3, LevelStep
  <2>4. CASE GetVariants \/ VariantStep
    <3>1. pc = "object"
      BY <2>4 DEF GetVariants, Get, VariantStep, BuildStep, Seed, NextPass, Collected, Inherit, Collect,
                  GetLevel, GetEnd, TreeInv, ObjectFits
    <3>. QED
      BY <2>4, <3>1, VariantSteps
  <2>5. CASE ExpandAsRegularObject \/ ExpandBase
    BY <2>5, ChildrenSteps
  <2>6. CASE GotChildren \/ ExpandAsPolymorphicObject
    BY <2>6, GrowSteps
  <2>7. ASSUME NEW p \in worklist, ExpandPrimitive(p) \/ ExpandArray(p) \/ ExpandMap(p) PROVE TreeInv'
    BY <2>7, PlainStep
  <2>8. ASSUME NEW p \in worklist, ExpandEmptyObject(p) PROVE TreeInv'
    BY <2>8, TextStep
  <2>9. ASSUME NEW p \in worklist, InitVariantMap(p) PROVE TreeInv'
    <3>1. current' = p
      BY <2>9 DEF InitVariantMap
    <3>. QED
      BY <2>9, <3>1, VariantSteps
  <2>. QED
    BY <2>1, <2>2, <2>3, <2>4, <2>5, <2>6, <2>7, <2>8, <2>9 DEF ExpandStep
<1>. QED
  BY <1>1, TreeInit, PTL DEF ExpanderSpec

(* A property has children, an element or variants, one of them at most,    *)
(* and all of them are in the tree, whatever the files (property.go:77).    *)
THEOREM TreeCorrect == ExpanderSpec => []TreeOK
<1>1. TreeInv => TreeOK
  BY DEF TreeInv, PropertiesFit, LevelsFit, ObjectFits, TreeOK, EdgeKinds
<1>. QED
  BY <1>1, TreeInvariant, PTL

-------------------------------------------------------------------------------
(* The expander keeps the map of a file and asks it again for the next      *)
(* object of that file (expander.go:444).                                   *)

ParentsIn(D, d) == {LastToken(D[d].allOf[i].ref) : i \in {j \in DOMAIN D[d].allOf : D[d].allOf[j].ref # None}}
ChildrenIn(D, p) == {d \in DOMAIN D : p \in ParentsIn(D, d)}
NameIn(D, d) == IF D[d].value = None THEN d ELSE D[d].value
RootsIn(D) == {d \in DOMAIN D : D[d].discriminator # ""}
ClosedIn(D, S) == \A d \in DOMAIN D : ParentsIn(D, d) \cap S # {} => d \in S

(* M is a map that NewVariantMap may return for the definitions D.          *)
Finished(D, M) ==
  /\ RootsIn(D) \subseteq DOMAIN M /\ ClosedIn(D, DOMAIN M)
  /\ \A S \in SUBSET DOMAIN D : RootsIn(D) \subseteq S /\ ClosedIn(D, S) => DOMAIN M \subseteq S
  /\ \A p \in DOMAIN M :
       /\ "values" \in DOMAIN M[p]
       /\ \A v \in DOMAIN M[p].values : M[p].values[v] \in ChildrenIn(D, p) /\ NameIn(D, M[p].values[v]) = v
       /\ \A d \in ChildrenIn(D, p) : NameIn(D, d) \in DOMAIN M[p].values

(* Every kept map is that of its file, and so is the one at hand.           *)
CacheInv ==
  /\ phase = "idle" => VariantIdle
  /\ phase # "idle" => definitions = doc[prop[current].ref[1]].definitions
  /\ \A f \in DOMAIN variantMaps : Finished(doc[f].definitions, variantMaps[f])

LEMMA InDefinitions ==
  /\ Roots = RootsIn(definitions)
  /\ \A d : Parents(d) = ParentsIn(definitions, d) /\ VariantName(d) = NameIn(definitions, d)
  /\ \A p : Children(p) = ChildrenIn(definitions, p)
  /\ \A S : Closed(S) <=> ClosedIn(definitions, S)
<1>1. \A d : Parents(d) = ParentsIn(definitions, d)
  BY DEF Parents, Parent, Bases, ParentsIn
<1>2. \A d : VariantName(d) = NameIn(definitions, d)
  BY DEF VariantName, NameIn
<1>. QED
  BY <1>1, <1>2 DEF Roots, RootsIn, Children, ChildrenIn, Closed, ClosedIn

LEMMA FinishedIs ==
  ASSUME AnswerInv, phase \in {"built", "get", "got"}
  PROVE  Finished(definitions, m)
<1>1. /\ Roots \subseteq DOMAIN m /\ Closed(DOMAIN m)
      /\ \A S \in SUBSET DOMAIN definitions : Roots \subseteq S /\ Closed(S) => DOMAIN m \subseteq S
  BY DEF AnswerInv, VariantInv, OnlyBelow
<1>2. \A p \in DOMAIN m :
        /\ "values" \in DOMAIN m[p]
        /\ \A v \in DOMAIN m[p].values : m[p].values[v] \in Children(p) /\ VariantName(m[p].values[v]) = v
        /\ \A d \in Children(p) : VariantName(d) \in DOMAIN m[p].values
  BY DEF AnswerInv, CollectInv, ValuesAreChildren, ValuesMeetChildren
<1>. QED
  BY <1>1, <1>2, InDefinitions DEF Finished

(* A finished map is as good as one that was just built.                    *)
LEMMA FinishedFits ==
  phase = "built" /\ todo = {} /\ toContinue = FALSE /\ Finished(definitions, m) => AnswerInv
<1>. SUFFICES ASSUME phase = "built", todo = {}, toContinue = FALSE, Finished(definitions, m)
              PROVE  AnswerInv
  OBVIOUS
<1>1. VariantInv
  BY InDefinitions DEF Finished, VariantInv, OnlyBelow, VisitedAreIn
<1>2. CollectInv
  BY InDefinitions DEF Finished, CollectInv, ValuesAreChildren, ValuesMeetChildren
<1>3. PassInv /\ GetInv
  BY DEF PassInv, GetInv, FoundAreBelow, FollowsKnown, FollowedAreDone
<1>. QED
  BY <1>1, <1>2, <1>3 DEF AnswerInv

LEMMA NewMapFits == phase = "seed" /\ todo = {} /\ toContinue = FALSE /\ DOMAIN m = {} => AnswerInv
BY DEF AnswerInv, VariantInv, OnlyBelow, VisitedAreIn, PassInv, CollectInv, ValuesAreChildren,
       ValuesMeetChildren, GetInv, FoundAreBelow, FollowsKnown, FollowedAreDone

LEMMA IdleFits == VariantIdle => AnswerInv
<1>. SUFFICES ASSUME VariantIdle PROVE AnswerInv
  OBVIOUS
<1>1. DOMAIN definitions = {} /\ DOMAIN m = {} /\ phase = "idle" /\ todo = {} /\ toContinue = FALSE
  BY DEF VariantIdle, Empty
<1>2. Roots = {} /\ \A S : Closed(S)
  BY <1>1 DEF Roots, Closed
<1>. QED
  BY <1>1, <1>2 DEF AnswerInv, VariantInv, OnlyBelow, VisitedAreIn, PassInv, CollectInv, ValuesAreChildren,
       ValuesMeetChildren, GetInv, FoundAreBelow, FollowsKnown, FollowedAreDone

(* Steps that look neither into a map nor build one.                        *)
LEMMA IdleStep ==
  ASSUME AnswerInv, CacheInv, phase = "idle", UNCHANGED <<operation, variantMaps, variantVars>>
  PROVE  AnswerInv' /\ CacheInv'
<1>1. AnswerInv'
  BY AnswerKeeps DEF MapStep
<1>2. UNCHANGED <<definitions, m, phase, todo, toContinue, modelName, wl, out>> /\ doc' = doc
  BY DEF variantVars, doc
<1>. QED
  BY <1>1, <1>2 DEF CacheInv, VariantIdle

(* Steps over a map of the object at hand.                                  *)
LEMMA MapWork ==
  ASSUME AnswerInv, CacheInv, MapStep, phase # "idle", phase' # "idle",
         UNCHANGED <<operation, prop, current, variantMaps, definitions>>
  PROVE  AnswerInv' /\ CacheInv'
<1>1. doc' = doc
  BY DEF doc
<1>. QED
  BY <1>1, AnswerKeeps DEF CacheInv

(* Steps that leave the map.                                                *)
LEMMA MapDone ==
  ASSUME CacheInv, Forget, UNCHANGED <<operation, variantMaps>>
  PROVE  AnswerInv' /\ CacheInv'
<1>1. VariantIdle'
  BY DEF Forget, VariantIdle
<1>2. AnswerInv'
  <2>1. (VariantIdle => AnswerInv)'
    BY IdleFits, PTL
  <2>. QED
    BY <1>1, <2>1
<1>3. doc' = doc /\ phase' = "idle"
  BY DEF doc, Forget
<1>. QED
  BY <1>1, <1>2, <1>3 DEF CacheInv

LEMMA MapStarts ==
  ASSUME TreeInv, CacheInv, NEW p, InitVariantMap(p)
  PROVE  AnswerInv' /\ CacheInv'
<1>. DEFINE file == prop[p].ref[1]
<1>1. /\ pc = "expand" /\ current' = p /\ definitions' = doc[file].definitions
      /\ UNCHANGED <<operation, prop, variantMaps, todo, toContinue>>
      /\ file \in DOMAIN variantMaps => m' = variantMaps[file] /\ phase' = "built"
      /\ file \notin DOMAIN variantMaps => phase' = "seed" /\ UNCHANGED m
  BY DEF InitVariantMap, Ready
<1>2. phase = "idle" /\ todo = {} /\ toContinue = FALSE /\ DOMAIN m = {} /\ doc' = doc
  BY <1>1 DEF TreeInv, ObjectFits, CacheInv, VariantIdle, Empty, doc
<1>3. CacheInv'
  BY <1>1, <1>2 DEF CacheInv
<1>4. CASE file \in DOMAIN variantMaps
  <2>1. Finished(definitions', m')
    BY <1>1, <1>4 DEF CacheInv
  <2>2. (phase = "built" /\ todo = {} /\ toContinue = FALSE /\ Finished(definitions, m) => AnswerInv)'
    BY FinishedFits, PTL
  <2>3. Finished(definitions, m)' <=> Finished(definitions', m')
    BY DEF Finished, RootsIn, ClosedIn, ParentsIn, ChildrenIn, NameIn
  <2>. QED
    BY <1>1, <1>2, <1>3, <1>4, <2>1, <2>2, <2>3
<1>5. CASE file \notin DOMAIN variantMaps
  <2>1. (phase = "seed" /\ todo = {} /\ toContinue = FALSE /\ DOMAIN m = {} => AnswerInv)'
    BY NewMapFits, PTL
  <2>. QED
    BY <1>1, <1>2, <1>3, <1>5, <2>1
<1>. QED
  BY <1>4, <1>5

LEMMA MapIsKept ==
  ASSUME AnswerInv, CacheInv, GetVariants
  PROVE  AnswerInv' /\ CacheInv'
<1>. DEFINE file == prop[current].ref[1]
<1>1. /\ Get(SchemaName(prop[current].ref)) /\ phase = "built" /\ phase' # "idle"
      /\ variantMaps' = Put(variantMaps, file, m)
      /\ UNCHANGED <<operation, prop, current, definitions>>
  BY DEF GetVariants, Get
<1>2. AnswerInv'
  BY <1>1, AnswerKeeps DEF MapStep
<1>3. Finished(doc[file].definitions, m) /\ doc' = doc
  BY <1>1, FinishedIs DEF CacheInv, doc
<1>4. \A f \in DOMAIN variantMaps' : Finished(doc[f].definitions, variantMaps'[f])
  BY <1>1, <1>3 DEF CacheInv, Put
<1>. QED
  BY <1>1, <1>2, <1>3, <1>4 DEF CacheInv

(* Whatever objects are expanded in whatever order, what is kept of a file  *)
(* is the map of its definitions.                                           *)
THEOREM MapsInvariant == ExpanderSpec => [](TreeInv /\ AnswerInv /\ CacheInv)
<1>1. Init => AnswerInv /\ CacheInv
  BY IdleFits DEF Init, CacheInv, VariantIdle, Empty
<1>2. TreeInv /\ AnswerInv /\ CacheInv /\ [ExpandStep]_<<expanderVars, variantVars>> => AnswerInv' /\ CacheInv'
  <2>. SUFFICES ASSUME TreeInv, AnswerInv, CacheInv, [ExpandStep]_<<expanderVars, variantVars>>
                PROVE  AnswerInv' /\ CacheInv'
    OBVIOUS
  <2>0. phase # "idle" \/ bases # <<>> => pc = "object"
    BY DEF TreeInv, ObjectFits
  <2>1. CASE UNCHANGED <<expanderVars, variantVars>>
    <3>1. UNCHANGED <<operation, prop, current, variantMaps, definitions, phase>> /\ UNCHANGED variantVars
      BY <2>1 DEF expanderVars, variantVars
    <3>. QED
      BY <3>1, IdleStep, MapWork DEF MapStep
  <2>2. CASE NewExpander \/ NextLevel
    BY <2>0, <2>2, IdleStep DEF NewExpander, NextLevel
  <2>3. CASE ExpandBase \/ GotChildren
    <3>1. phase = "idle"
      BY <2>3 DEF ExpandBase, GotChildren, TreeInv, ObjectFits
    <3>. QED
      BY <2>3, <3>1, IdleStep DEF ExpandBase, GotChildren
  <2>4. CASE GetVariants
    BY <2>4, MapIsKept
  <2>5. CASE VariantStep
    <3>1. UNCHANGED <<operation, prop, current, variantMaps>>
      BY <2>5 DEF VariantStep, expanderVars
    <3>2. BuildStep \/ GetLevel \/ GetEnd
      BY <2>5 DEF VariantStep
    <3>3. phase # "idle" /\ phase' # "idle" /\ UNCHANGED definitions
      BY <3>2 DEF BuildStep, Seed, NextPass, Collected, Inherit, Collect, GetLevel, GetEnd
    <3>. QED
      BY <3>1, <3>2, <3>3, MapWork DEF MapStep
  <2>6. CASE ExpandAsRegularObject \/ ExpandAsPolymorphicObject
    BY <2>6, MapDone DEF ExpandAsRegularObject, ExpandAsPolymorphicObject
  <2>7. ASSUME NEW p \in worklist,
               ExpandPrimitive(p) \/ ExpandArray(p) \/ ExpandMap(p) \/ ExpandEmptyObject(p)
        PROVE  AnswerInv' /\ CacheInv'
    <3>1. Step /\ pc = "expand"
      BY <2>7 DEF ExpandPrimitive, ExpandArray, ExpandMap, ExpandEmptyObject, Ready
    <3>. QED
      BY <2>0, <3>1, IdleStep DEF Step
  <2>8. ASSUME NEW p \in worklist, InitVariantMap(p) PROVE AnswerInv' /\ CacheInv'
    BY <2>8, MapStarts
  <2>. QED
    BY <2>1, <2>2, <2>3, <2>4, <2>5, <2>6, <2>7, <2>8 DEF ExpandStep
<1>. QED
  BY <1>1, <1>2, TreeInvariant, PTL DEF ExpanderSpec

(* In every expansion, also where a kept map is used again, the map of a    *)
(* file is its hierarchy, and every object gets all the variants below it   *)
(* and no others (expander.go:309).                                         *)
THEOREM ExpansionMapsTheHierarchy == ExpanderSpec => []MapsTheHierarchy
BY MapsInvariant, AnswerIsComplete, PTL

(* The same of what an object gets from the map: all models below its own,  *)
(* unless two of them have one value, and no others (expander.go:313).      *)
THEOREM ExpansionGetsAllVariants == ExpanderSpec => []GetIsComplete
BY MapsInvariant, AnswerIsComplete, PTL

-------------------------------------------------------------------------------
(* What a reference leads to: its first two steps give what a file holds,   *)
(* every further one a part of that.                                        *)

(* The recursive function in At.                                            *)
Leads(d, ref, a) ==
  a = [n \in 2..Len(ref) |-> IF n = 2 THEN InFile(d, ref[1], ref[2]) ELSE Child(a[n - 1], ref[n])]

LEMMA LeadsExists == ASSUME NEW d, NEW ref, Len(ref) \in Nat PROVE \E a : Leads(d, ref, a)
<1>. DEFINE Part(n, a) == a = [i \in 2..n |-> IF i = 2 THEN InFile(d, ref[1], ref[2])
                                               ELSE Child(a[i - 1], ref[i])]
            Bad == {n \in Nat : ~ \E a : Part(n, a)}
<1>1. SUFFICES ASSUME Bad # {} PROVE FALSE
  BY DEF Leads
<1>2. PICK n \in Bad : \A k \in Bad : n <= k
  BY <1>1, LeastNatural
<1>3. n # 0
  <2>1. Part(0, [i \in 2..0 |-> ref])
    OBVIOUS
  <2>. QED
    BY <2>1
<1>4. PICK a : Part(n - 1, a)
  <2>0. n \in Nat
    OBVIOUS
  <2>1. n - 1 \in Nat /\ n - 1 \notin Bad
    <3>. HIDE DEF Bad
    <3>. QED
      BY <1>2, <1>3, <2>0
  <2>. QED
    BY <2>1
<1>. DEFINE b == [i \in 2..n |-> IF i < n THEN a[i]
                                  ELSE IF i = 2 THEN InFile(d, ref[1], ref[2]) ELSE Child(a[i - 1], ref[i])]
<1>5. n \in Nat /\ n > 0
  BY <1>2, <1>3
<1>6. \A i \in 2..(n - 1) : a[i] = IF i = 2 THEN InFile(d, ref[1], ref[2]) ELSE Child(a[i - 1], ref[i])
  BY <1>4, <1>5
<1>7. \A i \in 2..n : b[i] = IF i = 2 THEN InFile(d, ref[1], ref[2]) ELSE Child(b[i - 1], ref[i])
  BY <1>5, <1>6
<1>8. Part(n, b)
  BY <1>7
<1>. QED
  BY <1>2, <1>8

LEMMA AtLeads ==
  ASSUME NEW d, NEW ref, Len(ref) \in Nat
  PROVE  \E a : Leads(d, ref, a) /\ At(d, ref) = a[Len(ref)]
<1>. DEFINE A == CHOOSE a : Leads(d, ref, a)
<1>1. Leads(d, ref, A)
  BY LeadsExists
<1>2. At(d, ref) = A[Len(ref)]
  BY DEF At, Leads
<1>. QED
  BY <1>1, <1>2

(* A reference of two steps, and one of more.                               *)
LEMMA AtName ==
  ASSUME NEW d, NEW ref, IsRef(ref), Len(ref) = 2
  PROVE  At(d, ref) = InFile(d, ref[1], ref[2])
<1>0. Len(ref) \in Nat
  OBVIOUS
<1>1. PICK a : Leads(d, ref, a) /\ At(d, ref) = a[Len(ref)]
  BY <1>0, AtLeads, Zenon
<1>2. 2 \in 2..Len(ref)
  OBVIOUS
<1>. QED
  BY <1>1, <1>2 DEF Leads

LEMMA LongerRef ==
  ASSUME NEW ref, IsRef(ref), NEW section, NEW name, NEW longer, longer = Ref(ref, section, name)
  PROVE  /\ IsRef(longer) /\ Len(longer) = Len(ref) + 1
         /\ \A i \in 1..Len(ref) : longer[i] = ref[i]
         /\ longer[Len(longer)] = <<section, name>>
<1>. DEFINE E == {ref[i] : i \in 1..Len(ref)} \cup {<<section, name>>}
<1>1. Len(ref) \in Nat \ {0, 1} /\ ref = [i \in 1..Len(ref) |-> ref[i]]
  BY DEF IsRef
<1>2. ref \in Seq(E) /\ <<section, name>> \in E
  <2>1. ref \in [1..Len(ref) -> E]
    BY <1>1
  <2>. HIDE DEF E
  <2>2. ref \in Seq(E)
    BY <1>1, <2>1, SeqDef
  <2>. QED
    BY <2>2 DEF E
<1>. HIDE DEF E
<1>3. /\ longer \in Seq(E) /\ Len(longer) = Len(ref) + 1
      /\ \A i \in 1..Len(ref) : longer[i] = ref[i]
      /\ longer[Len(ref) + 1] = <<section, name>>
  BY <1>2, AppendProperties DEF Ref
<1>4. longer = [i \in 1..Len(longer) |-> longer[i]]
  BY <1>3
<1>. QED
  BY <1>1, <1>3, <1>4 DEF IsRef

LEMMA AtPart ==
  ASSUME NEW d, NEW ref, IsRef(ref), NEW section, NEW name
  PROVE  At(d, Ref(ref, section, name)) = Child(At(d, ref), <<section, name>>)
<1>. DEFINE longer == Ref(ref, section, name)
            len == Len(ref)
<1>1. /\ len \in Nat \ {0, 1} /\ Len(longer) = len + 1
      /\ \A i \in 1..len : longer[i] = ref[i]
      /\ longer[len + 1] = <<section, name>>
  <2>1. longer = Ref(ref, section, name)
    OBVIOUS
  <2>. HIDE DEF longer
  <2>2. IsRef(longer) /\ Len(longer) = len + 1 /\ longer[Len(longer)] = <<section, name>>
        /\ \A i \in 1..Len(ref) : longer[i] = ref[i]
    BY <2>1, LongerRef
  <2>. QED
    BY <2>2 DEF IsRef
<1>. HIDE DEF longer, len
<1>2. PICK a : Leads(d, ref, a) /\ At(d, ref) = a[len]
  BY <1>1, AtLeads DEF len
<1>3. PICK b : Leads(d, longer, b) /\ At(d, longer) = b[len + 1]
  BY <1>1, AtLeads
<1>4. \A n \in 2..len : a[n] = b[n]
  <2>. DEFINE Bad == {n \in 2..len : a[n] # b[n]}
  <2>1. SUFFICES ASSUME Bad # {} PROVE FALSE
    OBVIOUS
  <2>2. Bad \in SUBSET Nat
    OBVIOUS
  <2>3. PICK n \in Bad : \A k \in Bad : n <= k
    <3>. HIDE DEF Bad
    <3>. QED
      BY <2>1, <2>2, LeastNatural
  <2>4. n \in 2..len /\ a[n] # b[n]
    BY <2>3
  <2>5. \A k \in 2..(n - 1) : a[k] = b[k]
    BY <1>1, <2>3, <2>4
  <2>6. a[n] = IF n = 2 THEN InFile(d, ref[1], ref[2]) ELSE Child(a[n - 1], ref[n])
    BY <1>2, <2>4 DEF Leads, len
  <2>7. b[n] = IF n = 2 THEN InFile(d, ref[1], ref[2]) ELSE Child(b[n - 1], ref[n])
    BY <1>1, <1>3, <2>4 DEF Leads
  <2>8. n # 2
    BY <2>4, <2>6, <2>7
  <2>9. a[n - 1] = b[n - 1]
    BY <2>4, <2>5, <2>8
  <2>. QED
    BY <2>4, <2>6, <2>7, <2>8, <2>9
<1>5. b[len + 1] = Child(b[len], <<section, name>>)
  BY <1>1, <1>3 DEF Leads
<1>6. b[len] = a[len]
  BY <1>1, <1>4
<1>. QED
  BY <1>2, <1>3, <1>5, <1>6 DEF longer

-------------------------------------------------------------------------------
(* Following references.                                                    *)

Begin(ref, V) == [is |-> "follow", ref |-> ref, visited |-> V]

(* The recursive function in Follow.                                        *)
Hops(d, ref, V, h) ==
  h = [n \in 0..Turns |-> IF n = 0 THEN Begin(ref, V) ELSE Hop(d, h[n - 1])]

LEMMA TurnsNat == Turns \in Nat \ {0} /\ Cardinality(Targets) \in Nat /\ Turns > Cardinality(Targets)
BY SchemasAssumption, TurnsAssumption, FS_CardinalityType

LEMMA HopsExist == ASSUME NEW d, NEW ref, NEW V PROVE \E h : Hops(d, ref, V, h)
<1>. DEFINE Part(n, h) == h = [i \in 0..n |-> IF i = 0 THEN Begin(ref, V) ELSE Hop(d, h[i - 1])]
            Bad == {n \in Nat : ~ \E h : Part(n, h)}
<1>1. SUFFICES ASSUME Bad # {} PROVE FALSE
  BY TurnsNat DEF Hops
<1>2. PICK n \in Bad : \A k \in Bad : n <= k
  BY <1>1, LeastNatural
<1>3. n # 0
  <2>1. Part(0, [i \in 0..0 |-> Begin(ref, V)])
    OBVIOUS
  <2>. QED
    BY <2>1
<1>4. PICK h : Part(n - 1, h)
  <2>0. n \in Nat
    OBVIOUS
  <2>1. n - 1 \in Nat /\ n - 1 \notin Bad
    <3>. HIDE DEF Bad
    <3>. QED
      BY <1>2, <1>3, <2>0
  <2>. QED
    BY <2>1
<1>. DEFINE g == [i \in 0..n |-> IF i < n THEN h[i] ELSE IF i = 0 THEN Begin(ref, V) ELSE Hop(d, h[i - 1])]
<1>5. n \in Nat /\ n > 0
  BY <1>2, <1>3
<1>6. \A i \in 0..(n - 1) : h[i] = IF i = 0 THEN Begin(ref, V) ELSE Hop(d, h[i - 1])
  BY <1>4, <1>5
<1>7. \A i \in 0..n : g[i] = IF i = 0 THEN Begin(ref, V) ELSE Hop(d, g[i - 1])
  BY <1>5, <1>6
<1>8. Part(n, g)
  BY <1>7
<1>. QED
  BY <1>2, <1>8

LEMMA FollowHops ==
  ASSUME NEW d, NEW ref, NEW V
  PROVE  \E h : Hops(d, ref, V, h) /\ Follow(d, ref, V) = h[Turns]
<1>. DEFINE H == CHOOSE h : Hops(d, ref, V, h)
<1>1. Hops(d, ref, V, H)
  BY HopsExist
<1>2. Follow(d, ref, V) = H[Turns]
  BY DEF Follow, Hops, Begin
<1>. QED
  BY <1>1, <1>2

Absences == {None, Anything, Many}

(* The $refs of the things K are among T, and these lead to things of K.    *)
Linked(d, K, T) ==
  /\ K \cap Absences = {}
  /\ \A s \in K : s.ref = None \/ s.ref \in T
  /\ \A t \in T : IsRef(t) /\ At(d, t) \in K \cup Absences

(* Where the way from ref may be after some hops.                           *)
Followed(d, K, T, ref, V, r) ==
  /\ r = [is |-> r.is, ref |-> r.ref, visited |-> r.visited]
  /\ r.is \in {"follow", "ok", "cut", "error"}
  /\ r.is \in {"follow", "ok"} =>
       /\ IsRef(r.ref) /\ At(d, r.ref) \in K \cup Absences
       /\ \/ r.ref = ref /\ r.visited = V
          \/ r.ref \in T \ V /\ V \cup {r.ref} \subseteq r.visited
  /\ r.is = "ok" => At(d, r.ref) \in K

LEMMA HopFollows ==
  ASSUME NEW d, NEW K, NEW T, Linked(d, K, T), NEW ref, NEW V, NEW r, Followed(d, K, T, ref, V, r)
  PROVE  /\ Followed(d, K, T, ref, V, Hop(d, r))
         /\ Hop(d, r).is = "follow" =>
              /\ r.is = "follow" /\ Hop(d, r).ref \in T \ r.visited
              /\ Hop(d, r).visited = r.visited \cup {Hop(d, r).ref}
<1>1. CASE r.is # "follow"
  BY <1>1 DEF Hop
<1>2. CASE r.is = "follow"
  <2>. DEFINE s == At(d, r.ref)
  <2>0. IsRef(r.ref) /\ s \in K \cup Absences
    BY <1>2 DEF Followed
  <2>1. CASE Hop(d, r) = Stop("error") \/ Hop(d, r) = Stop("cut")
    BY <2>1 DEF Stop, Followed
  <2>2. CASE s \in K /\ Hop(d, r) = [r EXCEPT !.is = "ok"]
    BY <1>2, <2>2 DEF Followed
  <2>3. CASE /\ s \in K /\ s.ref # None /\ s.ref \notin r.visited
             /\ Hop(d, r) = [r EXCEPT !.ref = s.ref, !.visited = @ \cup {s.ref}]
    <3>1. s.ref \in T /\ IsRef(s.ref) /\ At(d, s.ref) \in K \cup Absences
      BY <2>3 DEF Linked
    <3>2. Hop(d, r) = [is |-> "follow", ref |-> s.ref, visited |-> r.visited \cup {s.ref}]
      BY <1>2, <2>3 DEF Followed
    <3>3. V \subseteq r.visited
      BY <1>2 DEF Followed
    <3>. HIDE DEF s
    <3>. QED
      BY <1>2, <2>3, <3>1, <3>2, <3>3 DEF Followed
  <2>. QED
    BY <1>2, <2>0, <2>1, <2>2, <2>3 DEF Hop, Absences
<1>. QED
  BY <1>1, <1>2

(* Following ends, at the latest when all references have been visited: the *)
(* loop of RResolve, which has no bound of its own, ends for any files.     *)
LEMMA FollowEnds ==
  ASSUME NEW d, NEW K, NEW T \in SUBSET Targets, Linked(d, K, T),
         NEW ref, IsRef(ref), At(d, ref) \in K \cup Absences, NEW V
  PROVE  Followed(d, K, T, ref, V, Follow(d, ref, V)) /\ Follow(d, ref, V).is # "follow"
<1>1. PICK h : Hops(d, ref, V, h) /\ Follow(d, ref, V) = h[Turns]
  BY FollowHops
<1>2. h[0] = Begin(ref, V) /\ \A n \in 1..Turns : h[n] = Hop(d, h[n - 1])
  BY <1>1, TurnsNat DEF Hops
<1>. DEFINE Visits(n) == \E W \in SUBSET T : Cardinality(W) = n /\ W \subseteq h[n].visited
            Good(n) == Followed(d, K, T, ref, V, h[n]) /\ (h[n].is = "follow" => Visits(n))
            Bad == {n \in 0..Turns : ~Good(n)}
<1>3. Good(0)
  <2>1. Cardinality({}) = 0
    BY FS_EmptySet
  <2>. QED
    BY <1>2, <2>1 DEF Begin, Followed
<1>4. ASSUME NEW n \in 1..Turns, Good(n - 1) PROVE Good(n)
  <2>1. h[n] = Hop(d, h[n - 1])
    BY <1>2
  <2>2. /\ Followed(d, K, T, ref, V, h[n])
        /\ h[n].is = "follow" => /\ h[n - 1].is = "follow" /\ h[n].ref \in T \ h[n - 1].visited
                                /\ h[n].visited = h[n - 1].visited \cup {h[n].ref}
    BY <1>4, <2>1, HopFollows
  <2>3. ASSUME h[n].is = "follow" PROVE Visits(n)
    <3>1. PICK W \in SUBSET T : Cardinality(W) = n - 1 /\ W \subseteq h[n - 1].visited
      BY <1>4, <2>2, <2>3
    <3>2. IsFiniteSet(W)
      BY SchemasAssumption, FS_Subset
    <3>3. Cardinality(W \cup {h[n].ref}) = (n - 1) + 1
      BY <2>2, <2>3, <3>1, <3>2, FS_AddElement
    <3>. QED
      BY <2>2, <2>3, <3>1, <3>3, TurnsNat
  <2>. QED
    BY <2>2, <2>3
<1>5. Bad = {}
  <2>1. SUFFICES ASSUME Bad # {} PROVE FALSE
    OBVIOUS
  <2>2. Bad \in SUBSET Nat
    BY TurnsNat
  <2>3. PICK n \in Bad : \A k \in Bad : n <= k
    <3>. HIDE DEF Bad
    <3>. QED
      BY <2>1, <2>2, LeastNatural
  <2>4. n \in 1..Turns /\ n - 1 \in 0..Turns
    <3>1. n \in 0..Turns /\ n # 0
      <4>. HIDE DEF Good
      <4>. QED
        BY <1>3, <2>3
    <3>. QED
      BY <3>1, TurnsNat
  <2>5. Good(n - 1)
    <3>. HIDE DEF Good
    <3>. QED
      BY <2>3, <2>4, TurnsNat
  <2>. HIDE DEF Good
  <2>. QED
    BY <1>4, <2>3, <2>4, <2>5
<1>6. Good(Turns)
  <2>. HIDE DEF Good
  <2>. QED
    BY <1>5, TurnsNat
<1>7. ~Visits(Turns)
  <2>1. ASSUME NEW W \in SUBSET T PROVE Cardinality(W) # Turns
    <3>1. Cardinality(W) <= Cardinality(Targets)
      BY SchemasAssumption, FS_Subset
    <3>2. Cardinality(W) \in Nat
      BY SchemasAssumption, FS_Subset, FS_CardinalityType
    <3>. QED
      BY <3>1, <3>2, TurnsNat
  <2>. QED
    BY <2>1
<1>. QED
  BY <1>1, <1>6, <1>7

-------------------------------------------------------------------------------
(* The specification files.                                                 *)

SchemaTargets == {s.ref : s \in Schema} \ {None}
ResponseTargets == {r.ref : r \in Response} \ {None}

(* A reference to something in a file, and what of a file it leads to.      *)
Named(ref, section) == IsRef(ref) /\ Len(ref) = 2 /\ ref[2][1] = section
InModel(ref) == ref[2][1] = "definitions"
Owner(ref) == <<ref[1], ref[2]>>

LEMMA OwnerIs == ASSUME NEW ref, NEW section, Named(ref, section) PROVE Owner(ref) = ref
<1>1. ref = [i \in 1..2 |-> ref[i]]
  BY DEF Named, IsRef
<1>. QED
  BY <1>1 DEF Owner

LEMMA PartOfSchema ==
  ASSUME NEW s \in Schema \cup Absences, NEW section, NEW name
  PROVE  Child(s, <<section, name>>) \in Schema \cup Absences
<1>1. CASE s \in Absences
  BY <1>1 DEF Child, Absences
<1>2. CASE s \in Schema
  <2>1. /\ DOMAIN s = {"type", "ref", "properties", "allOf", "items", "additionalProperties",
                       "discriminator", "value", "format", "enum"}
        /\ \A k \in DOMAIN s.properties : s.properties[k] \in Schema
        /\ \A k \in DOMAIN s.allOf : s.allOf[k] \in Schema
        /\ s.items \in Schema \cup Absences /\ s.additionalProperties \in Schema \cup Absences
    BY <1>2, SchemasAssumption DEF StringSchema, Absences
  <2>2. s \notin Absences
    BY <1>2, SchemasAssumption DEF Absences
  <2>3. Child(s, <<section, name>>) =
          IF section \notin DOMAIN s THEN None
          ELSE IF section \in {"items", "additionalProperties", "schema"} THEN s[section]
          ELSE IF section \in {"properties", "allOf", "responses"} /\ name \in DOMAIN s[section]
            THEN s[section][name]
          ELSE None
    BY <2>2, PairIs DEF Child, Absences
  <2>. QED
    BY <2>1, <2>3 DEF Absences
<1>. QED
  BY <1>1, <1>2

LEMMA ModelIsSchema ==
  ASSUME operation \in DOMAIN Operations, NEW ref, Named(ref, "definitions")
  PROVE  At(doc, ref) \in Schema \cup Absences
<1>1. At(doc, ref) = InFile(doc, ref[1], ref[2])
  BY AtName DEF Named
<1>2. ASSUME ref[1] \in DOMAIN doc, ref[2][2] \in DOMAIN doc[ref[1]]["definitions"]
      PROVE  doc[ref[1]]["definitions"][ref[2][2]] \in Schema
  BY <1>2, FilesAssumption DEF doc
<1>. QED
  BY <1>1, <1>2 DEF InFile, Named, Absences

LEMMA NameIsResponse ==
  ASSUME operation \in DOMAIN Operations, NEW ref, Named(ref, "responses")
  PROVE  At(doc, ref) \in Response \cup Absences
<1>1. At(doc, ref) = InFile(doc, ref[1], ref[2])
  BY AtName DEF Named
<1>2. ASSUME ref[1] \in DOMAIN doc, ref[2][2] \in DOMAIN doc[ref[1]]["responses"]
      PROVE  doc[ref[1]]["responses"][ref[2][2]] \in Response
  BY <1>2, FilesAssumption DEF doc
<1>. QED
  BY <1>1, <1>2 DEF InFile, Named, Absences

LEMMA OpRefIs == ASSUME operation \in DOMAIN Operations PROVE Named(opRef, "paths")
BY FilesAssumption DEF opRef, Named

LEMMA ResponseOfOperation ==
  ASSUME operation \in DOMAIN Operations
  PROVE  At(doc, Ref(opRef, "responses", "200")) \in Response \cup Absences
<1>1. At(doc, Ref(opRef, "responses", "200")) = Child(At(doc, opRef), <<"responses", "200">>)
  BY OpRefIs, AtPart DEF Named
<1>2. At(doc, opRef) = InFile(doc, opRef[1], opRef[2])
  BY OpRefIs, AtName DEF Named
<1>. DEFINE file == doc[opRef[1]]
            op == file["paths"][opRef[2][2]]
<1>3. CASE opRef[1] \in DOMAIN doc /\ opRef[2][2] \in DOMAIN file["paths"]
  <2>1. DOMAIN file = {"definitions", "responses", "paths"}
    BY <1>3, FilesAssumption DEF doc
  <2>2. At(doc, opRef) = op
    BY <1>2, <1>3, <2>1, OpRefIs DEF InFile, Named
  <2>3. DOMAIN op = {"kind", "responses"} /\ \A c \in DOMAIN op.responses : op.responses[c] \in Response
    BY <1>3, FilesAssumption DEF doc
  <2>. HIDE DEF op, file
  <2>. QED
    BY <1>1, <2>2, <2>3, PairIs DEF Child, Absences
<1>4. CASE ~(opRef[1] \in DOMAIN doc /\ opRef[2][2] \in DOMAIN file["paths"])
  <2>1. At(doc, opRef) = None
    BY <1>2, <1>4, OpRefIs DEF InFile, Named
  <2>. QED
    BY <1>1, <2>1 DEF Child, Absences
<1>. QED
  BY <1>3, <1>4

LEMMA SchemaOfResponse ==
  ASSUME NEW ref, IsRef(ref), At(doc, ref) \in Response
  PROVE  At(doc, Ref(ref, "schema", "")) \in Schema \cup Absences
<1>1. At(doc, Ref(ref, "schema", "")) = Child(At(doc, ref), <<"schema", "">>)
  <2>1. ASSUME NEW n PROVE At(doc, Ref(ref, "schema", n)) = Child(At(doc, ref), <<"schema", n>>)
    BY AtPart
  <2>. QED
    BY <2>1
<1>. DEFINE r == At(doc, ref)
<1>2. DOMAIN r = {"ref", "schema"} /\ r.schema \in Schema \cup Absences
  BY SchemasAssumption DEF Absences
<1>. HIDE DEF r
<1>3. Child(r, <<"schema", "">>) \in Schema \cup Absences
  BY <1>2, PairIs DEF Child, Absences
<1>. QED
  BY <1>1, <1>3 DEF r

(* References between schemas stay among schemas, those between responses   *)
(* among responses.                                                         *)
LEMMA FilesLinked ==
  ASSUME RefsToModels, operation \in DOMAIN Operations
  PROVE  /\ Linked(doc, Schema, SchemaTargets) /\ SchemaTargets \in SUBSET Targets
         /\ \A t \in SchemaTargets : Named(t, "definitions")
         /\ Linked(doc, Response, ResponseTargets) /\ ResponseTargets \in SUBSET Targets
         /\ \A t \in ResponseTargets : Named(t, "responses")
<1>1. SchemaTargets \in SUBSET Targets /\ ResponseTargets \in SUBSET Targets
  BY DEF Targets, SchemaTargets, ResponseTargets
<1>2. \A t \in SchemaTargets \cup ResponseTargets : IsRef(t)
  BY <1>1, SchemasAssumption
<1>3. \A t \in SchemaTargets : Named(t, "definitions")
  BY <1>2 DEF RefsToModels, SchemaTargets, Named
<1>4. \A t \in ResponseTargets : Named(t, "responses")
  BY <1>2 DEF RefsToModels, ResponseTargets, Named
<1>5. Schema \cap Absences = {} /\ Response \cap Absences = {}
  BY SchemasAssumption DEF Absences
<1>6. /\ \A t \in SchemaTargets : At(doc, t) \in Schema \cup Absences
      /\ \A t \in ResponseTargets : At(doc, t) \in Response \cup Absences
  BY <1>3, <1>4, ModelIsSchema, NameIsResponse
<1>7. /\ \A s \in Schema : s.ref = None \/ s.ref \in SchemaTargets
      /\ \A r \in Response : r.ref = None \/ r.ref \in ResponseTargets
  BY DEF SchemaTargets, ResponseTargets
<1>. QED
  BY <1>1, <1>2, <1>3, <1>4, <1>5, <1>6, <1>7 DEF Linked

(* A $ref is followed to its end, in circles or not, though the loop of     *)
(* RResolve has no bound of its own (resolver.go:73).                       *)
THEOREM ResolutionEnds ==
  ASSUME RefsToModels, operation \in DOMAIN Operations,
         NEW ref, IsRef(ref), At(doc, ref) \in Schema \cup Absences, NEW V, NEW inputIsRef
  PROVE  RResolve(doc, ref, V, inputIsRef).is \in {"ok", "cut", "error"}
<1>1. ASSUME NEW W PROVE Follow(doc, ref, W).is \in {"ok", "cut", "error"}
  BY FilesLinked, FollowEnds DEF Followed
<1>. QED
  BY <1>1 DEF RResolve, Stop

-------------------------------------------------------------------------------
(* How references descend.                                                  *)

(* A reference with what was visited on the way to it, in x.                *)
RefFits(d, x) ==
  /\ IsRef(x.ref) /\ At(d, x.ref) \in Schema \cup Absences
  /\ InModel(x.ref) => Owner(x.ref) \in x.visited

(* x is below y, or where y is: the model y is in was visited on the way to *)
(* x, which is in another model or (no less) deep inside that one.          *)
Covers(x, y) == InModel(y.ref) => Owner(y.ref) \in x.visited
NotBefore(x, y) == Owner(x.ref) # Owner(y.ref) \/ Len(x.ref) >= Len(y.ref)
Beyond(x, y) == Owner(x.ref) # Owner(y.ref) \/ Len(x.ref) > Len(y.ref)

(* x leads on to r: to a part of it, or to a model not visited before.      *)
Onward(d, x, r) ==
  /\ RefFits(d, r) /\ x.visited \subseteq r.visited
  /\ \/ Owner(r.ref) = Owner(x.ref) /\ Len(r.ref) = Len(x.ref) + 1
     \/ Named(r.ref, "definitions") /\ r.ref \notin x.visited

LEMMA LongerOwner ==
  ASSUME NEW ref, IsRef(ref), NEW section, NEW name, NEW longer, longer = Ref(ref, section, name)
  PROVE  /\ IsRef(longer) /\ Len(longer) = Len(ref) + 1
         /\ Owner(longer) = Owner(ref) /\ (InModel(longer) <=> InModel(ref))
<1>1. /\ IsRef(longer) /\ Len(longer) = Len(ref) + 1
      /\ \A i \in 1..Len(ref) : longer[i] = ref[i]
  BY LongerRef
<1>2. 1 \in 1..Len(ref) /\ 2 \in 1..Len(ref)
  BY DEF IsRef
<1>. QED
  BY <1>1, <1>2 DEF Owner, InModel

LEMMA PartIsSchema ==
  ASSUME NEW x, RefFits(doc, x), NEW section, NEW name
  PROVE  At(doc, Ref(x.ref, section, name)) \in Schema \cup Absences
<1>1. IsRef(x.ref) /\ At(doc, x.ref) \in Schema \cup Absences
  BY DEF RefFits
<1>2. At(doc, Ref(x.ref, section, name)) = Child(At(doc, x.ref), <<section, name>>)
  BY <1>1, AtPart
<1>3. Child(At(doc, x.ref), <<section, name>>) \in Schema \cup Absences
  BY <1>1, PartOfSchema
<1>. QED
  BY <1>2, <1>3

(* The part of what x leads to, without following a $ref.                   *)
LEMMA PartOnward ==
  ASSUME operation \in DOMAIN Operations, NEW x, RefFits(doc, x), NEW section, NEW name,
         NEW r, r.ref = Ref(x.ref, section, name), r.visited = x.visited
  PROVE  Onward(doc, x, r)
<1>1. At(doc, r.ref) \in Schema \cup Absences
  BY PartIsSchema
<1>. QED
  BY <1>1, LongerOwner DEF Onward, RefFits

LEMMA ResolvesOnward ==
  ASSUME RefsToModels, operation \in DOMAIN Operations, NEW x, RefFits(doc, x), NEW section, NEW name,
         NEW r, r = RResolve(doc, Ref(x.ref, section, name), x.visited, FALSE), r.is = "ok"
  PROVE  Onward(doc, x, r) /\ At(doc, r.ref) \in Schema
<1>. DEFINE longer == Ref(x.ref, section, name)
<1>1. r = Follow(doc, longer, x.visited)
  BY DEF RResolve, Stop
<1>2. IsRef(longer) /\ At(doc, longer) \in Schema \cup Absences
  BY PartIsSchema, LongerOwner DEF RefFits
<1>3. Followed(doc, Schema, SchemaTargets, longer, x.visited, r)
  BY <1>1, <1>2, FilesLinked, FollowEnds
<1>4. CASE r.ref = longer /\ r.visited = x.visited
  BY <1>3, <1>4, PartOnward DEF Followed
<1>5. CASE r.ref \in SchemaTargets \ x.visited /\ x.visited \cup {r.ref} \subseteq r.visited
  <2>1. Named(r.ref, "definitions")
    BY <1>5, FilesLinked
  <2>2. Owner(r.ref) \in r.visited
    BY <1>5, <2>1, OwnerIs
  <2>3. RefFits(doc, r)
    BY <1>3, <2>2 DEF Followed, RefFits
  <2>. QED
    BY <1>3, <1>5, <2>1, <2>3 DEF Onward, Followed
<1>. QED
  BY <1>3, <1>4, <1>5 DEF Followed

LEMMA OnwardDescends ==
  ASSUME NEW x, IsRef(x.ref), NEW y, IsRef(y.ref), Covers(x, y), NotBefore(x, y), NEW r, Onward(doc, x, r)
  PROVE  Covers(r, y) /\ Beyond(r, y) /\ NotBefore(r, y)
<1>1. Covers(r, y)
  BY DEF Covers, Onward
<1>2. Len(r.ref) \in Nat /\ Len(x.ref) \in Nat /\ Len(y.ref) \in Nat
  BY DEF Onward, RefFits, IsRef
<1>3. CASE Owner(r.ref) = Owner(x.ref) /\ Len(r.ref) = Len(x.ref) + 1
  BY <1>1, <1>2, <1>3 DEF NotBefore, Beyond
<1>4. CASE Named(r.ref, "definitions") /\ r.ref \notin x.visited
  <2>1. Owner(r.ref) = r.ref /\ r.ref[2][1] = "definitions"
    BY <1>4, OwnerIs DEF Named
  <2>2. Owner(y.ref) # r.ref
    <3>1. CASE InModel(y.ref)
      BY <1>4, <3>1 DEF Covers
    <3>2. CASE ~InModel(y.ref)
      BY <2>1, <3>2 DEF InModel, Owner
    <3>. QED
      BY <3>1, <3>2
  <2>. QED
    BY <1>1, <2>1, <2>2 DEF NotBefore, Beyond
<1>. QED
  BY <1>3, <1>4 DEF Onward

-------------------------------------------------------------------------------
(* The inductive invariant: a property is beyond all those above it that    *)
(* are not polymorphic, and so is what the object at hand has found so far. *)

SchemaFits(d, x) ==
  x.schema = StringSchema \/ (x.schema = At(d, x.ref) /\ x.schema \in Schema)

Reaches(x, S) ==
  \A q \in S : prop[q].has # "variants" => Covers(x, prop[q]) /\ NotBefore(x, prop[q])
Placed(x, S) ==
  /\ RefFits(doc, x) /\ SchemaFits(doc, x)
  /\ \A q \in S : prop[q].has # "variants" => Covers(x, prop[q]) /\ Beyond(x, prop[q])

PropsDescend == \A p \in DOMAIN prop : Placed(prop[p], Above(p))

Here == Above(current) \cup {current}
ObjectDescends ==
  /\ SchemaIsObject(prop[current].schema)
  /\ \A i \in DOMAIN bases :
       bases[i].is = "ok" =>
         RefFits(doc, bases[i]) /\ At(doc, bases[i].ref) \in Schema /\ Reaches(bases[i], Here)
  /\ \A e \in DOMAIN children : Placed(children[e], Here)

DescentInv ==
  /\ operation \in DOMAIN Operations
  /\ IsPath(bases)
  /\ PropsDescend
  /\ pc = "object" => ObjectDescends
  /\ phase # "idle" \/ pc # "object" => DOMAIN children = {}

LEMMA SameDoc == ASSUME UNCHANGED operation PROVE doc' = doc
BY DEF doc

(* A property reaches itself and what is above it.                          *)
LEMMA SelfReaches ==
  ASSUME PropertiesFit, PropsDescend, NEW p \in DOMAIN prop
  PROVE  /\ RefFits(doc, prop[p]) /\ Reaches(prop[p], Above(p) \cup {p})
         /\ \A q \in Above(p) \cup {p} : q \in DOMAIN prop /\ IsRef(prop[q].ref)
<1>1. \A q \in DOMAIN prop : RefFits(doc, prop[q]) /\ IsRef(prop[q].ref)
  BY DEF PropsDescend, Placed, RefFits
<1>2. \A q \in Above(p) : q \in DOMAIN prop
  BY DEF PropertiesFit
<1>3. \A q \in DOMAIN prop : Len(prop[q].ref) \in Nat
  BY <1>1 DEF IsRef
<1>4. Covers(prop[p], prop[p]) /\ NotBefore(prop[p], prop[p])
  BY <1>1, <1>3 DEF RefFits, Covers, NotBefore
<1>5. \A q \in Above(p) : prop[q].has # "variants" => Covers(prop[p], prop[q]) /\ NotBefore(prop[p], prop[q])
  BY <1>2, <1>3 DEF PropsDescend, Placed, Beyond, NotBefore
<1>. QED
  BY <1>1, <1>2, <1>4, <1>5 DEF Reaches

(* What x leads on to is beyond all that x reaches.                         *)
LEMMA OnwardPlaced ==
  ASSUME NEW x, IsRef(x.ref), NEW S, \A q \in S : IsRef(prop[q].ref), Reaches(x, S),
         NEW r, Onward(doc, x, r), NEW k, k.ref = r.ref, k.visited = r.visited, SchemaFits(doc, k)
  PROVE  Placed(k, S)
<1>1. RefFits(doc, k) /\ Onward(doc, x, k)
  BY DEF Onward, RefFits
<1>. QED
  BY <1>1, OnwardDescends DEF Placed, Reaches

LEMMA OnwardReaches ==
  ASSUME NEW x, IsRef(x.ref), NEW S, \A q \in S : IsRef(prop[q].ref), Reaches(x, S),
         NEW r, Onward(doc, x, r)
  PROVE  RefFits(doc, r) /\ Reaches(r, S)
BY OnwardDescends DEF Reaches, Onward

(* The kids are placed below p, unless p becomes polymorphic just above it. *)
LEMMA GrowDescends ==
  ASSUME PropertiesFit, LevelsFit, PropsDescend, UNCHANGED operation,
         NEW p \in worklist, NEW has, NEW kids, Grow(p, has, kids),
         \A e \in DOMAIN kids :
           Placed(kids[e], Above(p)) /\ (has # "variants" => Placed(kids[e], Above(p) \cup {p}))
  PROVE  PropsDescend'
<1>. DEFINE new == NewPaths(p, kids)
<1>1. p \in DOMAIN prop /\ prop[p].has = "nothing"
  BY DEF LevelsFit
<1>2. /\ \A k \in new : \E e \in DOMAIN kids : k = Append(p, e) /\ Last(k) = e /\ Above(k) = Above(p) \cup {p}
      /\ DOMAIN prop' = DOMAIN prop \cup new
      /\ prop'[p].has = has
      /\ \A f \in PropFields \ {"has", "kids"} : prop'[p][f] = prop[p][f]
      /\ \A q \in DOMAIN prop : q # p => prop'[q] = prop[q]
      /\ \A k \in new : prop'[k] = kids[Last(k)]
  BY GrowShape
<1>. HIDE DEF new
<1>3. prop'[p].schema = prop[p].schema /\ prop'[p].ref = prop[p].ref /\ prop'[p].visited = prop[p].visited
  BY <1>2 DEF PropFields
<1>4. \A q \in DOMAIN prop : \A a \in Above(q) : a \in DOMAIN prop /\ a # p /\ prop'[a] = prop[a]
  BY <1>1, <1>2 DEF PropertiesFit
<1>5. doc' = doc
  BY SameDoc
<1>6. ASSUME NEW q \in DOMAIN prop PROVE Placed(prop[q], Above(q))'
  <2>1. /\ prop'[q].schema = prop[q].schema /\ prop'[q].ref = prop[q].ref
        /\ prop'[q].visited = prop[q].visited
    BY <1>2, <1>3
  <2>2. Placed(prop[q], Above(q))
    BY DEF PropsDescend
  <2>. QED
    BY <1>4, <1>5, <2>1, <2>2 DEF Placed, RefFits, SchemaFits, Covers, Beyond
<1>7. ASSUME NEW k \in new PROVE Placed(prop[k], Above(k))'
  <2>1. PICK e \in DOMAIN kids : prop'[k] = kids[e] /\ Above(k) = Above(p) \cup {p}
    BY <1>2
  <2>2. \A a \in Above(p) : prop'[a] = prop[a]
    BY <1>1, <1>4
  <2>3. /\ RefFits(doc, kids[e]) /\ SchemaFits(doc, kids[e])
        /\ \A a \in Above(p) : prop[a].has # "variants" => Covers(kids[e], prop[a]) /\ Beyond(kids[e], prop[a])
        /\ has # "variants" => Covers(kids[e], prop[p]) /\ Beyond(kids[e], prop[p])
    BY <1>1 DEF Placed
  <2>4. has # "variants" => Covers(kids[e], prop'[p]) /\ Beyond(kids[e], prop'[p])
    BY <1>3, <2>3 DEF Covers, Beyond
  <2>. QED
    BY <1>2, <1>5, <2>1, <2>2, <2>3, <2>4 DEF Placed
<1>. QED
  BY <1>2, <1>6, <1>7 DEF PropsDescend

(* Steps that leave the tree and the object at hand as they are.            *)
LEMMA SameDescent ==
  ASSUME DescentInv, UNCHANGED <<operation, prop, current, bases, children>>,
         pc' = "object" => pc = "object",
         phase' # "idle" \/ pc' # "object" => DOMAIN children = {}
  PROVE  DescentInv'
BY DEF DescentInv, PropsDescend, ObjectDescends, Here, Placed, Reaches, RefFits, SchemaFits, doc

(* What is done at once for a property that is no object.                   *)
LEMMA OutsideObjects ==
  ASSUME DescentInv, Step, pc # "object", pc' # "object", PropsDescend'
  PROVE  DescentInv'
BY DEF DescentInv, Step, objectVars

LEMMA DescentInit == Init => DescentInv
<1>1. IsPath(<<>>)
  BY RootPath
<1>. QED
  BY <1>1 DEF Init, DescentInv, PropsDescend, Empty

LEMMA RefLen == ASSUME NEW ref, IsRef(ref) PROVE Len(ref) \in Nat /\ 2 \in 1..Len(ref)
BY DEF IsRef

LEMMA NewFits ==
  ASSUME NEW s, NEW r, NEW a, s = StringSchema \/ (s = At(doc, r.ref) /\ s \in Schema)
  PROVE  SchemaFits(doc, NewProp(s, r, a))
BY NewIsFresh DEF SchemaFits

(* Where the schema of the response starts.                                 *)
LEMMA RootStarts ==
  ASSUME RefsToModels, operation \in DOMAIN Operations,
         NEW response, response = RResolve(doc, Ref(opRef, "responses", "200"), {}, FALSE),
         response.is = "ok",
         NEW start, start = Ref(response.ref, "schema", "")
  PROVE  IsRef(start) /\ ~InModel(start) /\ At(doc, start) \in Schema \cup Absences
<1>. DEFINE op == Ref(opRef, "responses", "200")
<1>1. IsRef(op) /\ ~InModel(op)
  <2>1. IsRef(opRef) /\ ~InModel(opRef)
    BY OpRefIs DEF Named, InModel
  <2>. QED
    BY <2>1, LongerOwner
<1>2. response = Follow(doc, op, {}) /\ At(doc, op) \in Response \cup Absences
  BY ResponseOfOperation DEF RResolve
<1>. HIDE DEF op
<1>3. /\ Followed(doc, Response, ResponseTargets, op, {}, response)
      /\ At(doc, response.ref) \in Response /\ IsRef(response.ref)
  <2>1. Followed(doc, Response, ResponseTargets, op, {}, response)
    BY <1>1, <1>2, FilesLinked, FollowEnds
  <2>. QED
    BY <2>1 DEF Followed
<1>4. ~InModel(response.ref)
  <2>1. CASE response.ref = op
    BY <1>1, <2>1
  <2>2. CASE response.ref \in ResponseTargets
    BY <2>2, FilesLinked DEF Named, InModel
  <2>. QED
    BY <1>3, <2>1, <2>2 DEF Followed
<1>5. IsRef(start) /\ ~InModel(start)
  <2>. DEFINE ref == response.ref
  <2>1. IsRef(ref) /\ ~InModel(ref) /\ start = Ref(ref, "schema", "")
    BY <1>3, <1>4
  <2>. HIDE DEF ref
  <2>. QED
    BY <2>1, LongerOwner
<1>6. At(doc, start) \in Schema \cup Absences
  BY <1>3, SchemaOfResponse
<1>. QED
  BY <1>5, <1>6

LEMMA RootDescends ==
  ASSUME RefsToModels, TreeInv, DescentInv, NewExpander
  PROVE  DescentInv'
<1>. DEFINE response == RResolve(doc, Ref(opRef, "responses", "200"), {}, FALSE)
            start == Ref(response.ref, "schema", "")
            root == RResolve(doc, start, {}, TRUE)
<1>0. pc = "new" /\ Step /\ pc' # "object" /\ operation \in DOMAIN Operations /\ doc' = doc
  BY SameDoc DEF NewExpander, Step, Stopped, DescentInv
<1>1. CASE Stopped("error")
  <2>1. PropsDescend'
    BY <1>0, <1>1 DEF Stopped, DescentInv, PropsDescend, Placed, RefFits, SchemaFits
  <2>. QED
    BY <1>0, <2>1, OutsideObjects
<1>2. CASE /\ response.is = "ok" /\ root.is = "ok"
           /\ prop' = Put(Empty, <<>>, NewProp(At(doc, root.ref), root, <<>>))
  <2>1. IsRef(start) /\ ~InModel(start) /\ At(doc, start) \in Schema \cup Absences
    <3>1. response = RResolve(doc, Ref(opRef, "responses", "200"), {}, FALSE)
      BY DEF response
    <3>2. start = Ref(response.ref, "schema", "")
      BY DEF start
    <3>. HIDE DEF response, start
    <3>. QED
      BY <1>0, <1>2, <3>1, <3>2, RootStarts
  <2>. HIDE DEF start
  <2>2. Followed(doc, Schema, SchemaTargets, start, {start}, root)
    <3>1. root = Follow(doc, start, {start})
      BY DEF RResolve
    <3>. QED
      BY <1>0, <2>1, <3>1, FilesLinked, FollowEnds
  <2>. HIDE DEF root
  <2>3. RefFits(doc, root) /\ At(doc, root.ref) \in Schema
    <3>1. CASE root.ref = start
      BY <1>2, <2>1, <2>2, <3>1 DEF Followed, RefFits
    <3>2. CASE root.ref \in SchemaTargets /\ root.ref \in root.visited
      <4>1. Owner(root.ref) = root.ref
        BY <1>0, <3>2, FilesLinked, OwnerIs
      <4>. QED
        BY <1>2, <2>2, <3>2, <4>1 DEF Followed, RefFits
    <3>. QED
      BY <1>2, <2>2, <3>1, <3>2 DEF Followed
  <2>4. DOMAIN prop' = {<<>>} /\ prop'[<<>>] = NewProp(At(doc, root.ref), root, <<>>)
    BY <1>2 DEF Put, Empty
  <2>5. RefFits(doc, prop'[<<>>]) /\ SchemaFits(doc, prop'[<<>>])
    <3>1. prop'[<<>>].ref = root.ref /\ prop'[<<>>].visited = root.visited
      BY <2>4, NewIsFresh
    <3>. QED
      BY <2>3, <2>4, <3>1, NewFits DEF RefFits
  <2>6. PropsDescend'
    BY <1>0, <2>4, <2>5, RootPath DEF PropsDescend, Placed
  <2>. QED
    BY <1>0, <2>6, OutsideObjects
<1>. QED
  BY <1>1, <1>2 DEF NewExpander

(* The element of an array or a map is below it.                            *)
LEMMA ElementDescends ==
  ASSUME TreeInv, PropsDescend, UNCHANGED operation, NEW p \in worklist, NEW r, NEW s, GrowElement(p, r, s),
         r.is = "ok" => /\ Onward(doc, prop[p], r)
                        /\ s = StringSchema \/ (s = At(doc, r.ref) /\ s \in Schema)
  PROVE  PropsDescend'
<1>1. CASE r.is # "ok"
  <2>1. UNCHANGED prop /\ doc' = doc
    BY <1>1, SameDoc DEF GrowElement, Leave, Stopped
  <2>. QED
    BY <2>1 DEF PropsDescend, Placed, RefFits, SchemaFits
<1>. DEFINE a == Append(prop[p].addr, IndexStep)
            kids == Put(Empty, <<"element", "">>, NewProp(s, r, a))
<1>2. CASE r.is = "ok" /\ Grow(p, "element", kids)
  <2>1. p \in DOMAIN prop
    BY DEF TreeInv, LevelsFit
  <2>2. /\ IsRef(prop[p].ref) /\ Reaches(prop[p], Above(p) \cup {p})
        /\ \A q \in Above(p) \cup {p} : IsRef(prop[q].ref)
    BY <2>1, SelfReaches DEF TreeInv
  <2>. DEFINE k == NewProp(s, r, a)
  <2>3. k.ref = r.ref /\ k.visited = r.visited /\ SchemaFits(doc, k)
    <3>1. k.ref = r.ref /\ k.visited = r.visited
      BY NewIsFresh
    <3>2. SchemaFits(doc, k)
      BY <1>2, NewFits
    <3>. QED
      BY <3>1, <3>2
  <2>. HIDE DEF k, a
  <2>4. Placed(k, Above(p) \cup {p})
    BY <1>2, <2>2, <2>3, OnwardPlaced
  <2>5. \A e \in DOMAIN kids : kids[e] = k
    BY DEF Put, Empty, k
  <2>. HIDE DEF kids
  <2>6. \A e \in DOMAIN kids : Placed(kids[e], Above(p)) /\ Placed(kids[e], Above(p) \cup {p})
    BY <2>4, <2>5 DEF Placed
  <2>. QED
    BY <1>2, <2>6, GrowDescends DEF TreeInv
<1>. QED
  BY <1>1, <1>2 DEF GrowElement

LEMMA PlainDescends ==
  ASSUME RefsToModels, TreeInv, DescentInv, NEW p \in worklist,
         ExpandPrimitive(p) \/ ExpandArray(p) \/ ExpandMap(p)
  PROVE  DescentInv'
<1>1. pc = "expand" /\ Step /\ pc' \in {"expand", "error", "panic"}
  BY DEF ExpandPrimitive, ExpandArray, ExpandMap, Ready, GrowElement, Grow, Leave, Stopped
<1>2. UNCHANGED operation /\ doc' = doc /\ operation \in DOMAIN Operations /\ PropsDescend
  BY <1>1, SameDoc DEF Step, DescentInv
<1>3. RefFits(doc, prop[p])
  BY <1>2 DEF PropsDescend, Placed, TreeInv, LevelsFit
<1>4. ASSUME UNCHANGED prop PROVE PropsDescend'
  BY <1>2, <1>4 DEF PropsDescend, Placed, RefFits, SchemaFits
<1>. DEFINE x == prop[p]
            Resolved(section) == RResolve(doc, Ref(x.ref, section, ""), x.visited, FALSE)
<1>5. ASSUME NEW section, Resolved(section).is = "ok"
      PROVE  Onward(doc, x, Resolved(section)) /\ At(doc, Resolved(section).ref) \in Schema
  <2>1. ASSUME NEW n, NEW r, r = RResolve(doc, Ref(x.ref, section, n), x.visited, FALSE), r.is = "ok"
        PROVE  Onward(doc, x, r) /\ At(doc, r.ref) \in Schema
    BY <1>2, <1>3, <2>1, ResolvesOnward
  <2>. QED
    BY <1>5, <2>1
<1>6. PropsDescend'
  <2>1. CASE ExpandPrimitive(p)
    BY <1>4, <2>1 DEF ExpandPrimitive, Leave, Stopped
  <2>2. CASE ExpandArray(p)
    <3>1. CASE Stopped("panic") \/ Stopped("error")
      BY <1>4, <3>1 DEF Stopped
    <3>2. CASE GrowElement(p, Resolved("items"), At(doc, Resolved("items").ref))
      <4>. HIDE DEF Resolved
      <4>. QED
        BY <1>2, <1>5, <3>2, ElementDescends DEF x
    <3>. QED
      BY <2>2, <3>1, <3>2 DEF ExpandArray
  <2>3. CASE ExpandMap(p)
    <3>. DEFINE section == "additionalProperties"
                free == prop[p].schema.additionalProperties = Anything
                part == [is |-> "ok", ref |-> Ref(x.ref, section, ""), visited |-> x.visited]
    <3>1. CASE free /\ GrowElement(p, part, StringSchema)
      <4>1. ASSUME NEW n, NEW r, r.ref = Ref(x.ref, section, n), r.visited = x.visited
            PROVE  Onward(doc, x, r)
        BY <1>2, <1>3, <4>1, PartOnward
      <4>2. Onward(doc, x, part)
        BY <4>1
      <4>. HIDE DEF part
      <4>. QED
        BY <1>2, <3>1, <4>2, ElementDescends
    <3>2. ASSUME ~free, NEW s, s = StringSchema \/ s = At(doc, Resolved(section).ref),
                 GrowElement(p, Resolved(section), s)
          PROVE  PropsDescend'
      <4>. HIDE DEF Resolved
      <4>. QED
        BY <1>2, <1>5, <3>2, ElementDescends DEF x
    <3>. QED
      BY <2>3, <3>1, <3>2 DEF ExpandMap
  <2>. QED
    BY <2>1, <2>2, <2>3
<1>. QED
  BY <1>1, <1>6, OutsideObjects

LEMMA TextDescends ==
  ASSUME TreeInv, DescentInv, NEW p \in worklist, ExpandEmptyObject(p)
  PROVE  DescentInv'
<1>1. pc = "expand" /\ Step /\ pc' = pc /\ prop' = [prop EXCEPT ![p].schema = StringSchema]
  BY DEF ExpandEmptyObject, Ready
<1>2. /\ DOMAIN prop' = DOMAIN prop
      /\ \A q \in DOMAIN prop : /\ prop'[q].ref = prop[q].ref /\ prop'[q].visited = prop[q].visited
                               /\ prop'[q].has = prop[q].has
                               /\ prop'[q].schema \in {prop[q].schema, StringSchema}
  BY <1>1 DEF TreeInv, LevelsFit, PropertiesFit, PropFields
<1>3. doc' = doc /\ PropsDescend
  BY <1>1, SameDoc DEF Step, DescentInv
<1>4. ASSUME NEW q \in DOMAIN prop PROVE Placed(prop[q], Above(q))'
  <2>1. prop'[q].ref = prop[q].ref /\ prop'[q].visited = prop[q].visited
    BY <1>2
  <2>2. RefFits(doc, prop'[q]) /\ SchemaFits(doc, prop'[q])
    <3>1. RefFits(doc, prop[q]) /\ SchemaFits(doc, prop[q])
      BY <1>3 DEF PropsDescend, Placed
    <3>2. prop'[q].schema \in {prop[q].schema, StringSchema}
      BY <1>2
    <3>. QED
      BY <2>1, <3>1, <3>2 DEF RefFits, SchemaFits
  <2>3. ASSUME NEW a \in Above(q), prop'[a].has # "variants"
        PROVE  Covers(prop'[q], prop'[a]) /\ Beyond(prop'[q], prop'[a])
    <3>1. a \in DOMAIN prop
      BY DEF TreeInv, PropertiesFit
    <3>2. prop'[a].ref = prop[a].ref /\ prop'[a].has = prop[a].has
      BY <1>2, <3>1
    <3>3. Covers(prop[q], prop[a]) /\ Beyond(prop[q], prop[a])
      BY <1>3, <2>3, <3>2 DEF PropsDescend, Placed
    <3>. QED
      BY <2>1, <3>2, <3>3 DEF Covers, Beyond
  <2>. QED
    BY <1>3, <2>2, <2>3 DEF Placed
<1>5. PropsDescend'
  BY <1>2, <1>4 DEF PropsDescend
<1>. QED
  BY <1>1, <1>5, OutsideObjects

LEMMA SameProps ==
  ASSUME PropsDescend, UNCHANGED <<operation, prop>>
  PROVE  PropsDescend'
<1>1. doc' = doc
  BY SameDoc
<1>. QED
  BY <1>1 DEF PropsDescend, Placed, RefFits, SchemaFits

LEMMA LevelDescends ==
  ASSUME DescentInv, NextLevel
  PROVE  DescentInv'
<1>1. pc = "expand" /\ Step /\ pc' \in {"expand", "expanded"} /\ UNCHANGED prop
  BY DEF NextLevel, Step
<1>2. UNCHANGED operation /\ PropsDescend
  BY <1>1 DEF Step, DescentInv
<1>. QED
  BY <1>1, <1>2, SameProps, OutsideObjects

(* The variant map leaves the object at hand alone; an object has found     *)
(* nothing before its own properties.                                       *)
LEMMA VariantDescends ==
  ASSUME TreeInv, DescentInv, GetVariants \/ VariantStep
  PROVE  DescentInv'
<1>1. /\ UNCHANGED <<operation, prop, current, bases, children, pc>>
      /\ phase # "idle"
  BY DEF GetVariants, Get, VariantStep, BuildStep, Seed, NextPass, Collected, Inherit, Collect,
         GetLevel, GetEnd, expanderVars, objectVars
<1>2. DOMAIN children = {}
  BY <1>1 DEF DescentInv
<1>. QED
  BY <1>1, <1>2, SameDescent

LEMMA InitDescends ==
  ASSUME TreeInv, DescentInv, NEW p \in worklist, InitVariantMap(p)
  PROVE  DescentInv'
<1>1. /\ UNCHANGED <<operation, prop, bases, children>> /\ pc = "expand" /\ pc' = "object" /\ current' = p
      /\ SchemaIsObject(prop[p].schema)
  BY DEF InitVariantMap, Ready, objectVars
<1>2. bases = <<>> /\ DOMAIN children = {}
  BY <1>1 DEF TreeInv, ObjectFits, DescentInv
<1>3. ObjectDescends'
  BY <1>1, <1>2 DEF ObjectDescends
<1>4. PropsDescend'
  BY <1>1, SameProps DEF DescentInv
<1>. QED
  BY <1>1, <1>2, <1>3, <1>4 DEF DescentInv

LEMMA ObjectFinds ==
  ASSUME UNCHANGED <<operation, prop, current>>, ObjectDescends,
         \A i \in DOMAIN bases' :
           bases'[i].is = "ok" =>
             RefFits(doc, bases'[i]) /\ At(doc, bases'[i].ref) \in Schema /\ Reaches(bases'[i], Here),
         \A e \in DOMAIN children' : Placed(children'[e], Here)
  PROVE  ObjectDescends'
<1>1. doc' = doc
  BY SameDoc
<1>. QED
  BY <1>1 DEF ObjectDescends, Placed, Reaches, Here

(* An object comes first of its bases.                                      *)
LEMMA ObjectStarts ==
  ASSUME TreeInv, DescentInv, ExpandAsRegularObject
  PROVE  DescentInv'
<1>. DEFINE x == prop[current]
            b == [is |-> "ok", ref |-> x.ref, visited |-> x.visited]
<1>1. /\ UNCHANGED <<operation, prop, current, pc>> /\ phase = "got"
      /\ bases' = <<b>> /\ DOMAIN children' = {}
  BY DEF ExpandAsRegularObject, Empty
<1>2. pc = "object" /\ current \in DOMAIN prop /\ ObjectDescends /\ PropsDescend /\ PropertiesFit
  BY <1>1 DEF TreeInv, ObjectFits, LevelsFit, DescentInv
<1>3. RefFits(doc, x) /\ Reaches(x, Here)
  BY <1>2, SelfReaches DEF Here
<1>4. At(doc, x.ref) \in Schema
  <2>1. SchemaFits(doc, x) /\ SchemaIsObject(x.schema)
    BY <1>2 DEF PropsDescend, Placed, ObjectDescends
  <2>2. StringSchema.type = "string" /\ x.schema.type # "string"
    BY <2>1 DEF SchemaIsObject, schemaTypeIsObject, StringSchema
  <2>. QED
    BY <2>1, <2>2 DEF SchemaFits
<1>5. RefFits(doc, b) /\ At(doc, b.ref) \in Schema /\ Reaches(b, Here)
  BY <1>3, <1>4 DEF RefFits, Reaches, Covers, NotBefore
<1>6. ObjectDescends'
  <2>1. \A i \in DOMAIN bases' : bases'[i] = b
    BY <1>1
  <2>. HIDE DEF b
  <2>. QED
    BY <1>1, <1>2, <1>5, <2>1, ObjectFinds DEF DescentInv
<1>7. IsPath(bases')
  <2>1. <<b>> \in Seq({b})
    OBVIOUS
  <2>. QED
    BY <1>1, <2>1 DEF IsPath
<1>8. PropsDescend'
  BY <1>1, SameProps DEF DescentInv
<1>. QED
  BY <1>1, <1>2, <1>6, <1>7, <1>8 DEF DescentInv

-------------------------------------------------------------------------------
(* The bases in order.                                                      *)

LEMMA TailOfPath ==
  ASSUME NEW p, IsPath(p), p # <<>>
  PROVE  /\ IsPath(Tail(p)) /\ 1 \in DOMAIN p /\ Head(p) = p[1]
         /\ \A i \in DOMAIN Tail(p) : i + 1 \in DOMAIN p /\ Tail(p)[i] = p[i + 1]
         /\ \A i \in DOMAIN p : i = 1 \/ \E j \in DOMAIN Tail(p) : Tail(p)[j] = p[i]
<1>1. PICK E : p \in Seq(E)
  BY DEF IsPath
<1>2. /\ Head(p) = p[1] /\ Tail(p) \in Seq(E) /\ Len(Tail(p)) = Len(p) - 1
      /\ \A i \in 1..Len(Tail(p)) : Tail(p)[i] = p[i + 1]
  BY <1>1, HeadTailProperties
<1>3. Len(p) \in Nat \ {0} /\ DOMAIN p = 1..Len(p) /\ DOMAIN Tail(p) = 1..Len(Tail(p))
  BY <1>1, <1>2, LenProperties, EmptySeq
<1>4. \A i \in DOMAIN p : i = 1 \/ (i - 1 \in DOMAIN Tail(p) /\ Tail(p)[i - 1] = p[i])
  BY <1>2, <1>3
<1>. QED
  BY <1>2, <1>3, <1>4 DEF IsPath

Ahead(p, q) == p \o q

LEMMA TwoPaths ==
  ASSUME NEW p, IsPath(p), NEW q, IsPath(q)
  PROVE  /\ IsPath(Ahead(p, q))
         /\ \A i \in DOMAIN Ahead(p, q) :
              \/ \E j \in DOMAIN p : Ahead(p, q)[i] = p[j]
              \/ \E j \in DOMAIN q : Ahead(p, q)[i] = q[j]
         /\ \A j \in DOMAIN p : \E i \in DOMAIN Ahead(p, q) : Ahead(p, q)[i] = p[j]
         /\ \A j \in DOMAIN q : \E i \in DOMAIN Ahead(p, q) : Ahead(p, q)[i] = q[j]
<1>1. PICK E : p \in Seq(E)
  BY DEF IsPath
<1>2. PICK F : q \in Seq(F)
  BY DEF IsPath
<1>. DEFINE G == E \cup F
<1>3. p \in Seq(G) /\ q \in Seq(G)
  BY <1>1, <1>2, SeqMonotonic
<1>. HIDE DEF G
<1>4. /\ Ahead(p, q) \in Seq(G) /\ Len(Ahead(p, q)) = Len(p) + Len(q)
      /\ \A i \in 1..(Len(p) + Len(q)) : Ahead(p, q)[i] = IF i <= Len(p) THEN p[i] ELSE q[i - Len(p)]
  BY <1>3, ConcatProperties DEF Ahead
<1>5. /\ Len(p) \in Nat /\ DOMAIN p = 1..Len(p) /\ Len(q) \in Nat /\ DOMAIN q = 1..Len(q)
      /\ DOMAIN Ahead(p, q) = 1..(Len(p) + Len(q))
  BY <1>3, <1>4, LenProperties
<1>6. \A j \in DOMAIN q : Len(p) + j \in DOMAIN Ahead(p, q) /\ Ahead(p, q)[Len(p) + j] = q[j]
  BY <1>4, <1>5
<1>7. \A j \in DOMAIN p : j \in DOMAIN Ahead(p, q) /\ Ahead(p, q)[j] = p[j]
  BY <1>4, <1>5
<1>8. ASSUME NEW i \in DOMAIN Ahead(p, q)
      PROVE  \/ \E j \in DOMAIN p : Ahead(p, q)[i] = p[j]
             \/ \E j \in DOMAIN q : Ahead(p, q)[i] = q[j]
  BY <1>4, <1>5
<1>9. IsPath(Ahead(p, q))
  BY <1>4 DEF IsPath
<1>. HIDE DEF Ahead
<1>. QED
  BY <1>6, <1>7, <1>8, <1>9

LEMMA FunctionPath ==
  ASSUME NEW s, IsPath(s), NEW f, f = [i \in DOMAIN s |-> f[i]]
  PROVE  IsPath(f)
<1>1. PICK E : s \in Seq(E)
  BY DEF IsPath
<1>2. Len(s) \in Nat /\ DOMAIN s = 1..Len(s)
  BY <1>1, LenProperties
<1>. DEFINE F == {f[i] : i \in 1..Len(s)}
<1>3. f \in [1..Len(s) -> F]
  BY <1>2
<1>. HIDE DEF F
<1>4. f \in Seq(F)
  BY <1>2, <1>3, SeqDef
<1>. QED
  BY <1>4 DEF IsPath

(* The properties and the bases of one schema.                              *)
LEMMA BaseDescends ==
  ASSUME RefsToModels, TreeInv, DescentInv, ExpandBase
  PROVE  DescentInv'
<1>. DEFINE b == Head(bases)
            s == At(doc, b.ref)
            own == [k \in DOMAIN s.properties |->
                      RResolve(doc, Ref(b.ref, "properties", k), b.visited, FALSE)]
            base(i) == RResolve(doc, Ref(b.ref, "allOf", i), b.visited, FALSE)
            kid(k) == NewProp(At(doc, own[k].ref), own[k], Append(prop[current].addr, PropStep(k)))
            ups == [i \in DOMAIN s.allOf |-> base(i)]
            names == {j \in DOMAIN own : own[j].is = "ok"}
            new == {<<"child", k>> : k \in names}
<1>1. /\ UNCHANGED <<operation, phase>> /\ phase = "idle" /\ pc = "object" /\ bases # <<>>
      /\ operation \in DOMAIN Operations /\ IsPath(bases) /\ PropsDescend /\ ObjectDescends
      /\ PropertiesFit /\ current \in DOMAIN prop
  BY DEF ExpandBase, variantVars, TreeInv, ObjectFits, LevelsFit, DescentInv
<1>2. /\ IsPath(Tail(bases)) /\ 1 \in DOMAIN bases /\ b = bases[1]
      /\ \A i \in DOMAIN Tail(bases) : i + 1 \in DOMAIN bases /\ Tail(bases)[i] = bases[i + 1]
  BY <1>1, TailOfPath
<1>3. CASE Abandon
  <2>1. UNCHANGED prop /\ pc' = "error" /\ bases' = <<>> /\ DOMAIN children' = {}
    BY <1>3 DEF Abandon, Stopped, Empty
  <2>. QED
    BY <1>1, <2>1, RootPath, SameProps DEF DescentInv
<1>4. ASSUME UNCHANGED <<current, prop, pc>>, IsPath(bases'), ObjectDescends'
      PROVE  DescentInv'
  BY <1>1, <1>4, SameProps DEF DescentInv
<1>5. CASE bases' = Tail(bases) /\ UNCHANGED <<current, children, prop, pc>>
  <2>1. ObjectDescends'
    BY <1>1, <1>2, <1>5, ObjectFinds DEF ObjectDescends
  <2>. QED
    BY <1>2, <1>4, <1>5, <2>1
<1>6. CASE /\ b.is = "ok" /\ UNCHANGED <<current, prop, pc>>
           /\ children' = [e \in new \cup DOMAIN children |->
                             IF e \in new THEN kid(e[2]) ELSE children[e]]
           /\ bases' = ups \o Tail(bases)
  <2>1. RefFits(doc, b) /\ IsRef(b.ref) /\ s \in Schema /\ Reaches(b, Here)
    BY <1>1, <1>2, <1>6 DEF ObjectDescends, RefFits
  <2>2. \A q \in Here : IsRef(prop[q].ref)
    BY <1>1, SelfReaches DEF Here
  <2>3. ASSUME NEW section, NEW name, NEW r,
               r = RResolve(doc, Ref(b.ref, section, name), b.visited, FALSE), r.is = "ok"
        PROVE  Onward(doc, b, r) /\ At(doc, r.ref) \in Schema
    BY <1>1, <2>1, <2>3, ResolvesOnward
  <2>4. ASSUME NEW k \in names PROVE Placed(kid(k), Here)
    <3>1. Onward(doc, b, own[k]) /\ At(doc, own[k].ref) \in Schema
      <4>1. own[k] = RResolve(doc, Ref(b.ref, "properties", k), b.visited, FALSE) /\ own[k].is = "ok"
        OBVIOUS
      <4>. HIDE DEF own, b
      <4>. QED
        BY <2>3, <4>1
    <3>. HIDE DEF own, b, names
    <3>2. kid(k).ref = own[k].ref /\ kid(k).visited = own[k].visited
      BY NewIsFresh
    <3>3. SchemaFits(doc, kid(k))
      BY <3>1, NewFits
    <3>. HIDE DEF kid
    <3>. QED
      BY <2>1, <2>2, <3>1, <3>2, <3>3, OnwardPlaced
  <2>5. ASSUME NEW i, base(i).is = "ok"
        PROVE  RefFits(doc, base(i)) /\ At(doc, base(i).ref) \in Schema /\ Reaches(base(i), Here)
    <3>1. Onward(doc, b, base(i)) /\ At(doc, base(i).ref) \in Schema
      BY <2>3, <2>5
    <3>. HIDE DEF base, b
    <3>. QED
      BY <2>1, <2>2, <3>1, OnwardReaches
  <2>6. IsPath(ups)
    <3>1. IsPath(s.allOf)
      BY <2>1, SchemasAssumption DEF IsPath
    <3>. HIDE DEF s, base
    <3>. QED
      BY <3>1, FunctionPath
  <2>. HIDE DEF ups, s, own, base, kid, b, names
  <2>7. \A e \in DOMAIN children' : Placed(children'[e], Here)
    <3>. SUFFICES ASSUME NEW e \in DOMAIN children' PROVE Placed(children'[e], Here)
      OBVIOUS
    <3>1. CASE e \in new
      <4>1. PICK k \in names : e = <<"child", k>>
        BY <3>1
      <4>2. children'[e] = kid(k)
        BY <1>6, <3>1, <4>1, PairIs
      <4>. QED
        BY <2>4, <4>1, <4>2
    <3>2. CASE e \notin new
      <4>1. e \in DOMAIN children /\ children'[e] = children[e]
        BY <1>6, <3>2
      <4>. QED
        BY <1>1, <4>1 DEF ObjectDescends
    <3>. QED
      BY <3>1, <3>2
  <2>8. /\ IsPath(bases')
        /\ \A i \in DOMAIN bases' :
             \/ \E j \in DOMAIN ups : bases'[i] = ups[j]
             \/ \E j \in DOMAIN Tail(bases) : bases'[i] = Tail(bases)[j]
    <3>. DEFINE rest == Tail(bases)
    <3>1. IsPath(rest) /\ bases' = Ahead(ups, rest)
      BY <1>2, <1>6 DEF Ahead
    <3>. HIDE DEF rest
    <3>2. /\ IsPath(Ahead(ups, rest))
          /\ \A i \in DOMAIN Ahead(ups, rest) :
               \/ \E j \in DOMAIN ups : Ahead(ups, rest)[i] = ups[j]
               \/ \E j \in DOMAIN rest : Ahead(ups, rest)[i] = rest[j]
      BY <2>6, <3>1, TwoPaths
    <3>. QED
      BY <3>1, <3>2 DEF rest
  <2>9. \A i \in DOMAIN bases' :
           bases'[i].is = "ok" =>
             RefFits(doc, bases'[i]) /\ At(doc, bases'[i].ref) \in Schema /\ Reaches(bases'[i], Here)
    <3>1. ASSUME NEW j \in DOMAIN ups, ups[j].is = "ok"
          PROVE  RefFits(doc, ups[j]) /\ At(doc, ups[j].ref) \in Schema /\ Reaches(ups[j], Here)
      <4>1. ups[j] = base(j)
        BY DEF ups
      <4>. QED
        BY <2>5, <3>1, <4>1
    <3>2. ASSUME NEW j \in DOMAIN Tail(bases), Tail(bases)[j].is = "ok"
          PROVE  RefFits(doc, Tail(bases)[j]) /\ At(doc, Tail(bases)[j].ref) \in Schema
                 /\ Reaches(Tail(bases)[j], Here)
      BY <1>1, <1>2, <3>2 DEF ObjectDescends
    <3>. SUFFICES ASSUME NEW i \in DOMAIN bases', bases'[i].is = "ok"
                  PROVE  RefFits(doc, bases'[i]) /\ At(doc, bases'[i].ref) \in Schema
                         /\ Reaches(bases'[i], Here)
      OBVIOUS
    <3>3. CASE \E j \in DOMAIN ups : bases'[i] = ups[j]
      BY <3>1, <3>3 DEF Reaches
    <3>4. CASE \E j \in DOMAIN Tail(bases) : bases'[i] = Tail(bases)[j]
      BY <3>2, <3>4 DEF Reaches
    <3>. QED
      BY <2>8, <3>3, <3>4
  <2>10. ObjectDescends'
    BY <1>1, <1>6, <2>7, <2>9, ObjectFinds
  <2>. QED
    BY <1>4, <1>6, <2>8, <2>10
<1>. QED
  BY <1>3, <1>5, <1>6 DEF ExpandBase

(* The object at hand gets all that it found.                               *)
LEMMA ChildrenDescend ==
  ASSUME TreeInv, DescentInv, GotChildren
  PROVE  DescentInv'
<1>1. /\ pc = "object" /\ Grow(current, "children", children) /\ DOMAIN children' = {}
      /\ UNCHANGED <<operation, bases>> /\ pc' = "expand"
  BY DEF GotChildren, Grow, Empty
<1>2. current \in worklist /\ PropertiesFit /\ LevelsFit /\ PropsDescend
      /\ \A e \in DOMAIN children : Placed(children[e], Here)
  BY <1>1 DEF TreeInv, ObjectFits, DescentInv, ObjectDescends
<1>3. \A e \in DOMAIN children :
        Placed(children[e], Above(current)) /\ Placed(children[e], Above(current) \cup {current})
  BY <1>2 DEF Placed, Here
<1>4. PropsDescend'
  BY <1>1, <1>2, <1>3, GrowDescends
<1>. QED
  BY <1>1, <1>4 DEF DescentInv

LEMMA ModelRef == \A f, d : Named(<<f, <<"definitions", d>>>>, "definitions")
<1>. TAKE f, d
<1>. DEFINE ref == <<f, <<"definitions", d>>>>
<1>1. Len(ref) = 2 /\ ref = [i \in 1..2 |-> ref[i]] /\ ref[2][1] = "definitions"
  OBVIOUS
<1>. HIDE DEF ref
<1>2. Named(ref, "definitions")
  BY <1>1 DEF Named, IsRef
<1>. QED
  BY <1>2 DEF ref

(* Where the variants of a property start: below no model it was found in,  *)
(* but for its own.                                                         *)
LEMMA VariantPlaced ==
  ASSUME RefsToModels, operation \in DOMAIN Operations, PropertiesFit, PropsDescend,
         NEW p \in DOMAIN prop, NEW d,
         NEW r, r = RResolve(doc, <<prop[p].ref[1], <<"definitions", d>>>>,
                             prop[p].visited \ {prop[p].ref}, TRUE),
         r.is = "ok", NEW k, k.ref = r.ref, k.visited = r.visited, SchemaFits(doc, k)
  PROVE  Placed(k, Above(p))
<1>. DEFINE x == prop[p]
            V == x.visited \ {x.ref}
            start == <<x.ref[1], <<"definitions", d>>>>
<1>1. Named(start, "definitions")
  BY ModelRef
<1>. HIDE DEF start
<1>2. start \notin V /\ r = Follow(doc, start, V \cup {start})
  BY DEF RResolve, Stop, start
<1>3. Followed(doc, Schema, SchemaTargets, start, V \cup {start}, r)
  <2>1. IsRef(start) /\ At(doc, start) \in Schema \cup Absences
    BY <1>1, ModelIsSchema DEF Named
  <2>. HIDE DEF V
  <2>. QED
    BY <1>2, <2>1, FilesLinked, FollowEnds
<1>4. Named(r.ref, "definitions") /\ r.ref \notin V /\ r.ref \in r.visited /\ V \subseteq r.visited
  <2>1. CASE r.ref = start /\ r.visited = V \cup {start}
    BY <1>1, <1>2, <2>1
  <2>2. CASE r.ref \in SchemaTargets \ (V \cup {start}) /\ V \cup {start} \cup {r.ref} \subseteq r.visited
    BY <2>2, FilesLinked
  <2>. QED
    BY <1>3, <2>1, <2>2 DEF Followed
<1>5. RefFits(doc, r)
  <2>1. Owner(r.ref) = r.ref
    BY <1>4, OwnerIs
  <2>. QED
    BY <1>3, <1>4, <2>1 DEF Followed, RefFits
<1>. DEFINE y == [ref |-> x.ref, visited |-> V]
<1>6. IsRef(y.ref) /\ \A q \in Above(p) : q \in DOMAIN prop /\ IsRef(prop[q].ref)
  BY SelfReaches DEF RefFits
<1>7. Onward(doc, y, r)
  BY <1>4, <1>5 DEF Onward
<1>8. Reaches(y, Above(p))
  <2>. SUFFICES ASSUME NEW q \in Above(p), prop[q].has # "variants"
                PROVE  Covers(y, prop[q]) /\ NotBefore(y, prop[q])
    BY DEF Reaches
  <2>. DEFINE z == prop[q]
  <2>1. Covers(x, z) /\ Beyond(x, z) /\ IsRef(x.ref) /\ IsRef(z.ref)
    BY <1>6 DEF PropsDescend, Placed
  <2>2. Len(x.ref) \in Nat /\ Len(z.ref) \in Nat /\ ~(2 > Len(z.ref))
    <3>1. ASSUME NEW ref, IsRef(ref) PROVE Len(ref) \in Nat /\ ~(2 > Len(ref))
      BY <3>1, RefLen
    <3>. QED
      BY <2>1, <3>1
  <2>3. Owner(z.ref) # x.ref
    <3>1. SUFFICES ASSUME Owner(z.ref) = x.ref PROVE FALSE
      OBVIOUS
    <3>2. Len(Owner(z.ref)) = 2 /\ Owner(Owner(z.ref)) = Owner(z.ref)
      BY DEF Owner
    <3>. HIDE DEF x, z
    <3>3. Len(x.ref) = 2 /\ Owner(x.ref) = Owner(z.ref)
      BY <3>1, <3>2
    <3>. QED
      BY <2>1, <2>2, <3>3 DEF Beyond
  <2>. HIDE DEF z
  <2>4. Covers(y, z)
    BY <2>1, <2>3 DEF Covers
  <2>5. NotBefore(y, z)
    BY <2>1, <2>2 DEF NotBefore, Beyond
  <2>. QED
    BY <2>4, <2>5 DEF z
<1>. HIDE DEF y
<1>. QED
  BY <1>6, <1>7, <1>8, OnwardPlaced

LEMMA VariantIsSchema ==
  ASSUME RefsToModels, operation \in DOMAIN Operations, NEW f, NEW d, NEW V,
         NEW r, r = RResolve(doc, <<f, <<"definitions", d>>>>, V, TRUE), r.is = "ok"
  PROVE  At(doc, r.ref) \in Schema
<1>. DEFINE start == <<f, <<"definitions", d>>>>
<1>1. Named(start, "definitions")
  BY ModelRef
<1>2. r = Follow(doc, start, V \cup {start})
  BY DEF RResolve, Stop
<1>. HIDE DEF start
<1>3. IsRef(start) /\ At(doc, start) \in Schema \cup Absences
  BY <1>1, ModelIsSchema DEF Named
<1>4. Followed(doc, Schema, SchemaTargets, start, V \cup {start}, r)
  BY <1>2, <1>3, FilesLinked, FollowEnds
<1>. QED
  BY <1>4 DEF Followed

LEMMA VariantsDescend ==
  ASSUME RefsToModels, TreeInv, DescentInv, ExpandAsPolymorphicObject
  PROVE  DescentInv'
<1>1. /\ UNCHANGED <<operation, bases, children>> /\ phase = "got"
      /\ pc' \in {"expand", "error"} /\ operation \in DOMAIN Operations /\ PropsDescend
  BY DEF ExpandAsPolymorphicObject, Grow, Stopped, objectVars, DescentInv
<1>2. /\ DOMAIN children = {} /\ pc = "object"
      /\ current \in worklist /\ current \in DOMAIN prop /\ PropertiesFit /\ LevelsFit
  BY <1>1 DEF TreeInv, ObjectFits, LevelsFit, DescentInv
<1>3. ASSUME PropsDescend' PROVE DescentInv'
  BY <1>1, <1>2, <1>3 DEF DescentInv
<1>4. CASE Stopped("error")
  BY <1>1, <1>3, <1>4, SameProps DEF Stopped
<1>. DEFINE r == VariantProps(current)
            kept == {v \in DOMAIN r : r[v].is = "ok"}
            base(v) == NewProp(At(doc, r[v].ref), r[v], VariantAddr(prop[current].addr, v))
            kids == [e \in {<<"variant", v>> : v \in kept} |->
                       [base(e[2]) EXCEPT !.discriminator = m[modelName].discriminator, !.value = e[2]]]
<1>5. CASE Grow(current, "variants", kids)
  <2>1. ASSUME NEW v \in kept
        PROVE  /\ r[v] = RResolve(doc, <<prop[current].ref[1], <<"definitions", out[v]>>>>,
                                  prop[current].visited \ {prop[current].ref}, TRUE)
               /\ r[v].is = "ok" /\ At(doc, r[v].ref) \in Schema
    <3>1. /\ r[v] = RResolve(doc, <<prop[current].ref[1], <<"definitions", out[v]>>>>,
                             prop[current].visited \ {prop[current].ref}, TRUE)
          /\ r[v].is = "ok"
      BY DEF VariantProps
    <3>2. At(doc, r[v].ref) \in Schema
      <4>. HIDE DEF r
      <4>. QED
        BY <1>1, <1>2, <3>1, VariantIsSchema
    <3>. QED
      BY <3>1, <3>2
  <2>. HIDE DEF r, kept
  <2>2. ASSUME NEW e \in DOMAIN kids PROVE Placed(kids[e], Above(current))
    <3>1. PICK v \in kept : e = <<"variant", v>>
      BY <2>2
    <3>2. e[2] = v
      BY <3>1, PairIs
    <3>3. base(v).schema = At(doc, r[v].ref) /\ base(v).ref = r[v].ref /\ base(v).visited = r[v].visited
          /\ Fresh(base(v))
      BY NewIsFresh
    <3>. DEFINE k == [base(v) EXCEPT !.discriminator = m[modelName].discriminator, !.value = v]
    <3>4. k.schema = At(doc, r[v].ref) /\ k.ref = r[v].ref /\ k.visited = r[v].visited
      <4>. HIDE DEF base
      <4>. QED
        BY <3>3 DEF Fresh, PropFields
    <3>5. kids[e] = k
      BY <2>2, <3>2
    <3>. HIDE DEF k, base, kids
    <3>6. SchemaFits(doc, k)
      BY <2>1, <3>4 DEF SchemaFits
    <3>7. Placed(k, Above(current))
      BY <1>1, <1>2, <2>1, <3>4, <3>6, VariantPlaced
    <3>. QED
      BY <3>5, <3>7
  <2>. HIDE DEF kids
  <2>3. PropsDescend'
    BY <1>1, <1>2, <1>5, <2>2, GrowDescends
  <2>. QED
    BY <1>3, <2>3
<1>. QED
  BY <1>4, <1>5 DEF ExpandAsPolymorphicObject

THEOREM DescentInvariant == ASSUME RefsToModels PROVE ExpanderSpec => [](TreeInv /\ DescentInv)
<1>1. TreeInv /\ DescentInv /\ [ExpandStep]_<<expanderVars, variantVars>> => DescentInv'
  <2>. SUFFICES ASSUME TreeInv, DescentInv, [ExpandStep]_<<expanderVars, variantVars>>
                PROVE  DescentInv'
    OBVIOUS
  <2>1. CASE UNCHANGED <<expanderVars, variantVars>>
    <3>1. UNCHANGED <<operation, prop, pc, current, bases, children, phase>>
      BY <2>1 DEF expanderVars, objectVars, variantVars
    <3>2. phase # "idle" \/ pc # "object" => DOMAIN children = {}
      BY DEF DescentInv
    <3>. QED
      BY <3>1, <3>2, SameDescent
  <2>2. CASE NewExpander
    BY <2>2, RootDescends
  <2>3. CASE NextLevel
    BY <2>3, LevelDescends
  <2>4. CASE GetVariants \/ VariantStep
    BY <2>4, VariantDescends
  <2>5. CASE ExpandAsRegularObject
    BY <2>5, ObjectStarts
  <2>6. CASE ExpandBase
    BY <2>6, BaseDescends
  <2>7. CASE GotChildren
    BY <2>7, ChildrenDescend
  <2>8. CASE ExpandAsPolymorphicObject
    BY <2>8, VariantsDescend
  <2>9. ASSUME NEW p \in worklist, ExpandPrimitive(p) \/ ExpandArray(p) \/ ExpandMap(p)
        PROVE  DescentInv'
    BY <2>9, PlainDescends
  <2>10. ASSUME NEW p \in worklist, ExpandEmptyObject(p) PROVE DescentInv'
    BY <2>10, TextDescends
  <2>11. ASSUME NEW p \in worklist, InitVariantMap(p) PROVE DescentInv'
    BY <2>11, InitDescends
  <2>. QED
    BY <2>1, <2>2, <2>3, <2>4, <2>5, <2>6, <2>7, <2>8, <2>9, <2>10, <2>11 DEF ExpandStep
<1>. QED
  BY <1>1, DescentInit, TreeInvariant, PTL DEF ExpanderSpec

(* No schema is expanded below itself but for polymorphic ones, however     *)
(* deep and in whatever circles the files refer to each other               *)
(* (property.go:60, expander.go:414).                                       *)
THEOREM ConcreteOnceCorrect == ASSUME RefsToModels PROVE ExpanderSpec => []ConcreteOnce
<1>1. TreeInv /\ DescentInv => ConcreteOnce
  <2>. SUFFICES ASSUME TreeInv, DescentInv, NEW p \in DOMAIN prop, NEW q \in Above(p),
                       prop[q].ref = prop[p].ref, prop[q].has # "variants"
                PROVE  FALSE
    BY DEF ConcreteOnce
  <2>1. Beyond(prop[p], prop[q]) /\ Len(prop[p].ref) \in Nat
    BY DEF DescentInv, PropsDescend, Placed, RefFits, IsRef
  <2>. QED
    BY <2>1 DEF Beyond
<1>. QED
  BY <1>1, DescentInvariant, PTL

-------------------------------------------------------------------------------
(* The way of a reference: what was followed so far, in W, leads on inside  *)
(* W up to where h is, and nothing in it only goes round.                   *)
Onto(d, K, y, S) == At(d, y) \in K /\ At(d, y).ref # None /\ At(d, y).ref \in S

Way(d, K, ref, V, h, W) ==
  /\ ref \in W /\ \A y \in W : IsRef(y) /\ At(d, y) \in K \cup Absences
  /\ h.is \in {"follow", "ok"} =>
       /\ h.ref \in W /\ h.visited \subseteq V \cup W
       /\ \A y \in W \ {h.ref} : Onto(d, K, y, W)
       /\ \A D \in SUBSET (W \ {h.ref}) : (\A y \in D : At(d, y).ref \in D) => D = {}
  /\ h.is = "ok" => At(d, h.ref) \in K /\ At(d, h.ref).ref = None
  /\ h.is \in {"cut", "error"} =>
       /\ h = Stop(h.is)
       /\ \A y \in W : At(d, y) \in Absences \/ Onto(d, K, y, W \cup V)

LEMMA HopIsOnItsWay ==
  ASSUME NEW d, NEW K, NEW T, Linked(d, K, T), NEW ref, NEW V, NEW U, NEW h, Followed(d, K, T, ref, U, h),
         NEW W, Way(d, K, ref, V, h, W)
  PROVE  \E X : Way(d, K, ref, V, Hop(d, h), X)
<1>1. CASE h.is # "follow"
  BY <1>1 DEF Hop
<1>2. CASE h.is = "follow"
  <2>. DEFINE s == At(d, h.ref)
  <2>0. /\ h.ref \in W /\ h.visited \subseteq V \cup W /\ IsRef(h.ref) /\ s \in K \cup Absences
        /\ ref \in W /\ \A y \in W : IsRef(y) /\ At(d, y) \in K \cup Absences
        /\ \A y \in W \ {h.ref} : Onto(d, K, y, W)
        /\ \A D \in SUBSET (W \ {h.ref}) : (\A y \in D : At(d, y).ref \in D) => D = {}
    BY <1>2 DEF Way
  <2>1. CASE s \in Absences /\ Hop(d, h) = Stop("error")
    <3>1. \A y \in W : At(d, y) \in Absences \/ Onto(d, K, y, W \cup V)
      BY <2>0, <2>1 DEF Onto
    <3>2. Stop("error").is = "error"
      BY DEF Stop
    <3>3. Way(d, K, ref, V, Stop("error"), W)
      BY <2>0, <3>1, <3>2 DEF Way
    <3>. QED
      BY <2>1, <3>3
  <2>2. CASE s \in K /\ s.ref = None /\ Hop(d, h) = [h EXCEPT !.is = "ok"]
    <3>1. Hop(d, h) = [is |-> "ok", ref |-> h.ref, visited |-> h.visited]
      BY <1>2, <2>2 DEF Followed
    <3>. QED
      BY <2>0, <2>2, <3>1 DEF Way
  <2>3. CASE s \in K /\ s.ref # None /\ s.ref \in h.visited /\ Hop(d, h) = Stop("cut")
    <3>1. \A y \in W : Onto(d, K, y, W \cup V)
      BY <2>0, <2>3 DEF Onto
    <3>2. Stop("cut").is = "cut"
      BY DEF Stop
    <3>3. Way(d, K, ref, V, Stop("cut"), W)
      BY <2>0, <3>1, <3>2 DEF Way
    <3>. QED
      BY <2>3, <3>3
  <2>4. CASE /\ s \in K /\ s.ref # None
             /\ Hop(d, h) = [h EXCEPT !.ref = s.ref, !.visited = @ \cup {s.ref}]
    <3>. DEFINE t == s.ref
                X == W \cup {t}
    <3>1. Hop(d, h) = [is |-> "follow", ref |-> t, visited |-> h.visited \cup {t}]
      BY <1>2, <2>4 DEF Followed
    <3>2. IsRef(t) /\ At(d, t) \in K \cup Absences
      BY <2>4 DEF Linked
    <3>3. \A y \in X \ {t} : Onto(d, K, y, X)
      BY <2>0, <2>4 DEF Onto
    <3>4. ASSUME NEW D \in SUBSET (X \ {t}), \A y \in D : At(d, y).ref \in D PROVE D = {}
      <4>1. h.ref \notin D
        BY <3>4
      <4>2. D \in SUBSET (W \ {h.ref})
        BY <3>4, <4>1
      <4>. QED
        BY <2>0, <3>4, <4>2
    <3>. DEFINE n == Hop(d, h)
    <3>6. n.is = "follow" /\ n.ref = t /\ n.visited \subseteq V \cup X /\ t \in X
      BY <2>0, <3>1
    <3>7. ref \in X /\ \A y \in X : IsRef(y) /\ At(d, y) \in K \cup Absences
      BY <2>0, <3>2
    <3>. HIDE DEF t, n, X
    <3>8. Way(d, K, ref, V, n, X)
      BY <3>3, <3>4, <3>6, <3>7 DEF Way
    <3>. USE DEF n
    <3>5. Way(d, K, ref, V, Hop(d, h), X)
      BY <3>8
    <3>. QED
      BY <3>5
  <2>. QED
    BY <1>2, <2>0, <2>1, <2>2, <2>3, <2>4 DEF Hop, Absences, Linked
<1>. QED
  BY <1>1, <1>2

LEMMA FollowHasAWay ==
  ASSUME NEW d, NEW K, NEW T \in SUBSET Targets, Linked(d, K, T),
         NEW ref, IsRef(ref), At(d, ref) \in K \cup Absences, NEW V, NEW U \in SUBSET (V \cup {ref})
  PROVE  \E W : Way(d, K, ref, V, Follow(d, ref, U), W)
<1>1. PICK h : Hops(d, ref, U, h) /\ Follow(d, ref, U) = h[Turns]
  BY FollowHops
<1>2. h[0] = Begin(ref, U) /\ \A n \in 1..Turns : h[n] = Hop(d, h[n - 1])
  BY <1>1, TurnsNat DEF Hops
<1>. DEFINE Good(n) == Followed(d, K, T, ref, U, h[n]) /\ \E W : Way(d, K, ref, V, h[n], W)
            Bad == {n \in 0..Turns : ~Good(n)}
<1>3. Good(0)
  <2>1. Followed(d, K, T, ref, U, h[0])
    BY <1>2 DEF Begin, Followed
  <2>2. Way(d, K, ref, V, h[0], {ref})
    BY <1>2 DEF Begin, Way
  <2>. QED
    BY <2>1, <2>2
<1>4. ASSUME NEW n \in 1..Turns, Good(n - 1) PROVE Good(n)
  BY <1>2, <1>4, HopFollows, HopIsOnItsWay
<1>5. Bad = {}
  <2>. HIDE DEF Good
  <2>1. SUFFICES ASSUME Bad # {} PROVE FALSE
    OBVIOUS
  <2>2. Bad \in SUBSET Nat
    BY TurnsNat
  <2>3. PICK n \in Bad : \A k \in Bad : n <= k
    <3>. HIDE DEF Bad
    <3>. QED
      BY <2>1, <2>2, LeastNatural
  <2>4. n \in 1..Turns /\ n - 1 \in 0..Turns
    <3>1. n \in 0..Turns /\ n # 0
      BY <1>3, <2>3
    <3>. QED
      BY <3>1, TurnsNat
  <2>5. Good(n - 1)
    BY <2>3, <2>4, TurnsNat
  <2>. QED
    BY <1>4, <2>3, <2>4, <2>5
<1>. HIDE DEF Good
<1>6. Good(Turns)
  BY <1>5, TurnsNat
<1>. QED
  BY <1>1, <1>6 DEF Good

(* Two ways on which nothing else can happen: a reference that leads to a   *)
(* schema leads there from everywhere on its way.                           *)
LEMMA WaysMeet ==
  ASSUME NEW d, NEW K, NEW T \in SUBSET Targets, Linked(d, K, T), NEW ref, NEW V,
         NEW r, r.is = "ok", NEW W, Way(d, K, ref, V, r, W), NEW y \in W
  PROVE  End(d, y) = r.ref
<1>. DEFINE g == Follow(d, y, {})
<1>1. IsRef(y) /\ At(d, y) \in K \cup Absences
  BY DEF Way
<1>2. g.is \in {"ok", "cut", "error"}
  BY <1>1, FollowEnds DEF Followed
<1>3. PICK X : Way(d, K, y, {}, g, X)
  BY <1>1, FollowHasAWay
<1>4. SUFFICES ASSUME ~(g.is = "ok" /\ g.ref = r.ref) PROVE FALSE
  BY DEF End
<1>. HIDE DEF g
<1>. DEFINE D == W \cap X
<1>5. /\ r.ref \in W /\ At(d, r.ref) \in K /\ At(d, r.ref).ref = None
      /\ \A z \in W \ {r.ref} : Onto(d, K, z, W)
      /\ K \cap Absences = {}
  BY DEF Way, Linked
<1>6. r.ref \notin X
  BY <1>2, <1>3, <1>4, <1>5 DEF Way, Onto
<1>7. \A z \in D : At(d, z).ref \in D
  <2>. SUFFICES ASSUME NEW z \in D PROVE At(d, z).ref \in D
    OBVIOUS
  <2>1. Onto(d, K, z, W)
    BY <1>5, <1>6
  <2>2. Onto(d, K, z, X)
    <3>1. CASE g.is = "ok"
      BY <1>3, <2>1, <3>1 DEF Way, Onto
    <3>2. CASE g.is \in {"cut", "error"}
      <4>1. X \cup {} = X
        OBVIOUS
      <4>. QED
        BY <1>3, <1>5, <2>1, <3>2, <4>1 DEF Way, Onto
    <3>. QED
      BY <1>2, <3>1, <3>2
  <2>. QED
    BY <2>1, <2>2 DEF Onto
<1>8. D \in SUBSET (W \ {r.ref}) /\ y \in D
  BY <1>3, <1>6 DEF Way
<1>. QED
  BY <1>7, <1>8 DEF Way

(* A reference that is cut off leads where one of those visited leads.      *)
LEMMA CutMeets ==
  ASSUME NEW d, NEW K, NEW T \in SUBSET Targets, Linked(d, K, T),
         NEW ref, IsRef(ref), At(d, ref) \in K \cup Absences, NEW V, NEW U \in SUBSET (V \cup {ref}),
         Follow(d, ref, U).is # "ok"
  PROVE  End(d, ref) = <<>> \/ \E v \in V : End(d, ref) = End(d, v)
<1>. DEFINE r == Follow(d, ref, U)
            g == Follow(d, ref, {})
<1>1. g.is \in {"ok", "cut", "error"} /\ r.is \in {"cut", "error"}
  BY FollowEnds DEF Followed
<1>2. PICK W : Way(d, K, ref, V, r, W)
  BY FollowHasAWay
<1>3. PICK X : Way(d, K, ref, {}, g, X)
  BY FollowHasAWay
<1>. HIDE DEF r, g
<1>4. CASE g.is # "ok"
  BY <1>1, <1>3, <1>4 DEF Way, Stop, End, g
<1>5. CASE g.is = "ok"
  <2>1. \A y \in X : End(d, y) = g.ref
    BY <1>3, <1>5, WaysMeet
  <2>2. End(d, ref) = g.ref
    BY DEF End, g
  <2>3. SUFFICES ASSUME V \cap X = {} PROVE FALSE
    BY <2>1, <2>2
  <2>. DEFINE D == W \cap X
  <2>4. \A y \in W : At(d, y) \in Absences \/ Onto(d, K, y, W \cup V)
    BY <1>1, <1>2 DEF Way
  <2>5. /\ At(d, g.ref) \in K /\ At(d, g.ref).ref = None
        /\ \A y \in X \ {g.ref} : Onto(d, K, y, X)
        /\ K \cap Absences = {}
    BY <1>3, <1>5 DEF Way, Linked
  <2>6. g.ref \notin W
    BY <2>4, <2>5 DEF Onto
  <2>7. \A y \in D : At(d, y).ref \in D
    BY <2>3, <2>4, <2>5, <2>6 DEF Onto
  <2>8. D \in SUBSET (X \ {g.ref}) /\ ref \in D
    BY <1>2, <1>3, <2>6 DEF Way
  <2>. QED
    BY <1>3, <1>5, <2>7, <2>8 DEF Way
<1>. QED
  BY <1>4, <1>5

(* The result r of a reference whose visited references lead to E: what was *)
(* visited leads to E or to the schema, and what is cut off leads to E.     *)
Meets(ref, E, r) ==
  /\ r.is = "ok" => /\ End(doc, ref) = r.ref /\ r.ref # <<>>
                    /\ \A v \in r.visited : End(doc, v) \in E \cup {r.ref, <<>>}
  /\ r.is # "ok" => End(doc, ref) \in E \cup {<<>>}

LEMMA ResolveMeets ==
  ASSUME RefsToModels, operation \in DOMAIN Operations,
         NEW ref, IsRef(ref), At(doc, ref) \in Schema \cup Absences,
         NEW V, NEW E, \A v \in V : End(doc, v) \in E \cup {<<>>},
         NEW inputIsRef, NEW r, r = RResolve(doc, ref, V, inputIsRef)
  PROVE  Meets(ref, E, r)
<1>1. Linked(doc, Schema, SchemaTargets) /\ SchemaTargets \in SUBSET Targets
  BY FilesLinked
<1>2. CASE ref \in V
  <2>1. r = Stop("cut") /\ Stop("cut").is # "ok"
    BY <1>2 DEF RResolve, Stop
  <2>2. End(doc, ref) \in E \cup {<<>>}
    BY <1>2
  <2>. QED
    BY <2>1, <2>2 DEF Meets
<1>3. CASE ref \notin V
  <2>1. PICK U \in SUBSET (V \cup {ref}) : r = Follow(doc, ref, U)
    BY <1>3 DEF RResolve
  <2>2. CASE r.is = "ok"
    <3>1. PICK W : Way(doc, Schema, ref, V, r, W)
      BY <1>1, <2>1, FollowHasAWay
    <3>2. \A y \in W : End(doc, y) = r.ref
      BY <1>1, <2>2, <3>1, WaysMeet
    <3>3. ref \in W /\ r.visited \subseteq V \cup W /\ IsRef(r.ref)
      BY <2>2, <3>1 DEF Way
    <3>4. r.ref # <<>>
      BY <3>3 DEF IsRef
    <3>. QED
      BY <2>2, <3>2, <3>3, <3>4 DEF Meets
  <2>3. CASE r.is # "ok"
    <3>1. Follow(doc, ref, U).is # "ok"
      BY <2>1, <2>3
    <3>2. End(doc, ref) = <<>> \/ \E v \in V : End(doc, ref) = End(doc, v)
      BY <1>1, <3>1, CutMeets
    <3>. QED
      BY <2>3, <3>2 DEF Meets
  <2>. QED
    BY <2>2, <2>3
<1>. QED
  BY <1>2, <1>3

-------------------------------------------------------------------------------
(* What a schema inherits from.                                             *)

(* The recursive function in Ancestry.                                      *)
Ups(d, ref, skip, up) ==
  up = [n \in 0..Turns |-> IF n = 0 THEN {ref} ELSE WithBases(d, up[n - 1], skip)]

LEMMA UpsExist == ASSUME NEW d, NEW ref, NEW skip PROVE \E up : Ups(d, ref, skip, up)
<1>. DEFINE Part(n, up) == up = [i \in 0..n |-> IF i = 0 THEN {ref} ELSE WithBases(d, up[i - 1], skip)]
            Bad == {n \in Nat : ~ \E up : Part(n, up)}
<1>1. SUFFICES ASSUME Bad # {} PROVE FALSE
  BY TurnsNat DEF Ups
<1>2. PICK n \in Bad : \A k \in Bad : n <= k
  BY <1>1, LeastNatural
<1>3. n # 0
  <2>1. Part(0, [i \in 0..0 |-> {ref}])
    OBVIOUS
  <2>. QED
    BY <2>1
<1>4. PICK up : Part(n - 1, up)
  <2>0. n \in Nat
    OBVIOUS
  <2>1. n - 1 \in Nat /\ n - 1 \notin Bad
    <3>. HIDE DEF Bad
    <3>. QED
      BY <1>2, <1>3, <2>0
  <2>. QED
    BY <2>1
<1>. DEFINE g == [i \in 0..n |-> IF i < n THEN up[i] ELSE IF i = 0 THEN {ref} ELSE WithBases(d, up[i - 1], skip)]
<1>5. n \in Nat /\ n > 0
  BY <1>2, <1>3
<1>6. \A i \in 0..(n - 1) : up[i] = IF i = 0 THEN {ref} ELSE WithBases(d, up[i - 1], skip)
  BY <1>4, <1>5
<1>7. \A i \in 0..n : g[i] = IF i = 0 THEN {ref} ELSE WithBases(d, g[i - 1], skip)
  BY <1>5, <1>6
<1>8. Part(n, g)
  BY <1>7
<1>. QED
  BY <1>2, <1>8

LEMMA AncestryUps ==
  ASSUME NEW d, NEW ref, NEW skip
  PROVE  \E up : Ups(d, ref, skip, up) /\ Ancestry(d, ref, skip) = up[Turns]
<1>. DEFINE U == CHOOSE up : Ups(d, ref, skip, up)
<1>1. Ups(d, ref, skip, U)
  BY UpsExist
<1>2. Ancestry(d, ref, skip) = U[Turns]
  BY DEF Ancestry, Ups
<1>. QED
  BY <1>1, <1>2

(* A schema belongs to what it inherits from, which lies in every set that  *)
(* it belongs to and that has all bases outside skip of its own.            *)
LEMMA AncestryIsLeast ==
  ASSUME NEW d, NEW ref, NEW skip
  PROVE  /\ ref \in Ancestry(d, ref, skip)
         /\ \A S : ref \in S /\ (\A r \in S : BasesOf(d, r) \ skip \subseteq S)
                     => Ancestry(d, ref, skip) \subseteq S
<1>0. PICK up : Ups(d, ref, skip, up) /\ Ancestry(d, ref, skip) = up[Turns]
  BY AncestryUps
<1>1. up[0] = {ref} /\ \A n \in 1..Turns : up[n] = WithBases(d, up[n - 1], skip)
  <2>1. \A n \in 0..Turns : up[n] = IF n = 0 THEN {ref} ELSE WithBases(d, up[n - 1], skip)
    BY <1>0 DEF Ups
  <2>2. 0 \in 0..Turns /\ \A n \in 1..Turns : n \in 0..Turns /\ n # 0
    BY TurnsNat
  <2>. QED
    BY <2>1, <2>2
<1>2. ASSUME NEW S, ref \in S, \A r \in S : BasesOf(d, r) \ skip \subseteq S
      PROVE  \A n \in 0..Turns : ref \in up[n] /\ up[n] \subseteq S
  <2>. DEFINE Bad == {n \in 0..Turns : ~(ref \in up[n] /\ up[n] \subseteq S)}
  <2>1. SUFFICES ASSUME Bad # {} PROVE FALSE
    OBVIOUS
  <2>2. PICK n \in Bad : \A k \in Bad : n <= k
    <3>1. Bad \in SUBSET Nat
      BY TurnsNat
    <3>. HIDE DEF Bad
    <3>. QED
      BY <2>1, <3>1, LeastNatural
  <2>3. n \in 1..Turns /\ n - 1 \in 0..Turns
    <3>1. n \in 0..Turns /\ n # 0
      BY <1>1, <1>2, <2>2
    <3>. QED
      BY <3>1, TurnsNat
  <2>4. ref \in up[n - 1] /\ up[n - 1] \subseteq S
    <3>1. n - 1 \notin Bad
      <4>1. n \in Nat /\ ~(n <= n - 1)
        BY <2>3, TurnsNat
      <4>. HIDE DEF Bad
      <4>. QED
        BY <2>2, <4>1
    <3>. QED
      BY <2>3, <3>1
  <2>5. up[n] = WithBases(d, up[n - 1], skip)
    BY <1>1, <2>3
  <2>. DEFINE low == up[n - 1]
  <2>6. ref \in up[n] /\ up[n] \subseteq S
    <3>1. ref \in low /\ low \subseteq S /\ up[n] = WithBases(d, low, skip)
      BY <2>4, <2>5
    <3>. HIDE DEF low
    <3>2. \A r \in low : BasesOf(d, r) \ skip \subseteq S
      BY <1>2, <3>1
    <3>3. up[n] = low \cup ((UNION {BasesOf(d, r) : r \in low}) \ skip)
      BY <3>1 DEF WithBases
    <3>4. \A x \in (UNION {BasesOf(d, r) : r \in low}) \ skip : x \in S
      BY <3>2
    <3>. QED
      BY <3>1, <3>3, <3>4
  <2>. QED
    BY <2>2, <2>6
<1>3. ref \in up[Turns]
  <2>. DEFINE Bad == {n \in 0..Turns : ref \notin up[n]}
  <2>1. SUFFICES ASSUME Bad # {} PROVE FALSE
    BY TurnsNat
  <2>2. PICK n \in Bad : \A k \in Bad : n <= k
    <3>1. Bad \in SUBSET Nat
      BY TurnsNat
    <3>. HIDE DEF Bad
    <3>. QED
      BY <2>1, <3>1, LeastNatural
  <2>3. n \in 1..Turns /\ n - 1 \in 0..Turns
    <3>1. n \in 0..Turns /\ n # 0
      BY <1>1, <2>2
    <3>. QED
      BY <3>1, TurnsNat
  <2>4. ref \in up[n - 1]
    BY <2>2, <2>3, TurnsNat
  <2>. QED
    BY <1>1, <2>2, <2>3, <2>4 DEF WithBases
<1>. QED
  BY <1>0, <1>2, <1>3, TurnsNat

(* The bases of bases come to an end within the bound, for all schemas.     *)
BasesAreFew ==
  \A o \in DOMAIN Operations : \A ref :
    IsRef(ref) /\ At(Operations[o].doc, ref) \in Schema => BasesEnd(Operations[o].doc, ref)

LEMMA AncestryHasBases ==
  ASSUME BasesAreFew, operation \in DOMAIN Operations, NEW ref, IsRef(ref), At(doc, ref) \in Schema,
         NEW r \in Ancestry(doc, ref, {})
  PROVE  BasesOf(doc, r) \subseteq Ancestry(doc, ref, {})
BY DEF BasesAreFew, BasesEnd, WithBases, doc

-------------------------------------------------------------------------------
(* The inductive invariant: what a property carries as visited leads to     *)
(* what is above it, with its bases, and what an object lacks starts over.  *)

Restarts(p) == AncestryAbove(p) \cup Ancestry(doc, prop[p].ref, {}) \cup {<<>>}

(* The schema at r has all its properties among kids, or they start over.   *)
Has(kids, p, r) ==
  \A k \in DOMAIN At(doc, r).properties :
    <<"child", k>> \in kids \/ End(doc, Ref(r, "properties", k)) \in Restarts(p)

(* What may be put below p.                                                 *)
KidsMeet(p, kids) ==
  \A e \in DOMAIN kids :
    /\ kids[e].has = "nothing"
    /\ \A v \in kids[e].visited : End(doc, v) \in Restarts(p) \cup {kids[e].ref}

VisitedAreAbove ==
  \A p \in DOMAIN prop : \A v \in prop[p].visited :
    End(doc, v) \in AncestryAbove(p) \cup {prop[p].ref, <<>>}

ChildrenAreAll ==
  \A p \in DOMAIN prop :
    prop[p].has = "children" =>
      \A r \in Ancestry(doc, prop[p].ref, AncestryAbove(p)) : Has(prop[p].kids, p, r)

(* The object at hand: its schema and the bases in done have been taken,    *)
(* and all other bases are above it or wait.                                *)
Waiting == {bases[i].ref : i \in {j \in DOMAIN bases : bases[j].is = "ok"}}

SoFar(p, done) ==
  /\ done \subseteq Ancestry(doc, prop[p].ref, {})
  /\ prop[p].ref \in done \cup Waiting
  /\ \A r \in done : /\ Has(DOMAIN children, p, r)
                     /\ BasesOf(doc, r) \subseteq done \cup AncestryAbove(p) \cup Waiting
  /\ \A i \in DOMAIN bases : bases[i].is = "ok" =>
       /\ bases[i].ref \in Ancestry(doc, prop[p].ref, {})
       /\ \A v \in bases[i].visited :
            End(doc, v) \in AncestryAbove(p) \cup done \cup {bases[i].ref, <<>>}
  /\ KidsMeet(p, children)

CutInv ==
  /\ VisitedAreAbove /\ ChildrenAreAll
  /\ pc = "object" /\ phase = "idle" => \E done : SoFar(current, done)

(* A tree that keeps its references keeps what starts over.                 *)
SameRefs(tree, next) == \A q \in DOMAIN tree : q \in DOMAIN next /\ next[q].ref = tree[q].ref

LEMMA SameAbove ==
  ASSUME PropertiesFit, UNCHANGED operation, SameRefs(prop, prop'), NEW p \in DOMAIN prop
  PROVE  /\ doc' = doc /\ AncestryAbove(p)' = AncestryAbove(p) /\ Restarts(p)' = Restarts(p)
         /\ \A kids, r : Has(kids, p, r)' <=> Has(kids, p, r)
<1>1. doc' = doc
  BY SameDoc
<1>2. \A q \in Above(p) : q \in DOMAIN prop /\ prop'[q].ref = prop[q].ref
  BY DEF PropertiesFit, SameRefs
<1>3. AncestryAbove(p)' = AncestryAbove(p)
  BY <1>1, <1>2 DEF AncestryAbove
<1>4. Restarts(p)' = Restarts(p)
  BY <1>1, <1>3 DEF Restarts, SameRefs
<1>. QED
  BY <1>1, <1>3, <1>4 DEF Has

(* Steps that change neither references nor what is complete.               *)
LEMMA SameCut ==
  ASSUME PropertiesFit, UNCHANGED operation, VisitedAreAbove, ChildrenAreAll, DOMAIN prop' = DOMAIN prop,
         \A q \in DOMAIN prop :
           /\ prop'[q].ref = prop[q].ref /\ prop'[q].visited = prop[q].visited
           /\ prop'[q].has = prop[q].has /\ prop'[q].kids = prop[q].kids
  PROVE  VisitedAreAbove' /\ ChildrenAreAll'
<1>1. SameRefs(prop, prop')
  BY DEF SameRefs
<1>2. ASSUME NEW p \in DOMAIN prop
      PROVE  /\ doc' = doc /\ AncestryAbove(p)' = AncestryAbove(p)
             /\ \A kids, r : Has(kids, p, r)' <=> Has(kids, p, r)
  BY <1>1, SameAbove
<1>3. VisitedAreAbove'
  BY <1>2 DEF VisitedAreAbove
<1>4. ChildrenAreAll'
  BY <1>2 DEF ChildrenAreAll
<1>. QED
  BY <1>3, <1>4

LEMMA GrowCuts ==
  ASSUME PropertiesFit, LevelsFit, VisitedAreAbove, ChildrenAreAll, UNCHANGED operation,
         NEW p \in worklist, NEW has, NEW kids, Grow(p, has, kids),
         KidsMeet(p, kids),
         has = "children" =>
           \A r \in Ancestry(doc, prop[p].ref, AncestryAbove(p)) : Has(DOMAIN kids, p, r)
  PROVE  VisitedAreAbove' /\ ChildrenAreAll'
<1>. DEFINE new == NewPaths(p, kids)
<1>1. p \in DOMAIN prop /\ prop[p].has = "nothing"
  BY DEF LevelsFit
<1>2. /\ \A k \in new : \E e \in DOMAIN kids : k = Append(p, e) /\ Last(k) = e /\ Above(k) = Above(p) \cup {p}
      /\ DOMAIN prop' = DOMAIN prop \cup new
      /\ prop'[p].has = has /\ prop'[p].kids = DOMAIN kids
      /\ \A f \in PropFields \ {"has", "kids"} : prop'[p][f] = prop[p][f]
      /\ \A q \in DOMAIN prop : q # p => prop'[q] = prop[q]
      /\ \A k \in new : prop'[k] = kids[Last(k)]
  BY GrowShape
<1>. HIDE DEF new
<1>3. prop'[p].ref = prop[p].ref /\ prop'[p].visited = prop[p].visited
  BY <1>2 DEF PropFields
<1>4. SameRefs(prop, prop')
  BY <1>2, <1>3 DEF SameRefs
<1>5. ASSUME NEW q \in DOMAIN prop
      PROVE  /\ doc' = doc /\ AncestryAbove(q)' = AncestryAbove(q)
             /\ \A K, r : Has(K, q, r)' <=> Has(K, q, r)
  BY <1>4, SameAbove
<1>6. ASSUME NEW q \in DOMAIN prop, NEW v \in prop'[q].visited
      PROVE  End(doc', v) \in AncestryAbove(q)' \cup {prop'[q].ref, <<>>}
  BY <1>2, <1>3, <1>5 DEF VisitedAreAbove
<1>7. ASSUME NEW k \in new, NEW v \in prop'[k].visited
      PROVE  End(doc', v) \in AncestryAbove(k)' \cup {prop'[k].ref, <<>>}
  <2>1. PICK e \in DOMAIN kids : prop'[k] = kids[e] /\ Above(k) = Above(p) \cup {p}
    BY <1>2
  <2>2. AncestryAbove(k)' = AncestryAbove(p)' \cup Ancestry(doc', prop'[p].ref, {})
    BY <2>1 DEF AncestryAbove
  <2>3. AncestryAbove(k)' = AncestryAbove(p) \cup Ancestry(doc, prop[p].ref, {})
    BY <1>1, <1>3, <1>5, <2>2
  <2>4. End(doc, v) \in Restarts(p) \cup {kids[e].ref}
    BY <2>1 DEF KidsMeet
  <2>. QED
    BY <1>1, <1>5, <2>1, <2>3, <2>4 DEF Restarts
<1>8. VisitedAreAbove'
  BY <1>2, <1>6, <1>7 DEF VisitedAreAbove
<1>9. ASSUME NEW q \in DOMAIN prop', prop'[q].has = "children",
             NEW r \in Ancestry(doc', prop'[q].ref, AncestryAbove(q)')
      PROVE  Has(prop[q].kids, q, r)'
  <2>1. q \in DOMAIN prop
    BY <1>2, <1>9 DEF KidsMeet
  <2>2. /\ doc' = doc /\ AncestryAbove(q)' = AncestryAbove(q) /\ Restarts(q)' = Restarts(q)
        /\ prop'[q].ref = prop[q].ref
    BY <1>2, <1>3, <1>4, <2>1, SameAbove
  <2>3. r \in Ancestry(doc, prop[q].ref, AncestryAbove(q))
    BY <1>9, <2>2
  <2>4. Has(prop'[q].kids, q, r)
    <3>1. CASE q = p
      BY <1>2, <1>9, <2>3, <3>1
    <3>2. CASE q # p
      BY <1>2, <1>9, <2>1, <2>3, <3>2 DEF ChildrenAreAll
    <3>. QED
      BY <3>1, <3>2
  <2>. QED
    BY <2>2, <2>4 DEF Has
<1>10. ChildrenAreAll'
  BY <1>9 DEF ChildrenAreAll
<1>. QED
  BY <1>8, <1>10

(* What is done at once for a property that is no object.                   *)
LEMMA OutsideCuts ==
  ASSUME pc' # "object" \/ phase' # "idle", VisitedAreAbove' /\ ChildrenAreAll'
  PROVE  CutInv'
BY DEF CutInv

LEMMA SamePropsCut ==
  ASSUME PropertiesFit, CutInv, UNCHANGED <<operation, prop>>
  PROVE  VisitedAreAbove' /\ ChildrenAreAll'
BY SameCut DEF CutInv

LEMMA CutInit == Init => CutInv
BY DEF Init, CutInv, VisitedAreAbove, ChildrenAreAll, Empty

LEMMA StartsOver == ASSUME NEW p PROVE AncestryAbove(p) \cup {prop[p].ref, <<>>} \subseteq Restarts(p)
<1>1. prop[p].ref \in Ancestry(doc, prop[p].ref, {})
  BY AncestryIsLeast
<1>. QED
  BY <1>1 DEF Restarts

(* The part of what x leads to.                                             *)
LEMMA PartMeets ==
  ASSUME RefsToModels, operation \in DOMAIN Operations, NEW x, RefFits(doc, x), NEW section, NEW name,
         NEW E, \A v \in x.visited : End(doc, v) \in E \cup {<<>>}
  PROVE  LET part == Ref(x.ref, section, name) IN Meets(part, E, RResolve(doc, part, x.visited, FALSE))
<1>. DEFINE part == Ref(x.ref, section, name)
<1>1. IsRef(part) /\ At(doc, part) \in Schema \cup Absences
  BY PartIsSchema, LongerOwner DEF RefFits
<1>. HIDE DEF part
<1>. DEFINE r == RResolve(doc, part, x.visited, FALSE)
<1>2. Meets(part, E, r)
  BY <1>1, ResolveMeets
<1>. QED
  BY <1>2 DEF part

LEMMA ElementCuts ==
  ASSUME TreeInv, CutInv, UNCHANGED operation, NEW p \in worklist, NEW r, NEW s, GrowElement(p, r, s),
         r.is = "ok" => \A v \in r.visited :
                          End(doc, v) \in AncestryAbove(p) \cup {prop[p].ref, r.ref, <<>>}
  PROVE  VisitedAreAbove' /\ ChildrenAreAll'
<1>1. CASE r.is # "ok"
  <2>1. UNCHANGED prop
    BY <1>1 DEF GrowElement, Leave, Stopped
  <2>. QED
    BY <2>1, SamePropsCut DEF TreeInv
<1>. DEFINE a == Append(prop[p].addr, IndexStep)
            kids == Put(Empty, <<"element", "">>, NewProp(s, r, a))
            k == NewProp(s, r, a)
<1>2. CASE r.is = "ok" /\ Grow(p, "element", kids)
  <2>1. k.ref = r.ref /\ k.visited = r.visited /\ k.has = "nothing"
    BY NewIsFresh DEF Fresh
  <2>2. \A e \in DOMAIN kids : kids[e] = k
    BY DEF Put, Empty
  <2>. HIDE DEF k, a, kids
  <2>3. KidsMeet(p, kids)
    BY <1>2, <2>1, <2>2, StartsOver DEF KidsMeet
  <2>. QED
    BY <1>2, <2>3, GrowCuts DEF TreeInv, CutInv
<1>. QED
  BY <1>1, <1>2 DEF GrowElement

LEMMA PlainCuts ==
  ASSUME RefsToModels, TreeInv, DescentInv, CutInv, NEW p \in worklist,
         ExpandPrimitive(p) \/ ExpandArray(p) \/ ExpandMap(p)
  PROVE  CutInv'
<1>1. pc = "expand" /\ Step /\ pc' \in {"expand", "error", "panic"}
  BY DEF ExpandPrimitive, ExpandArray, ExpandMap, Ready, GrowElement, Grow, Leave, Stopped
<1>2. UNCHANGED operation /\ operation \in DOMAIN Operations /\ p \in DOMAIN prop
  BY <1>1 DEF Step, DescentInv, TreeInv, LevelsFit
<1>. DEFINE x == prop[p]
            E == AncestryAbove(p) \cup {x.ref}
            Resolved(section) == RResolve(doc, Ref(x.ref, section, ""), x.visited, FALSE)
<1>3. RefFits(doc, x) /\ \A v \in x.visited : End(doc, v) \in E \cup {<<>>}
  BY <1>2 DEF DescentInv, PropsDescend, Placed, CutInv, VisitedAreAbove
<1>4. ASSUME UNCHANGED prop PROVE VisitedAreAbove' /\ ChildrenAreAll'
  BY <1>2, <1>4, SamePropsCut DEF TreeInv
<1>5. ASSUME NEW section, NEW s, GrowElement(p, Resolved(section), s)
      PROVE  VisitedAreAbove' /\ ChildrenAreAll'
  <2>1. ASSUME NEW n, NEW r, r = RResolve(doc, Ref(x.ref, section, n), x.visited, FALSE), r.is = "ok"
        PROVE  \A v \in r.visited : End(doc, v) \in E \cup {r.ref, <<>>}
    <3>. HIDE DEF x, E
    <3>. QED
      BY <1>2, <1>3, <2>1, PartMeets DEF Meets
  <2>. DEFINE r == Resolved(section)
  <2>2. r.is = "ok" => \A v \in r.visited : End(doc, v) \in E \cup {r.ref, <<>>}
    BY <2>1
  <2>3. GrowElement(p, r, s)
    BY <1>5
  <2>. HIDE DEF r
  <2>. QED
    BY <1>2, <2>2, <2>3, ElementCuts
<1>6. VisitedAreAbove' /\ ChildrenAreAll'
  <2>1. CASE ExpandPrimitive(p)
    BY <1>4, <2>1 DEF ExpandPrimitive, Leave, Stopped
  <2>2. CASE ExpandArray(p)
    <3>1. CASE Stopped("panic") \/ Stopped("error")
      BY <1>4, <3>1 DEF Stopped
    <3>2. CASE GrowElement(p, Resolved("items"), At(doc, Resolved("items").ref))
      BY <1>5, <3>2
    <3>. QED
      BY <2>2, <3>1, <3>2 DEF ExpandArray
  <2>3. CASE ExpandMap(p)
    <3>. DEFINE section == "additionalProperties"
                free == prop[p].schema.additionalProperties = Anything
                part == [is |-> "ok", ref |-> Ref(x.ref, section, ""), visited |-> x.visited]
    <3>1. CASE free /\ GrowElement(p, part, StringSchema)
      <4>1. \A v \in part.visited : End(doc, v) \in E \cup {part.ref, <<>>}
        BY <1>3
      <4>. HIDE DEF part
      <4>. QED
        BY <1>2, <3>1, <4>1, ElementCuts
    <3>2. ASSUME NEW s, GrowElement(p, Resolved(section), s)
          PROVE  VisitedAreAbove' /\ ChildrenAreAll'
      BY <1>5, <3>2
    <3>. QED
      BY <2>3, <3>1, <3>2 DEF ExpandMap
  <2>. QED
    BY <2>1, <2>2, <2>3
<1>. QED
  BY <1>1, <1>6, OutsideCuts

LEMMA TextCuts ==
  ASSUME TreeInv, CutInv, NEW p \in worklist, ExpandEmptyObject(p)
  PROVE  CutInv'
<1>1. pc = "expand" /\ Step /\ pc' = pc /\ prop' = [prop EXCEPT ![p].schema = StringSchema]
  BY DEF ExpandEmptyObject, Ready
<1>2. /\ DOMAIN prop' = DOMAIN prop
      /\ \A q \in DOMAIN prop : /\ prop'[q].ref = prop[q].ref /\ prop'[q].visited = prop[q].visited
                               /\ prop'[q].has = prop[q].has /\ prop'[q].kids = prop[q].kids
  BY <1>1 DEF TreeInv, PropertiesFit, PropFields
<1>3. VisitedAreAbove' /\ ChildrenAreAll'
  BY <1>1, <1>2, SameCut DEF Step, TreeInv, CutInv
<1>. QED
  BY <1>1, <1>3, OutsideCuts

LEMMA LevelCuts ==
  ASSUME TreeInv, CutInv, NextLevel
  PROVE  CutInv'
<1>1. pc' \in {"expand", "expanded"} /\ UNCHANGED <<operation, prop>>
  BY DEF NextLevel
<1>. QED
  BY <1>1, SamePropsCut, OutsideCuts DEF TreeInv

LEMMA VariantCuts ==
  ASSUME TreeInv, CutInv, GetVariants \/ VariantStep \/ \E p \in worklist : InitVariantMap(p)
  PROVE  CutInv'
<1>1. UNCHANGED <<operation, prop>> /\ phase' # "idle"
  <2>1. CASE GetVariants \/ VariantStep
    BY <2>1 DEF GetVariants, Get, VariantStep, BuildStep, Seed, NextPass, Collected, Inherit, Collect,
                GetLevel, GetEnd, expanderVars
  <2>2. CASE \E p \in worklist : InitVariantMap(p)
    BY <2>2 DEF InitVariantMap
  <2>. QED
    BY <2>1, <2>2
<1>. QED
  BY <1>1, SamePropsCut, OutsideCuts DEF TreeInv

LEMMA RootCuts ==
  ASSUME RefsToModels, TreeInv, DescentInv, CutInv, NewExpander
  PROVE  CutInv'
<1>. DEFINE response == RResolve(doc, Ref(opRef, "responses", "200"), {}, FALSE)
            start == Ref(response.ref, "schema", "")
            root == RResolve(doc, start, {}, TRUE)
<1>0. /\ pc' # "object" /\ UNCHANGED operation /\ operation \in DOMAIN Operations /\ doc' = doc
      /\ PropertiesFit
  BY SameDoc DEF NewExpander, Stopped, DescentInv, TreeInv
<1>1. CASE Stopped("error")
  BY <1>0, <1>1, SamePropsCut, OutsideCuts DEF Stopped
<1>2. CASE /\ response.is = "ok" /\ root.is = "ok"
           /\ prop' = Put(Empty, <<>>, NewProp(At(doc, root.ref), root, <<>>))
  <2>1. IsRef(start) /\ At(doc, start) \in Schema \cup Absences
    <3>1. response = RResolve(doc, Ref(opRef, "responses", "200"), {}, FALSE)
      BY DEF response
    <3>2. start = Ref(response.ref, "schema", "")
      BY DEF start
    <3>. HIDE DEF response, start
    <3>. QED
      BY <1>0, <1>2, <3>1, <3>2, RootStarts
  <2>. HIDE DEF start
  <2>2. Meets(start, {}, root)
    BY <1>0, <2>1, ResolveMeets
  <2>. HIDE DEF root
  <2>3. /\ DOMAIN prop' = {<<>>} /\ prop'[<<>>].has = "nothing"
        /\ prop'[<<>>].ref = root.ref /\ prop'[<<>>].visited = root.visited
    <3>1. DOMAIN prop' = {<<>>} /\ prop'[<<>>] = NewProp(At(doc, root.ref), root, <<>>)
      BY <1>2 DEF Put, Empty
    <3>. QED
      BY <3>1, NewIsFresh DEF Fresh
  <2>4. VisitedAreAbove' /\ ChildrenAreAll'
    BY <1>0, <1>2, <2>2, <2>3 DEF VisitedAreAbove, ChildrenAreAll, Meets
  <2>. QED
    BY <1>0, <2>4, OutsideCuts
<1>. QED
  BY <1>1, <1>2 DEF NewExpander

(* An object comes first of its bases, and has nothing yet.                 *)
LEMMA ObjectCuts ==
  ASSUME TreeInv, DescentInv, CutInv, ExpandAsRegularObject
  PROVE  CutInv'
<1>. DEFINE x == prop[current]
            b == [is |-> "ok", ref |-> x.ref, visited |-> x.visited]
<1>1. /\ UNCHANGED <<operation, prop, current, pc>> /\ phase = "got"
      /\ bases' = <<b>> /\ DOMAIN children' = {}
  BY DEF ExpandAsRegularObject, Empty
<1>2. current \in DOMAIN prop /\ PropertiesFit
  BY <1>1 DEF TreeInv, ObjectFits, LevelsFit
<1>. PICK p : p = current
  OBVIOUS
<1>3. current' = p /\ p \in DOMAIN prop
  BY <1>1, <1>2
<1>4. /\ doc' = doc /\ AncestryAbove(p)' = AncestryAbove(p) /\ prop'[p].ref = prop[p].ref
  <2>1. SameRefs(prop, prop')
    BY <1>1 DEF SameRefs
  <2>. QED
    BY <1>1, <1>2, <1>3, <2>1, SameAbove
<1>5. /\ DOMAIN bases' = {1} /\ bases'[1] = b
  BY <1>1
<1>6. Waiting' = {x.ref}
  <2>1. \A i \in DOMAIN bases' : bases'[i].is = "ok" /\ bases'[i].ref = x.ref
    BY <1>5
  <2>. HIDE DEF x
  <2>. QED
    BY <1>5, <2>1 DEF Waiting
<1>7. SoFar(p, {})'
  <2>1. x.ref \in Ancestry(doc, x.ref, {})
    BY AncestryIsLeast
  <2>2. \A v \in x.visited : End(doc, v) \in AncestryAbove(p) \cup {x.ref, <<>>}
    BY <1>2, <1>3 DEF CutInv, VisitedAreAbove
  <2>3. KidsMeet(p, children)'
    BY <1>1 DEF KidsMeet
  <2>. QED
    BY <1>3, <1>4, <1>5, <1>6, <2>1, <2>2, <2>3 DEF SoFar
<1>8. VisitedAreAbove' /\ ChildrenAreAll'
  BY <1>1, <1>2, SamePropsCut
<1>9. \E done : SoFar(current, done)'
  BY <1>3, <1>7
<1>. QED
  BY <1>8, <1>9 DEF CutInv

(* An object is a schema, not a text in place of one.                       *)
LEMMA ObjectAtRef ==
  ASSUME PropsDescend, NEW p \in DOMAIN prop, SchemaIsObject(prop[p].schema)
  PROVE  IsRef(prop[p].ref) /\ At(doc, prop[p].ref) \in Schema
<1>1. RefFits(doc, prop[p]) /\ SchemaFits(doc, prop[p])
  BY DEF PropsDescend, Placed
<1>2. StringSchema.type = "string" /\ prop[p].schema.type # "string"
  BY DEF SchemaIsObject, schemaTypeIsObject, StringSchema
<1>. QED
  BY <1>1, <1>2 DEF SchemaFits, RefFits

(* One base is taken: of what its parts lead to, nothing is lost.           *)
LEMMA BaseCuts ==
  ASSUME RefsToModels, BasesAreFew, TreeInv, DescentInv, CutInv, ExpandBase
  PROVE  CutInv'
<1>. DEFINE b == Head(bases)
            s == At(doc, b.ref)
            own == [k \in DOMAIN s.properties |->
                      RResolve(doc, Ref(b.ref, "properties", k), b.visited, FALSE)]
            base(i) == RResolve(doc, Ref(b.ref, "allOf", i), b.visited, FALSE)
            kid(k) == NewProp(At(doc, own[k].ref), own[k], Append(prop[current].addr, PropStep(k)))
            ups == [i \in DOMAIN s.allOf |-> base(i)]
            names == {j \in DOMAIN own : own[j].is = "ok"}
            new == {<<"child", k>> : k \in names}
<1>1. /\ UNCHANGED <<operation, phase>> /\ phase = "idle" /\ pc = "object" /\ bases # <<>>
      /\ operation \in DOMAIN Operations /\ IsPath(bases) /\ PropsDescend /\ ObjectDescends
      /\ PropertiesFit /\ current \in DOMAIN prop
  BY DEF ExpandBase, variantVars, TreeInv, ObjectFits, LevelsFit, DescentInv
<1>2. /\ IsPath(Tail(bases)) /\ 1 \in DOMAIN bases /\ b = bases[1]
      /\ \A i \in DOMAIN Tail(bases) : i + 1 \in DOMAIN bases /\ Tail(bases)[i] = bases[i + 1]
      /\ \A i \in DOMAIN bases : i = 1 \/ \E j \in DOMAIN Tail(bases) : Tail(bases)[j] = bases[i]
  BY <1>1, TailOfPath
<1>. PICK p : p = current
  OBVIOUS
<1>3. PICK done : SoFar(p, done)
  BY <1>1 DEF CutInv
<1>4. CASE Abandon
  <2>1. UNCHANGED prop /\ pc' = "error"
    BY <1>4 DEF Abandon, Stopped
  <2>. QED
    BY <1>1, <2>1, SamePropsCut, OutsideCuts
<1>5. ASSUME UNCHANGED <<current, prop>>, NEW D, SoFar(p, D)' PROVE CutInv'
  <2>1. VisitedAreAbove' /\ ChildrenAreAll'
    BY <1>1, <1>5, SamePropsCut
  <2>2. current' = p
    BY <1>5
  <2>3. \E E : SoFar(current, E)'
    BY <1>5, <2>2
  <2>. QED
    BY <2>1, <2>3 DEF CutInv
<1>6. ASSUME UNCHANGED prop
      PROVE  /\ doc' = doc /\ AncestryAbove(p)' = AncestryAbove(p) /\ Restarts(p)' = Restarts(p)
             /\ prop'[p].ref = prop[p].ref
             /\ \A kids, r : Has(kids, p, r)' <=> Has(kids, p, r)
  <2>1. SameRefs(prop, prop')
    BY <1>6 DEF SameRefs
  <2>. QED
    BY <1>1, <1>6, <2>1, SameAbove
<1>7. CASE b.is = "cut" /\ bases' = Tail(bases) /\ UNCHANGED <<current, children, prop, pc>>
  <2>1. Waiting' = Waiting
    <3>. DEFINE rest == Tail(bases)
    <3>1. bases' = rest /\ bases[1].is # "ok"
      BY <1>2, <1>7
    <3>. HIDE DEF rest
    <3>. QED
      BY <1>2, <3>1 DEF Waiting, rest
  <2>2. \A i \in DOMAIN bases' : i + 1 \in DOMAIN bases /\ bases'[i] = bases[i + 1]
    BY <1>2, <1>7
  <2>3. KidsMeet(p, children)'
    BY <1>3, <1>6, <1>7 DEF SoFar, KidsMeet
  <2>. HIDE DEF b
  <2>4. SoFar(p, done)'
    BY <1>3, <1>6, <1>7, <2>1, <2>2, <2>3 DEF SoFar
  <2>. QED
    BY <1>5, <1>7, <2>4
<1>8. CASE /\ b.is = "ok" /\ UNCHANGED <<current, prop, pc>>
           /\ \A k \in DOMAIN own : own[k].is # "error"
           /\ children' = [e \in new \cup DOMAIN children |->
                             IF e \in new THEN kid(e[2]) ELSE children[e]]
           /\ bases' = ups \o Tail(bases)
  <2>. PICK D : D = done \cup {b.ref}
    OBVIOUS
  <2>. DEFINE here == Ancestry(doc, prop[p].ref, {})
              E == AncestryAbove(p) \cup D
  <2>1. /\ RefFits(doc, b) /\ s \in Schema /\ b.ref \in here /\ b.ref \in Waiting
        /\ \A v \in b.visited : End(doc, v) \in E \cup {<<>>}
    <3>1. bases[1].is = "ok"
      BY <1>2, <1>8
    <3>. QED
      BY <1>1, <1>2, <1>3, <3>1 DEF ObjectDescends, SoFar, Waiting
  <2>2. done \subseteq here /\ E \cup {<<>>} \subseteq Restarts(p)
    BY <1>3, <2>1 DEF SoFar, Restarts
  <2>3. \A section, name :
          LET part == Ref(b.ref, section, name) IN Meets(part, E, RResolve(doc, part, b.visited, FALSE))
    <3>. HIDE DEF b, E
    <3>. QED
      BY <1>1, <2>1, PartMeets
  <2>4. BasesOf(doc, b.ref) \subseteq here
    <3>1. IsRef(prop[p].ref) /\ At(doc, prop[p].ref) \in Schema
      BY <1>1, ObjectAtRef DEF ObjectDescends
    <3>. QED
      BY <1>1, <2>1, <3>1, AncestryHasBases
  <2>5. IsPath(ups)
    <3>1. IsPath(s.allOf)
      BY <2>1, SchemasAssumption DEF IsPath
    <3>. HIDE DEF s, base
    <3>. QED
      BY <3>1, FunctionPath
  <2>6. /\ DOMAIN ups = DOMAIN s.allOf /\ \A j \in DOMAIN ups : ups[j] = base(j)
        /\ DOMAIN own = DOMAIN s.properties /\ names = {k \in DOMAIN own : own[k].is = "ok"}
        /\ new = {<<"child", k>> : k \in names}
    <3>. HIDE DEF base, s
    <3>. QED
      OBVIOUS
  <2>7. ASSUME NEW k \in DOMAIN own
        PROVE  LET part == Ref(b.ref, "properties", k) IN Meets(part, E, own[k])
    <3>1. own[k] = RResolve(doc, Ref(b.ref, "properties", k), b.visited, FALSE)
      OBVIOUS
    <3>. HIDE DEF own, b, E
    <3>. QED
      BY <2>3, <3>1
  <2>8. ASSUME NEW i PROVE LET part == Ref(b.ref, "allOf", i) IN Meets(part, E, base(i))
    <3>. HIDE DEF b, E
    <3>. QED
      BY <2>3
  <2>9. ASSUME NEW k PROVE kid(k).has = "nothing" /\ kid(k).ref = own[k].ref /\ kid(k).visited = own[k].visited
    <3>. HIDE DEF own
    <3>. QED
      BY NewIsFresh DEF Fresh
  <2>. HIDE DEF ups, own, base, kid, names, new
  <2>10. /\ \A i \in DOMAIN bases' :
              \/ \E j \in DOMAIN ups : bases'[i] = ups[j]
              \/ \E j \in DOMAIN Tail(bases) : bases'[i] = Tail(bases)[j]
         /\ \A j \in DOMAIN ups : \E i \in DOMAIN bases' : bases'[i] = ups[j]
         /\ \A j \in DOMAIN Tail(bases) : \E i \in DOMAIN bases' : bases'[i] = Tail(bases)[j]
    <3>. DEFINE rest == Tail(bases)
    <3>1. IsPath(rest) /\ bases' = Ahead(ups, rest)
      BY <1>2, <1>8 DEF Ahead
    <3>. HIDE DEF rest
    <3>2. /\ \A i \in DOMAIN Ahead(ups, rest) :
               \/ \E j \in DOMAIN ups : Ahead(ups, rest)[i] = ups[j]
               \/ \E j \in DOMAIN rest : Ahead(ups, rest)[i] = rest[j]
          /\ \A j \in DOMAIN ups : \E i \in DOMAIN Ahead(ups, rest) : Ahead(ups, rest)[i] = ups[j]
          /\ \A j \in DOMAIN rest : \E i \in DOMAIN Ahead(ups, rest) : Ahead(ups, rest)[i] = rest[j]
      BY <2>5, <3>1, TwoPaths
    <3>. QED
      BY <3>1, <3>2 DEF rest
  <2>11. /\ \A j \in DOMAIN ups : ups[j].is = "ok" => ups[j].ref \in Waiting'
         /\ Waiting \subseteq Waiting' \cup {b.ref}
    <3>1. ASSUME NEW i \in DOMAIN bases', bases'[i].is = "ok" PROVE bases'[i].ref \in Waiting'
      BY <3>1 DEF Waiting
    <3>2. ASSUME NEW i \in DOMAIN bases, bases[i].is = "ok" PROVE bases[i].ref \in Waiting' \cup {b.ref}
      <4>1. CASE i = 1
        BY <1>2, <4>1
      <4>2. CASE i # 1
        BY <1>2, <2>10, <3>1, <3>2, <4>2
      <4>. QED
        BY <4>1, <4>2
    <3>. HIDE DEF b
    <3>3. ASSUME NEW j \in DOMAIN ups, ups[j].is = "ok" PROVE ups[j].ref \in Waiting'
      BY <2>10, <3>1, <3>3
    <3>4. Waiting \subseteq Waiting' \cup {b.ref}
      BY <3>2 DEF Waiting
    <3>. QED
      BY <3>3, <3>4
  <2>. HIDE DEF here, E
  <2>12. /\ E = AncestryAbove(p) \cup D /\ D = done \cup {b.ref} /\ here = Ancestry(doc, prop[p].ref, {})
    BY DEF E, here
  <2>. HIDE DEF b, s
  <2>13. BasesOf(doc, b.ref) \subseteq E \cup Waiting'
    <3>. SUFFICES ASSUME NEW e \in BasesOf(doc, b.ref) PROVE e \in E \cup Waiting'
      OBVIOUS
    <3>1. PICK j \in DOMAIN s.allOf : e = End(doc, Ref(b.ref, "allOf", j)) /\ e # <<>>
      BY DEF BasesOf, s
    <3>2. CASE base(j).is = "ok"
      <4>1. e = base(j).ref
        BY <2>8, <3>1, <3>2 DEF Meets
      <4>2. j \in DOMAIN ups /\ ups[j] = base(j)
        BY <2>6
      <4>. QED
        BY <2>11, <3>2, <4>1, <4>2
    <3>3. CASE base(j).is # "ok"
      BY <2>8, <3>1, <3>3 DEF Meets
    <3>. QED
      BY <3>2, <3>3
  <2>14. DOMAIN children' = new \cup DOMAIN children
    BY <1>8
  <2>15. Has(DOMAIN children', p, b.ref)
    <3>. SUFFICES ASSUME NEW k \in DOMAIN own
                  PROVE  \/ <<"child", k>> \in new
                         \/ End(doc, Ref(b.ref, "properties", k)) \in Restarts(p)
      BY <2>6, <2>14 DEF Has, s
    <3>1. CASE own[k].is = "ok"
      BY <2>6, <3>1
    <3>2. CASE own[k].is # "ok"
      BY <2>2, <2>7, <3>2 DEF Meets
    <3>. QED
      BY <3>1, <3>2
  <2>16. ASSUME NEW r \in D
         PROVE  Has(DOMAIN children', p, r) /\ BasesOf(doc, r) \subseteq D \cup AncestryAbove(p) \cup Waiting'
    <3>1. CASE r = b.ref
      BY <2>12, <2>13, <2>15, <3>1
    <3>2. CASE r # b.ref
      <4>1. /\ r \in done /\ Has(DOMAIN children, p, r)
            /\ BasesOf(doc, r) \subseteq done \cup AncestryAbove(p) \cup Waiting
        BY <1>3, <2>12, <3>2 DEF SoFar
      <4>2. Has(DOMAIN children', p, r)
        BY <2>14, <4>1 DEF Has
      <4>. QED
        BY <2>11, <2>12, <4>1, <4>2
    <3>. QED
      BY <3>1, <3>2
  <2>17. ASSUME NEW j \in DOMAIN ups, ups[j].is = "ok"
         PROVE  ups[j].ref \in here /\ \A v \in ups[j].visited : End(doc, v) \in E \cup {ups[j].ref, <<>>}
    <3>1. ups[j] = base(j) /\ j \in DOMAIN s.allOf
      BY <2>6
    <3>2. /\ End(doc, Ref(b.ref, "allOf", j)) = ups[j].ref /\ ups[j].ref # <<>>
          /\ \A v \in ups[j].visited : End(doc, v) \in E \cup {ups[j].ref, <<>>}
      BY <2>8, <2>17, <3>1 DEF Meets
    <3>3. ups[j].ref \in BasesOf(doc, b.ref)
      BY <3>1, <3>2 DEF BasesOf, s
    <3>. QED
      BY <2>4, <3>2, <3>3
  <2>18. ASSUME NEW j \in DOMAIN Tail(bases), Tail(bases)[j].is = "ok"
         PROVE  /\ Tail(bases)[j].ref \in here
                /\ \A v \in Tail(bases)[j].visited : End(doc, v) \in E \cup {Tail(bases)[j].ref, <<>>}
    <3>1. PICK i \in DOMAIN bases : Tail(bases)[j] = bases[i]
      BY <1>2
    <3>. QED
      BY <1>3, <2>12, <2>18, <3>1 DEF SoFar
  <2>19. ASSUME NEW i \in DOMAIN bases', bases'[i].is = "ok"
         PROVE  /\ bases'[i].ref \in here
                /\ \A v \in bases'[i].visited :
                     End(doc, v) \in AncestryAbove(p) \cup D \cup {bases'[i].ref, <<>>}
    BY <2>10, <2>12, <2>17, <2>18, <2>19
  <2>20. ASSUME NEW e \in DOMAIN children'
         PROVE  /\ children'[e].has = "nothing"
                /\ \A v \in children'[e].visited : End(doc, v) \in Restarts(p) \cup {children'[e].ref}
    <3>1. CASE e \in new
      <4>1. PICK k \in names : e = <<"child", k>>
        BY <2>6, <3>1
      <4>2. children'[e] = kid(k)
        BY <1>8, <3>1, <4>1, PairIs
      <4>3. \A v \in own[k].visited : End(doc, v) \in E \cup {own[k].ref, <<>>}
        BY <2>6, <2>7 DEF Meets
      <4>. QED
        BY <2>2, <2>9, <4>2, <4>3
    <3>2. CASE e \notin new
      <4>1. e \in DOMAIN children /\ children'[e] = children[e]
        BY <1>8, <3>2
      <4>. QED
        BY <1>3, <4>1 DEF SoFar, KidsMeet
    <3>. QED
      BY <3>1, <3>2
  <2>21. SoFar(p, D)'
    <3>1. D \subseteq here /\ prop[p].ref \in D \cup Waiting'
      BY <1>3, <2>1, <2>2, <2>11, <2>12 DEF SoFar
    <3>2. KidsMeet(p, children)'
      BY <1>6, <1>8, <2>20 DEF KidsMeet
    <3>3. /\ doc' = doc /\ AncestryAbove(p)' = AncestryAbove(p) /\ prop'[p].ref = prop[p].ref
          /\ Restarts(p)' = Restarts(p)
      BY <1>6, <1>8
    <3>4. \A r \in D : Has(DOMAIN children, p, r)'
      BY <2>16, <3>3 DEF Has
    <3>5. \A r \in D : BasesOf(doc', r) \subseteq D \cup AncestryAbove(p)' \cup Waiting'
      BY <2>16, <3>3
    <3>6. \A i \in DOMAIN bases' : bases'[i].is = "ok" =>
            /\ bases'[i].ref \in Ancestry(doc', prop'[p].ref, {})
            /\ \A v \in bases'[i].visited :
                 End(doc', v) \in AncestryAbove(p)' \cup D \cup {bases'[i].ref, <<>>}
      BY <2>12, <2>19, <3>3
    <3>7. D \subseteq Ancestry(doc', prop'[p].ref, {}) /\ prop'[p].ref \in D \cup Waiting'
      BY <2>12, <3>1, <3>3
    <3>. QED
      BY <3>2, <3>4, <3>5, <3>6, <3>7 DEF SoFar
  <2>. QED
    BY <1>5, <1>8, <2>21
<1>. QED
  BY <1>4, <1>7, <1>8 DEF ExpandBase

(* The object at hand has got all that it lacks above it.                   *)
LEMMA ChildrenCuts ==
  ASSUME TreeInv, CutInv, GotChildren
  PROVE  CutInv'
<1>1. /\ pc = "object" /\ phase = "idle" /\ bases = <<>> /\ Grow(current, "children", children)
      /\ UNCHANGED operation /\ pc' = "expand" /\ current \in worklist
  BY DEF GotChildren, Grow, TreeInv, ObjectFits
<1>. PICK p : p = current
  OBVIOUS
<1>2. PICK done : SoFar(p, done)
  BY <1>1 DEF CutInv
<1>3. Waiting = {}
  BY <1>1 DEF Waiting
<1>4. Ancestry(doc, prop[p].ref, AncestryAbove(p)) \subseteq done
  <2>1. prop[p].ref \in done /\ \A r \in done : BasesOf(doc, r) \ AncestryAbove(p) \subseteq done
    BY <1>2, <1>3 DEF SoFar
  <2>. QED
    BY <2>1, AncestryIsLeast
<1>5. KidsMeet(p, children) /\ \A r \in Ancestry(doc, prop[p].ref, AncestryAbove(p)) : Has(DOMAIN children, p, r)
  BY <1>2, <1>4 DEF SoFar
<1>6. VisitedAreAbove' /\ ChildrenAreAll'
  BY <1>1, <1>5, GrowCuts DEF TreeInv, CutInv
<1>. QED
  BY <1>1, <1>6, OutsideCuts

(* What is visited on the way to a variant leads above it.                  *)
LEMMA VariantsCut ==
  ASSUME RefsToModels, TreeInv, DescentInv, CutInv, ExpandAsPolymorphicObject
  PROVE  CutInv'
<1>1. /\ UNCHANGED operation /\ pc' \in {"expand", "error"} /\ phase = "got"
      /\ operation \in DOMAIN Operations
  BY DEF ExpandAsPolymorphicObject, Grow, Stopped, DescentInv
<1>2. current \in worklist /\ current \in DOMAIN prop
  BY <1>1 DEF TreeInv, ObjectFits, LevelsFit
<1>3. CASE Stopped("error")
  BY <1>1, <1>3, SamePropsCut, OutsideCuts DEF Stopped, TreeInv
<1>. DEFINE p == current
            x == prop[p]
            V == x.visited \ {x.ref}
            E == AncestryAbove(p) \cup {x.ref}
            r == VariantProps(p)
            kept == {v \in DOMAIN r : r[v].is = "ok"}
            base(v) == NewProp(At(doc, r[v].ref), r[v], VariantAddr(x.addr, v))
            kids == [e \in {<<"variant", v>> : v \in kept} |->
                       [base(e[2]) EXCEPT !.discriminator = m[modelName].discriminator, !.value = e[2]]]
<1>4. CASE Grow(p, "variants", kids)
  <2>1. \A v \in V : End(doc, v) \in E \cup {<<>>}
    BY <1>2 DEF CutInv, VisitedAreAbove
  <2>2. ASSUME NEW v \in kept
        PROVE  \A u \in r[v].visited : End(doc, u) \in E \cup {r[v].ref, <<>>}
    <3>. DEFINE start == <<x.ref[1], <<"definitions", out[v]>>>>
    <3>1. r[v] = RResolve(doc, start, V, TRUE) /\ r[v].is = "ok"
      BY DEF VariantProps
    <3>2. IsRef(start) /\ At(doc, start) \in Schema \cup Absences
      <4>1. Named(start, "definitions")
        BY ModelRef
      <4>. HIDE DEF start
      <4>. QED
        BY <1>1, <4>1, ModelIsSchema DEF Named
    <3>. HIDE DEF start, r, V, E
    <3>3. Meets(start, E, r[v])
      BY <1>1, <2>1, <3>1, <3>2, ResolveMeets
    <3>. QED
      BY <3>1, <3>3 DEF Meets
  <2>3. E \cup {<<>>} \subseteq Restarts(p)
    BY StartsOver
  <2>. HIDE DEF r, kept, E
  <2>4. ASSUME NEW e \in DOMAIN kids
        PROVE  /\ kids[e].has = "nothing"
               /\ \A u \in kids[e].visited : End(doc, u) \in Restarts(p) \cup {kids[e].ref}
    <3>1. PICK v \in kept : e = <<"variant", v>>
      BY <2>4
    <3>2. e[2] = v
      BY <3>1, PairIs
    <3>3. base(v).ref = r[v].ref /\ base(v).visited = r[v].visited /\ Fresh(base(v))
      BY NewIsFresh
    <3>. DEFINE k == [base(v) EXCEPT !.discriminator = m[modelName].discriminator, !.value = v]
    <3>4. k.has = "nothing" /\ k.ref = r[v].ref /\ k.visited = r[v].visited
      <4>. HIDE DEF base
      <4>. QED
        BY <3>3 DEF Fresh, PropFields
    <3>5. kids[e] = k
      BY <2>4, <3>2
    <3>. HIDE DEF k, base, kids
    <3>. QED
      BY <2>2, <2>3, <3>4, <3>5
  <2>. HIDE DEF kids
  <2>5. KidsMeet(p, kids)
    BY <2>4 DEF KidsMeet
  <2>6. VisitedAreAbove' /\ ChildrenAreAll'
    BY <1>1, <1>2, <1>4, <2>5, GrowCuts DEF TreeInv, CutInv
  <2>. QED
    BY <1>1, <2>6, OutsideCuts
<1>. QED
  BY <1>3, <1>4 DEF ExpandAsPolymorphicObject

THEOREM CutInvariant ==
  ASSUME RefsToModels, BasesAreFew
  PROVE  ExpanderSpec => [](TreeInv /\ DescentInv /\ CutInv)
<1>1. TreeInv /\ DescentInv /\ CutInv /\ [ExpandStep]_<<expanderVars, variantVars>> => CutInv'
  <2>. SUFFICES ASSUME TreeInv, DescentInv, CutInv, [ExpandStep]_<<expanderVars, variantVars>>
                PROVE  CutInv'
    OBVIOUS
  <2>1. CASE UNCHANGED <<expanderVars, variantVars>>
    <3>1. UNCHANGED <<operation, prop, current, bases, children, pc, phase>>
      BY <2>1 DEF expanderVars, objectVars, variantVars
    <3>2. VisitedAreAbove' /\ ChildrenAreAll'
      BY <3>1, SamePropsCut DEF TreeInv
    <3>3. \A done : SoFar(current, done) => SoFar(current, done)'
      BY <3>1 DEF SoFar, KidsMeet, Has, Restarts, Waiting, AncestryAbove, doc
    <3>. QED
      BY <3>1, <3>2, <3>3 DEF CutInv
  <2>2. CASE NewExpander
    BY <2>2, RootCuts
  <2>3. CASE NextLevel
    BY <2>3, LevelCuts
  <2>4. CASE GetVariants \/ VariantStep
    BY <2>4, VariantCuts
  <2>5. CASE ExpandAsRegularObject
    BY <2>5, ObjectCuts
  <2>6. CASE ExpandBase
    BY <2>6, BaseCuts
  <2>7. CASE GotChildren
    BY <2>7, ChildrenCuts
  <2>8. CASE ExpandAsPolymorphicObject
    BY <2>8, VariantsCut
  <2>9. ASSUME NEW p \in worklist, ExpandPrimitive(p) \/ ExpandArray(p) \/ ExpandMap(p)
        PROVE  CutInv'
    BY <2>9, PlainCuts
  <2>10. ASSUME NEW p \in worklist, ExpandEmptyObject(p) PROVE CutInv'
    BY <2>10, TextCuts
  <2>11. ASSUME NEW p \in worklist, InitVariantMap(p) PROVE CutInv'
    BY <2>11, VariantCuts
  <2>. QED
    BY <2>1, <2>2, <2>3, <2>4, <2>5, <2>6, <2>7, <2>8, <2>9, <2>10, <2>11 DEF ExpandStep
<1>. QED
  BY <1>1, CutInit, DescentInvariant, PTL DEF ExpanderSpec

(* The tree leaves out a property of a schema or of its bases only where it *)
(* would start over, whatever circles the files describe (expander.go:355). *)
THEOREM CutOnlyCyclesCorrect ==
  ASSUME RefsToModels, BasesAreFew
  PROVE  ExpanderSpec => []CutOnlyCycles
<1>1. TreeInv /\ DescentInv /\ CutInv => CutOnlyCycles
  BY DEF CutInv, ChildrenAreAll, Has, Restarts, CutOnlyCycles
<1>. QED
  BY <1>1, CutInvariant, PTL
===============================================================================
