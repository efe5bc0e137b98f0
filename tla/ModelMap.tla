------------------------------- MODULE ModelMap -------------------------------
(***************************************************************************)
(* The model maps of ctrl/map.go: which property of the API model each      *)
(* property of the application model comes from.                            *)
(*                                                                          *)
(* A position (a pointer to swagger.JSONValuePos) is one element of Pos: the code tells *)
(* two positions apart by their String(), root model and address.  The      *)
(* address alone orders a list of positions; Rank[p] is the place of p's    *)
(* address in that order, so positions of different root models may share a *)
(* rank.  Nil is the nil pointer, the position of a value that no property  *)
(* of the swagger defines.                                                  *)
(*                                                                          *)
(* A ModelMap is a function from application addresses (JSON pointers) to   *)
(* non-empty sets of positions: every list the code builds is free of       *)
(* duplicates and sorted by address.                                        *)
(***************************************************************************)
EXTENDS Integers, FiniteSets

CONSTANTS
  Pos,    \* the positions
  Nil,    \* the nil pointer to a JSONValuePos
  Rank    \* the place of a position's address in the order of addresses

ASSUME RankAssumption == Rank \in [Pos -> Int]
ASSUME NilAssumption == Nil \notin Pos

EmptyMap == [a \in {} |-> {}]

(* The positions of address a, none when the map has no such key. *)
PositionsAt(mm, a) == IF a \in DOMAIN mm THEN mm[a] ELSE {}

IsModelMap(mm) ==
  \A a \in DOMAIN mm : mm[a] # {} /\ mm[a] \subseteq Pos \cup {Nil}

(* A model map without nil positions, as execute returns it.                *)
IsLinkedMap(mm) == \A a \in DOMAIN mm : mm[a] # {} /\ mm[a] \subseteq Pos

-------------------------------------------------------------------------------
(* SingleModelMap.  f assigns a value to each leaf of a JSON document; the  *)
(* leaves whose value occurs once are the ones a value map keeps.           *)
Unambiguous(f) == {d \in DOMAIN f : \A e \in DOMAIN f : f[e] = f[d] => e = d}

(* The application model gives app[a] at address a; leaf o of the recorded  *)
(* responses has the value val[o] and the position pos[o].                  *)
MapSingleAppModel(app, val, pos) ==
  LET Leaves(a) == {o \in Unambiguous(val) : val[o] = app[a]}
  IN [a \in {b \in Unambiguous(app) : Leaves(b) # {}} |->
        pos[CHOOSE o \in Leaves(a) : TRUE]]

ToModelMap(smm) == [a \in DOMAIN smm |-> {smm[a]}]

-------------------------------------------------------------------------------
(* Add.  The loop over the receiver starts a new inner map for every        *)
(* position of a list, so of each list only the last position is still      *)
(* there when the argument's positions are added.  The last one has the     *)
(* greatest address; among equal addresses sort.Slice decides.              *)
Lasts(S) == {p \in S : \A q \in S : Rank[q] <= Rank[p]}

Survivors(mm) ==
  {s \in [DOMAIN mm -> Pos] : \A a \in DOMAIN mm : s[a] \in Lasts(mm[a])}

(* Variant: the positions the receiver still has are not carried over.      *)
AddedFresh(s, mm, omm) ==
  [a \in DOMAIN mm \cup DOMAIN omm |-> PositionsAt(omm, a)]

Added(s, mm, omm) ==
  [a \in DOMAIN mm \cup DOMAIN omm |->
     (IF a \in DOMAIN mm THEN {s[a]} ELSE {}) \cup PositionsAt(omm, a)]

(* Variant: receiver and argument swapped.                                  *)
AddOutcomesSwapped(mm, omm) == {Added(s, omm, mm) : s \in Survivors(omm)}

AddOutcomes(mm, omm) == {Added(s, mm, omm) : s \in Survivors(mm)}

(* String() of a nil position dereferences it. *)
HasNil(mm) == \E a \in DOMAIN mm : Nil \in mm[a]
AddPanics(mm, omm) == HasNil(mm) \/ HasNil(omm)

(* AddLink refuses a nil position. *)
AddLinkFails(mm) == HasNil(mm)

-------------------------------------------------------------------------------
(* compareFlattendJSON: what is only in the first, and what differs.        *)
OnlyIn(m1, m2) == DOMAIN m1 \ DOMAIN m2
Differing(m1, m2) == {a \in DOMAIN m1 \cap DOMAIN m2 : m1[a] # m2[a]}
===============================================================================
