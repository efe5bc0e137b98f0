------------------------------- MODULE ValueMap -------------------------------
(***************************************************************************)
(* How a value map is built: tryStore, called for one leaf after the other  *)
(* (jsonValueMap in ctrl/map.go, JSONValueValueMap in                       *)
(* mockserver/swagger/json_value.go).  Go walks maps in an order of its     *)
(* own, so the leaves come in any order; the specification promises that    *)
(* the order does not show.                                                 *)
(***************************************************************************)
EXTENDS Naturals

CONSTANTS
  Leaf,    \* the leaves of the document (or of all records together)
  Text     \* the text forms of values, the keys of the map: a number as
           \* FormatFloat prints it, a string as it is, TRUE and FALSE

VARIABLES
  text,    \* text[l]: the text form of the value of leaf l
  todo,    \* the leaves the walk has yet to reach
  out,     \* out[t]: the leaf stored for text t, a partial function
  dupm     \* the texts that were met more than once

vars == <<text, todo, out, dupm>>

Init ==
  /\ text \in [Leaf -> Text]
  /\ todo = Leaf
  /\ out = [t \in {} |-> t]
  /\ dupm = {}

(* Variant: after a third leaf the text is stored again, as if new.         *)
tryStoreForgets(l) ==
  LET k == text[l] IN
    IF k \in DOMAIN out
      THEN out' = [t \in DOMAIN out \ {k} |-> out[t]] /\ UNCHANGED dupm
      ELSE out' = [t \in DOMAIN out \cup {k} |-> IF t = k THEN l ELSE out[t]] /\ UNCHANGED dupm

tryStore(l) ==
  LET k == text[l] IN
    \/ k \in dupm /\ UNCHANGED <<out, dupm>>
    \/ /\ k \notin dupm /\ k \in DOMAIN out
       /\ out' = [t \in DOMAIN out \ {k} |-> out[t]]
       /\ dupm' = dupm \cup {k}
    \/ /\ k \notin dupm /\ k \notin DOMAIN out
       /\ out' = [t \in DOMAIN out \cup {k} |-> IF t = k THEN l ELSE out[t]]
       /\ UNCHANGED dupm

Visit(l) ==
  /\ l \in todo
  /\ tryStore(l)
  /\ todo' = todo \ {l}
  /\ UNCHANGED text

Next == \E l \in Leaf : Visit(l)

Spec == Init /\ [][Next]_vars

-------------------------------------------------------------------------------
(* Properties.                                                              *)
Visited == Leaf \ todo

(* l alone of the leaves met so far has the text t.                         *)
UniqueSoFar(t, l) ==
  /\ l \in Visited /\ text[l] = t
  /\ \A m \in Visited : text[m] = t => m = l

(* The map holds a text exactly when a single leaf met so far has it, and   *)
(* then that leaf; dupm holds the texts of several leaves.  At the end of   *)
(* the walk this leaves nothing of its order: it is what MapSingleAppModel  *)
(* in ModelMap uses (json_value.go:149, map.go:165).                        *)
MapsTheUnambiguous ==
  /\ DOMAIN out = {t \in Text : \E l \in Leaf : UniqueSoFar(t, l)}
  /\ \A t \in DOMAIN out : UniqueSoFar(t, out[t])
  /\ dupm = {t \in Text : \E l, m \in Visited : l # m /\ text[l] = t /\ text[m] = t}
===============================================================================
