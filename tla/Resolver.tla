------------------------------- MODULE Resolver -------------------------------
(***************************************************************************)
(* Following references (swagger/refutil/resolver.go).                      *)
(***************************************************************************)
EXTENDS Schemas, FiniteSets

CONSTANTS
  Schema,    \* the schemas of all specification files, with all their parts
  Response,  \* the responses in them, records [ref, schema]
  Turns      \* bound: the turns of a loop that follows references

IsRef(r) == Len(r) \in Nat \ {0, 1} /\ r = [i \in 1..Len(r) |-> r[i]]

(* The $refs of all files.                                                  *)
Targets == ({s.ref : s \in Schema} \cup {r.ref : r \in Response}) \ {None}

(* A part of a schema is a schema or absent, a reference has a file and a   *)
(* name at least, and there are finitely many of them.                      *)
ASSUME SchemasAssumption ==
  /\ \A s \in Schema :
       /\ DOMAIN s = DOMAIN StringSchema
       /\ \A k \in DOMAIN s.properties : s.properties[k] \in Schema
       /\ s.allOf \in Seq(Schema)
       /\ s.items \in Schema \cup {None, Many}
       /\ s.additionalProperties \in Schema \cup {None, Anything}
  /\ \A r \in Response : DOMAIN r = {"ref", "schema"} /\ r.schema \in Schema \cup {None}
  /\ {None, Anything, Many} \cap (Schema \cup Response) = {}
  /\ \A r \in Targets : IsRef(r)
  /\ IsFiniteSet(Targets)

(* Each turn but the last one visits a reference, so there is no need for   *)
(* more turns than this.                                                    *)
ASSUME TurnsAssumption == Turns \in Nat /\ Turns > Cardinality(Targets)

(* RResolve and RResolveResponse follow $ref until something concrete:      *)
(* "ok", "cut" at a reference visited before, or "error" where one leads    *)
(* to nothing that is a schema or a response.                               *)
Stop(how) == [is |-> how, ref |-> <<>>, visited |-> {}]

(* One turn of their loops.                                                 *)
Hop(doc, h) ==
  LET s == At(doc, h.ref) IN
    IF h.is # "follow" THEN h
    ELSE IF s \in {None, Anything, Many} THEN Stop("error")
    ELSE IF s.ref = None THEN [h EXCEPT !.is = "ok"]
    ELSE IF s.ref \in h.visited THEN Stop("cut")
    ELSE [h EXCEPT !.ref = s.ref, !.visited = @ \cup {s.ref}]

Follow(doc, ref, visited) ==
  LET hop[n \in 0..Turns] ==
        IF n = 0 THEN [is |-> "follow", ref |-> ref, visited |-> visited]
        ELSE Hop(doc, hop[n - 1])
  IN  hop[Turns]

RResolve(doc, ref, visited, inputIsRef) ==
  IF ref \in visited THEN Stop("cut")
  ELSE Follow(doc, ref, IF inputIsRef THEN visited \cup {ref} ELSE visited)
===============================================================================
