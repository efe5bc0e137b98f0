------------------------------- MODULE Schemas -------------------------------
(***************************************************************************)
(* Specification files: references, the schemas they point at, and what the *)
(* expander tells schemas apart by (swagger/refutil, swagger/expander.go).  *)
(*                                                                          *)
(* A reference is <<file, step, ...>>; a step is a pair, such as            *)
(* <<"definitions", "Pet">>, <<"properties", "kind">>, <<"allOf", 1>> or    *)
(* <<"items", "">>.  A document is file -> section -> name -> what is       *)
(* there; a schema is a record                                              *)
(*   [type, ref, properties, allOf, items, additionalProperties,            *)
(*    discriminator, value, format, enum]                                   *)
(* with None for what is absent, "" for an absent type, discriminator or    *)
(* format, and Anything or Many for additionalProperties or items that are not   *)
(* one schema.                                                              *)
(***************************************************************************)
EXTENDS SequencesExt

CONSTANTS None, Anything, Many

Ref(ref, section, name) == Append(ref, <<section, name>>)
SchemaName(ref) ==
  IF Len(ref) = 2 /\ ref[2][1] = "definitions" THEN ref[2][2] ELSE ""

(* The last token of a reference: the name, if it is one of a model.        *)
LastToken(ref) == ref[Len(ref)][2]

(* What one step of a JSON pointer leads to, None if nothing.               *)
Child(s, step) ==
  IF s \in {None, Anything, Many} \/ step[1] \notin DOMAIN s THEN None
  ELSE IF step[1] \in {"items", "additionalProperties", "schema"} THEN s[step[1]]
  ELSE IF step[1] \in {"properties", "allOf", "responses"} /\ step[2] \in DOMAIN s[step[1]]
    THEN s[step[1]][step[2]]
  ELSE None

(* What a name in a section of a file stands for.                           *)
InFile(doc, file, step) ==
  IF file \in DOMAIN doc /\ step[1] \in DOMAIN doc[file] /\ step[2] \in DOMAIN doc[file][step[1]]
    THEN doc[file][step[1]][step[2]] ELSE None

(* What a whole reference leads to: a name in a section of a file, and from *)
(* there one step after the other.                                          *)
At(doc, ref) ==
  LET at[n \in 2..Len(ref)] ==
        IF n = 2 THEN InFile(doc, ref[1], ref[2]) ELSE Child(at[n - 1], ref[n])
  IN  at[Len(ref)]

-------------------------------------------------------------------------------
schemaTypeIsObject(s) == s.type \in {"", "object"}
SchemaIsArray(s) == s.type = "array"
SchemaIsMap(s) ==
  schemaTypeIsObject(s) /\ DOMAIN s.properties = {} /\ s.additionalProperties # None
SchemaIsObject(s) == schemaTypeIsObject(s) /\ ~SchemaIsMap(s)
SchemaIsEmptyObject(s) ==
  SchemaIsObject(s) /\ DOMAIN s.properties = {} /\ s.allOf = <<>>

(* The schema the expander puts where it wants a plain string.              *)
StringSchema ==
  [type |-> "string", ref |-> None, properties |-> <<>>, allOf |-> <<>>,
   items |-> None, additionalProperties |-> None,
   discriminator |-> "", value |-> None, format |-> "", enum |-> <<>>]
===============================================================================
