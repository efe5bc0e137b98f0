----------------------------- MODULE MCValueMap -----------------------------
(* An instance of ValueMap for TLC: up to four leaves of one text. *)
EXTENDS ValueMap

MCLeaf == 1..4
MCText == {"a", "TRUE", "1"}
===============================================================================
