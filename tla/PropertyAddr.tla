----------------------------- MODULE PropertyAddr -----------------------------
(***************************************************************************)
(* Property addresses as text (swagger/property_addr.go): what String       *)
(* prints, and ParseAddr, which reads one character after the other.  An    *)
(* address is printed into the model map and parsed again to build the      *)
(* vibrations (ctrl.go:472), and a user writes the ones of                  *)
(* duplicate_element (ctrl.go:291).                                         *)
(*                                                                          *)
(* A text is a sequence of characters; a step is a record                   *)
(* [type, value, variant] with texts, empty when there is none.             *)
(***************************************************************************)
EXTENDS Naturals, SequencesExt

CONSTANTS
  Characters, \* what texts are made of
  Written,    \* the texts a user may write
  Printed,    \* the addresses the program may print
  NoAddr

VARIABLES
  input,      \* what ParseAddr was given
  origin,     \* history: the address input was printed from, NoAddr if it was written
  next,       \* the scanner: how many characters were read, plus one
  addr, inVariant, stepValue, stepVariant,   \* the locals of ParseAddr
  result      \* "reading", "ok" or "error"

vars == <<input, origin, next, addr, inVariant, stepValue, stepVariant, result>>

EOF == "EOF"
Special == {"/", "\\", "{", "}"}

Text == Seq(Characters)
AddrSteps == {s \in [type : {"prop", "index"}, value : Text, variant : Text] :
                s.type = "index" => s.value = <<>>}

ASSUME CharactersAssumption == Special \cup {"*"} \subseteq Characters /\ EOF \notin Characters
ASSUME TextsAssumption ==
  Written \subseteq Text /\ Printed \subseteq Seq(AddrSteps) /\ NoAddr \notin Seq(AddrSteps)

(* Variant: a slash in a name is not escaped.                               *)
escapePropValueNoSlash(v) ==
  FlattenSeq([i \in DOMAIN v |->
    CASE v[i] = "\\" -> <<"\\", "\\">>
      [] v[i] = "{" -> <<"\\", "}">>
      [] OTHER -> <<v[i]>>])

(* strings.ReplaceAll, of characters none of which another one brings in.   *)
escapePropValue(v) ==
  FlattenSeq([i \in DOMAIN v |->
    CASE v[i] = "\\" -> <<"\\", "\\">>
      [] v[i] = "{" -> <<"\\", "}">>
      [] v[i] = "/" -> <<"\\", "/">>
      [] OTHER -> <<v[i]>>])
escapeVariantValue(v) ==
  FlattenSeq([i \in DOMAIN v |->
    IF v[i] \in {"\\", "}"} THEN <<"\\", v[i]>> ELSE <<v[i]>>])

StepString(s) ==
  (IF s.type = "index" THEN <<"*">> ELSE escapePropValue(s.value))
    \o (IF s.variant = <<>> THEN <<>> ELSE <<"{">> \o escapeVariantValue(s.variant) \o <<"}">>)

String(a) ==
  FlattenSeq([i \in DOMAIN a |->
    IF i = 1 THEN StepString(a[i]) ELSE <<"/">> \o StepString(a[i])])

-------------------------------------------------------------------------------
(* The empty text is the root address.                                      *)
Start(text, from) ==
  /\ input = text /\ origin = from
  /\ next = 1 /\ addr = <<>> /\ inVariant = FALSE
  /\ stepValue = <<>> /\ stepVariant = <<>>
  /\ result = IF text = <<>> THEN "ok" ELSE "reading"

Init ==
  \/ \E text \in Written : Start(text, NoAddr)
  \/ \E a \in Printed : Start(String(a), a)

(* A printed form of what was parsed is parsed in its turn.                 *)
Reprint ==
  /\ result = "ok" /\ origin = NoAddr
  /\ origin' = addr /\ input' = String(addr)
  /\ next' = 1 /\ addr' = <<>> /\ inVariant' = FALSE
  /\ stepValue' = <<>> /\ stepVariant' = <<>>
  /\ result' = IF addr = <<>> THEN "ok" ELSE "reading"

Char(i) == IF i <= Len(input) THEN input[i] ELSE EOF
tk == Char(next)
Reading == result = "reading"
Refuse == result' = "error" /\ UNCHANGED <<addr, inVariant, stepValue, stepVariant>>
Take(c) ==
  /\ IF inVariant THEN stepVariant' = Append(stepVariant, c) /\ UNCHANGED stepValue
                  ELSE stepValue' = Append(stepValue, c) /\ UNCHANGED stepVariant
  /\ UNCHANGED addr

(* A delimiter or the end closes the step, unless a variant is open: then   *)
(* it is part of it, and at the end the step is not kept.                   *)
Delimiter ==
  LET step == IF stepValue = <<"*">>
                THEN [type |-> "index", value |-> <<>>, variant |-> stepVariant]
                ELSE [type |-> "prop", value |-> stepValue, variant |-> stepVariant]
  IN
  /\ Reading /\ tk \in {"/", EOF}
  /\ next' = next + 1
  /\ IF ~inVariant /\ stepValue = <<>> /\ stepVariant = <<>>
       THEN Refuse
       ELSE /\ IF inVariant
                 THEN Take(tk)
                 ELSE addr' = Append(addr, step) /\ stepValue' = <<>> /\ stepVariant' = <<>>
            /\ result' = IF tk = EOF THEN "ok" ELSE "reading"
            /\ UNCHANGED inVariant
  /\ UNCHANGED <<input, origin>>

Escape ==
  /\ Reading /\ tk = "\\"
  /\ next' = next + 2
  /\ IF Char(next + 1) \in Special
       THEN Take(Char(next + 1)) /\ UNCHANGED <<inVariant, result>>
       ELSE Refuse
  /\ UNCHANGED <<input, origin>>

OpenVariant ==
  /\ Reading /\ tk = "{"
  /\ next' = next + 1
  /\ stepVariant' = IF inVariant THEN Append(stepVariant, tk) ELSE stepVariant
  /\ inVariant' = TRUE
  /\ UNCHANGED <<input, origin, addr, stepValue, result>>

(* Variant: an empty variant is not refused.                                *)
CloseVariantEmpty ==
  /\ Reading /\ tk = "}"
  /\ next' = next + 1
  /\ IF ~inVariant
       THEN Take(tk) /\ UNCHANGED <<inVariant, result>>
     ELSE IF Char(next + 1) \notin {"/", EOF}
       THEN Refuse
     ELSE inVariant' = FALSE /\ UNCHANGED <<addr, stepValue, stepVariant, result>>
  /\ UNCHANGED <<input, origin>>

CloseVariant ==
  /\ Reading /\ tk = "}"
  /\ next' = next + 1
  /\ IF ~inVariant
       THEN Take(tk) /\ UNCHANGED <<inVariant, result>>
     ELSE IF Char(next + 1) \notin {"/", EOF} \/ stepVariant = <<>>
       THEN Refuse
     ELSE inVariant' = FALSE /\ UNCHANGED <<addr, stepValue, stepVariant, result>>
  /\ UNCHANGED <<input, origin>>

Other ==
  /\ Reading /\ tk \notin Special \cup {EOF}
  /\ next' = next + 1
  /\ Take(tk)
  /\ UNCHANGED <<input, origin, inVariant, result>>

Next == Reprint \/ Delimiter \/ Escape \/ OpenVariant \/ CloseVariant \/ Other
Spec == Init /\ [][Next]_vars

-------------------------------------------------------------------------------
(* An address comes back from its printed form, unless a property in it is  *)
(* named "*", has a brace "{" in its name (its escape is the one of "}",    *)
(* property_addr.go:53), or has no name and no variant.                     *)
Kept(s) ==
  s.type = "prop" =>
    /\ s.value # <<"*">> /\ "{" \notin Range(s.value)
    /\ s.value # <<>> \/ s.variant # <<>>

RoundTrip ==
  origin # NoAddr /\ ~Reading =>
    ((result = "ok" /\ addr = origin) <=> \A i \in DOMAIN origin : Kept(origin[i]))

(* A written address means what it says: without escapes it prints as it    *)
(* was written.  Only a variant that is not closed is dropped, with the     *)
(* name before it and without an error (property_addr.go:131).              *)
WrittenIsKept ==
  result = "ok" /\ origin = NoAddr /\ "\\" \notin Range(input) =>
    (String(addr) = input <=> ~inVariant)
===============================================================================
