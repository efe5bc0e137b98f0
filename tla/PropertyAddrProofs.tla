-------------------------- MODULE PropertyAddrProofs --------------------------
(***************************************************************************)
(* Proofs about addresses and their text, for any characters, addresses of  *)
(* any length and texts of any length.                                      *)
(***************************************************************************)
EXTENDS PropertyAddr, Minima, SequenceTheorems

-------------------------------------------------------------------------------
(* Texts put together from pieces.                                          *)

(* The recursive function in FlattenSeq.                                    *)
Joins(ss, f) == f = [i \in 1..Len(ss) |-> IF i = 1 THEN ss[i] ELSE f[i - 1] \o ss[i]]

LEMMA JoinsExists == ASSUME NEW S, NEW ss \in Seq(S) PROVE \E f : Joins(ss, f)
<1>. DEFINE Part(n, f) == f = [i \in 1..n |-> IF i = 1 THEN ss[i] ELSE f[i - 1] \o ss[i]]
            Bad == {n \in Nat : ~ \E f : Part(n, f)}
<1>1. SUFFICES ASSUME Bad # {} PROVE FALSE
  <2>1. Len(ss) \in Nat
    OBVIOUS
  <2>. QED
    BY <2>1 DEF Joins
<1>2. PICK n \in Bad : \A k \in Bad : n <= k
  BY <1>1, LeastNatural
<1>3. n # 0
  <2>1. Part(0, [i \in 1..0 |-> ss])
    OBVIOUS
  <2>. QED
    BY <2>1
<1>4. PICK f : Part(n - 1, f)
  <2>0. n \in Nat
    OBVIOUS
  <2>1. n - 1 \in Nat /\ n - 1 \notin Bad
    <3>. HIDE DEF Bad
    <3>. QED
      BY <1>2, <1>3, <2>0
  <2>. QED
    BY <2>1
<1>. DEFINE g == [i \in 1..n |-> IF i < n THEN f[i] ELSE IF i = 1 THEN ss[i] ELSE f[i - 1] \o ss[i]]
<1>5. n \in Nat /\ n > 0
  BY <1>2, <1>3
<1>6. \A i \in 1..(n - 1) : f[i] = IF i = 1 THEN ss[i] ELSE f[i - 1] \o ss[i]
  BY <1>4, <1>5
<1>7. \A i \in 1..n : g[i] = IF i = 1 THEN ss[i] ELSE g[i - 1] \o ss[i]
  BY <1>5, <1>6
<1>8. Part(n, g)
  BY <1>7
<1>. QED
  BY <1>2, <1>8

LEMMA FlattenJoins ==
  ASSUME NEW S, NEW ss \in Seq(S), ss # <<>>
  PROVE  \E f : Joins(ss, f) /\ FlattenSeq(ss) = f[Len(ss)]
<1>. DEFINE F == CHOOSE f : Joins(ss, f)
<1>1. Joins(ss, F)
  BY JoinsExists
<1>2. FlattenSeq(ss) = F[Len(ss)]
  BY DEF FlattenSeq, Joins
<1>. QED
  BY <1>1, <1>2

LEMMA JoinsAgree ==
  ASSUME NEW S, NEW ss \in Seq(Seq(S)), NEW f, Joins(ss, f),
         NEW n \in 1..Len(ss), NEW g, Joins(SubSeq(ss, 1, n), g)
  PROVE  \A k \in 1..n : g[k] = f[k] /\ f[k] \in Seq(S)
<1>. DEFINE Bad == {k \in 1..n : ~(g[k] = f[k] /\ f[k] \in Seq(S))}
            cut == SubSeq(ss, 1, n)
<1>1. SUFFICES ASSUME Bad # {} PROVE FALSE
  OBVIOUS
<1>2. PICK k \in Bad : \A j \in Bad : k <= j
  <2>1. Bad \in SUBSET Nat
    OBVIOUS
  <2>. HIDE DEF Bad
  <2>. QED
    BY <1>1, <2>1, LeastNatural
<1>3. Len(cut) = n /\ \A i \in 1..n : cut[i] = ss[i]
  OBVIOUS
<1>. HIDE DEF cut
<1>0. k \in 1..n /\ k \in 1..Len(ss) /\ Len(ss) \in Nat
  OBVIOUS
<1>4. /\ f[k] = IF k = 1 THEN ss[k] ELSE f[k - 1] \o ss[k]
      /\ g[k] = IF k = 1 THEN ss[k] ELSE g[k - 1] \o ss[k]
  <2>1. f[k] = IF k = 1 THEN ss[k] ELSE f[k - 1] \o ss[k]
    BY <1>0 DEF Joins
  <2>2. g[k] = IF k = 1 THEN cut[k] ELSE g[k - 1] \o cut[k]
    <3>1. Joins(cut, g)
      BY DEF cut
    <3>. QED
      BY <1>0, <1>3, <3>1 DEF Joins
  <2>. QED
    BY <1>0, <1>3, <2>1, <2>2
<1>5. CASE k = 1
  BY <1>4, <1>5
<1>6. CASE k > 1
  <2>1. g[k - 1] = f[k - 1] /\ f[k - 1] \in Seq(S)
    BY <1>0, <1>2, <1>6
  <2>2. ss[k] \in Seq(S)
    BY <1>0
  <2>. HIDE DEF Bad
  <2>0. k # 1
    BY <1>0, <1>6
  <2>3. f[k] = f[k - 1] \o ss[k] /\ g[k] = f[k - 1] \o ss[k]
    BY <1>4, <2>0, <2>1, Zenon
  <2>4. f[k] \in Seq(S) /\ g[k] = f[k]
    BY <2>1, <2>2, <2>3
  <2>. QED
    BY <2>4 DEF Bad
<1>. QED
  BY <1>5, <1>6

LEMMA FlattenUpTo ==
  ASSUME NEW S, NEW ss \in Seq(Seq(S)), NEW f, Joins(ss, f), NEW n \in 1..Len(ss)
  PROVE  FlattenSeq(SubSeq(ss, 1, n)) = f[n] /\ f[n] \in Seq(S)
<1>. DEFINE cut == SubSeq(ss, 1, n)
<1>1. cut \in Seq(Seq(S)) /\ Len(cut) = n /\ cut # <<>>
  <2>1. \A i \in 1..n : ss[i] \in Seq(S)
    OBVIOUS
  <2>2. cut \in Seq(Seq(S)) /\ Len(cut) = n
    BY <2>1, SubSeqProperties
  <2>3. n >= 1
    OBVIOUS
  <2>. HIDE DEF cut
  <2>. QED
    BY <2>2, <2>3, EmptySeq
<1>. HIDE DEF cut
<1>2. PICK g : Joins(cut, g) /\ FlattenSeq(cut) = g[Len(cut)]
  BY <1>1, FlattenJoins
<1>3. \A k \in 1..n : g[k] = f[k] /\ f[k] \in Seq(S)
  BY <1>2, JoinsAgree DEF cut
<1>. QED
  BY <1>1, <1>2, <1>3 DEF cut

(* What FlattenSeq computes, piece by piece. *)
LEMMA FlattenEmpty == FlattenSeq(<<>>) = <<>>
  BY DEF FlattenSeq

LEMMA FlattenType == ASSUME NEW S, NEW ss \in Seq(Seq(S)) PROVE FlattenSeq(ss) \in Seq(S)
<1>1. CASE ss = <<>>
  <2>1. <<>> \in Seq(S)
    OBVIOUS
  <2>. QED
    BY <1>1, <2>1, FlattenEmpty
<1>2. CASE ss # <<>>
  <2>1. PICK f : Joins(ss, f)
    BY JoinsExists
  <2>2. Len(ss) \in 1..Len(ss) /\ SubSeq(ss, 1, Len(ss)) = ss
    BY <1>2
  <2>3. FlattenSeq(SubSeq(ss, 1, Len(ss))) \in Seq(S)
    BY <2>1, <2>2, FlattenUpTo
  <2>. QED
    BY <2>2, <2>3
<1>. QED
  BY <1>1, <1>2

LEMMA FlattenAppend ==
  ASSUME NEW S, NEW ss \in Seq(Seq(S)), NEW t \in Seq(S)
  PROVE  FlattenSeq(Append(ss, t)) = FlattenSeq(ss) \o t
<1>. DEFINE tt == Append(ss, t)
            n == Len(ss)
<1>1. tt \in Seq(Seq(S)) /\ Len(tt) = n + 1 /\ n \in Nat /\ tt[n + 1] = t
      /\ SubSeq(tt, 1, n + 1) = tt /\ SubSeq(tt, 1, n) = ss
  OBVIOUS
<1>. HIDE DEF tt
<1>2. PICK f : Joins(tt, f)
  BY <1>1, JoinsExists
<1>3. FlattenSeq(tt) = f[n + 1]
  <2>1. n + 1 \in 1..Len(tt)
    BY <1>1
  <2>2. FlattenSeq(SubSeq(tt, 1, n + 1)) = f[n + 1]
    BY <1>1, <1>2, <2>1, FlattenUpTo
  <2>. QED
    BY <1>1, <2>2
<1>4. f[n + 1] = IF n + 1 = 1 THEN t ELSE f[n] \o t
  <2>1. n + 1 \in 1..Len(tt) /\ (n + 1) - 1 = n
    BY <1>1
  <2>2. f[n + 1] = IF n + 1 = 1 THEN tt[n + 1] ELSE f[(n + 1) - 1] \o tt[n + 1]
    BY <1>2, <2>1 DEF Joins
  <2>. QED
    BY <1>1, <2>1, <2>2
<1>5. CASE n = 0
  <2>1. ss = <<>>
    BY <1>5
  <2>. QED
    BY <1>3, <1>4, <1>5, <2>1, FlattenEmpty DEF tt
<1>6. CASE n > 0
  <2>1. FlattenSeq(ss) = f[n]
    <3>1. n \in 1..Len(tt)
      BY <1>1, <1>6
    <3>2. FlattenSeq(SubSeq(tt, 1, n)) = f[n]
      BY <1>1, <1>2, <3>1, FlattenUpTo
    <3>. QED
      BY <1>1, <3>2
  <2>. QED
    BY <1>1, <1>3, <1>4, <1>6, <2>1 DEF tt
<1>. QED
  BY <1>1, <1>5, <1>6

-------------------------------------------------------------------------------
(* What String prints, one character and one step after the other.          *)

PropChar(c) ==
  CASE c = "\\" -> <<"\\", "\\">>
    [] c = "{" -> <<"\\", "}">>
    [] c = "/" -> <<"\\", "/">>
    [] OTHER -> <<c>>
VariantChar(c) == IF c \in {"\\", "}"} THEN <<"\\", c>> ELSE <<c>>

Open == "{"
Close == "}"
NotInValue == {"\\", "/", "{"}     \* escaped in a name
NotInVariant == {"\\", "}"}        \* escaped in a variant

(* What is printed before the step that follows address a.                  *)
Lead(a) == IF a = <<>> THEN <<>> ELSE String(a) \o <<"/">>

LEMMA SeqFromPieces ==
  ASSUME NEW S, NEW T, NEW v \in Seq(S), NEW ss, DOMAIN ss = DOMAIN v,
         ss = [i \in DOMAIN v |-> ss[i]], \A i \in DOMAIN v : ss[i] \in T
  PROVE  ss \in Seq(T) /\ Len(ss) = Len(v)
<1>1. DOMAIN v = 1..Len(v) /\ Len(v) \in Nat
  OBVIOUS
<1>2. ss \in [1..Len(v) -> T]
  BY <1>1
<1>. QED
  BY <1>1, <1>2

LEMMA CharTypes ==
  /\ {"/", "\\", "{", "}", "*"} \subseteq Characters
  /\ \A c \in Characters : PropChar(c) \in Text /\ VariantChar(c) \in Text /\ c # EOF
  /\ <<>> \in Text /\ \A c \in Characters : <<c>> \in Text
  /\ \A s, t \in Text : s \o t \in Text
<1>1. {"/", "\\", "{", "}", "*"} \subseteq Characters /\ \A c \in Characters : c # EOF
  BY CharactersAssumption DEF Special
<1>2. \A c, d \in Characters : <<c>> \in Text /\ <<c, d>> \in Text
  BY DEF Text
<1>3. \A c \in Characters : PropChar(c) \in Text /\ VariantChar(c) \in Text
  BY <1>1, <1>2 DEF PropChar, VariantChar
<1>4. <<>> \in Text /\ \A s, t \in Text : s \o t \in Text
  BY DEF Text
<1>. QED
  BY <1>1, <1>2, <1>3, <1>4

LEMMA CharForms ==
  /\ PropChar("\\") = <<"\\", "\\">> /\ PropChar("/") = <<"\\", "/">>
  /\ PropChar(Open) = <<"\\", Close>> /\ \A c : c \notin NotInValue => PropChar(c) = <<c>>
  /\ \A c \in NotInVariant : VariantChar(c) = <<"\\", c>>
  /\ \A c : c \notin NotInVariant => VariantChar(c) = <<c>>
<1>1. PropChar("\\") = <<"\\", "\\">>
  BY Zenon DEF PropChar
<1>2. PropChar("/") = <<"\\", "/">>
  BY Zenon DEF PropChar
<1>3. PropChar(Open) = <<"\\", Close>>
  BY Zenon DEF PropChar, Open, Close
<1>4. \A c : c \notin NotInValue => PropChar(c) = <<c>>
  BY Zenon DEF PropChar, NotInValue
<1>5. \A c \in NotInVariant : VariantChar(c) = <<"\\", c>>
  BY Zenon DEF VariantChar, NotInVariant
<1>6. \A c : c \notin NotInVariant => VariantChar(c) = <<c>>
  BY Zenon DEF VariantChar, NotInVariant
<1>. QED
  BY <1>1, <1>2, <1>3, <1>4, <1>5, <1>6

LEMMA CharKinds ==
  /\ Special = {"/", "\\", Open, Close} /\ Special \cup {"*"} \subseteq Characters
  /\ NotInValue = {"\\", "/", Open} /\ NotInVariant = {"\\", Close}
  /\ Open # Close /\ Open \notin {"/", "\\", "*", EOF} /\ Close \notin {"/", "\\", "*", EOF}
<1>1. Special = {"/", "\\", Open, Close}
  BY Zenon DEF Special, Open, Close
<1>2. NotInValue = {"\\", "/", Open} /\ NotInVariant = {"\\", Close}
  BY Zenon DEF NotInValue, NotInVariant, Open, Close
<1>3. Open # Close /\ Open \notin {"/", "\\", "*", EOF} /\ Close \notin {"/", "\\", "*", EOF}
  BY Zenon DEF Open, Close, EOF
<1>. QED
  BY <1>1, <1>2, <1>3, CharactersAssumption

LEMMA EscapeProp ==
  /\ escapePropValue(<<>>) = <<>>
  /\ \A v \in Text : escapePropValue(v) \in Text
  /\ \A v \in Text, c \in Characters :
       escapePropValue(Append(v, c)) = escapePropValue(v) \o PropChar(c)
<1>. DEFINE pieces(v) == [i \in DOMAIN v |-> PropChar(v[i])]
<1>1. \A v : escapePropValue(v) = FlattenSeq(pieces(v))
  BY DEF escapePropValue, PropChar
<1>2. ASSUME NEW v \in Text PROVE pieces(v) \in Seq(Text)
  <2>1. v \in Seq(Characters)
    BY DEF Text
  <2>2. ASSUME NEW i \in DOMAIN v PROVE pieces(v)[i] \in Text
    <3>1. v[i] \in Characters
      BY <2>1
    <3>2. pieces(v)[i] = PropChar(v[i])
      OBVIOUS
    <3>. HIDE DEF pieces
    <3>. QED
      BY <3>1, <3>2, CharTypes
  <2>. DEFINE ps == pieces(v)
  <2>3. DOMAIN ps = DOMAIN v /\ ps = [i \in DOMAIN v |-> ps[i]]
    OBVIOUS
  <2>4. ps \in Seq(Text)
    <3>. HIDE DEF ps
    <3>1. \A i \in DOMAIN v : ps[i] \in Text
      BY <2>2 DEF ps
    <3>. QED
      BY <2>1, <2>3, <3>1, SeqFromPieces
  <2>. QED
    BY <2>4
<1>3. pieces(<<>>) = <<>>
  OBVIOUS
<1>4. ASSUME NEW v \in Text, NEW c \in Characters
      PROVE  pieces(Append(v, c)) = Append(pieces(v), PropChar(c))
  BY DEF Text
<1>. HIDE DEF pieces
<1>. QED
  BY <1>1, <1>2, <1>3, <1>4, CharTypes, FlattenEmpty, FlattenType, FlattenAppend DEF Text

LEMMA EscapeVariant ==
  /\ escapeVariantValue(<<>>) = <<>>
  /\ \A v \in Text : escapeVariantValue(v) \in Text
  /\ \A v \in Text, c \in Characters :
       escapeVariantValue(Append(v, c)) = escapeVariantValue(v) \o VariantChar(c)
<1>. DEFINE pieces(v) == [i \in DOMAIN v |-> VariantChar(v[i])]
<1>1. \A v : escapeVariantValue(v) = FlattenSeq(pieces(v))
  BY DEF escapeVariantValue, VariantChar
<1>2. ASSUME NEW v \in Text PROVE pieces(v) \in Seq(Text)
  <2>1. v \in Seq(Characters)
    BY DEF Text
  <2>2. ASSUME NEW i \in DOMAIN v PROVE pieces(v)[i] \in Text
    <3>1. v[i] \in Characters
      BY <2>1
    <3>2. pieces(v)[i] = VariantChar(v[i])
      OBVIOUS
    <3>. HIDE DEF pieces
    <3>. QED
      BY <3>1, <3>2, CharTypes
  <2>. DEFINE ps == pieces(v)
  <2>3. DOMAIN ps = DOMAIN v /\ ps = [i \in DOMAIN v |-> ps[i]]
    OBVIOUS
  <2>4. ps \in Seq(Text)
    <3>. HIDE DEF ps
    <3>1. \A i \in DOMAIN v : ps[i] \in Text
      BY <2>2 DEF ps
    <3>. QED
      BY <2>1, <2>3, <3>1, SeqFromPieces
  <2>. QED
    BY <2>4
<1>3. pieces(<<>>) = <<>>
  OBVIOUS
<1>4. ASSUME NEW v \in Text, NEW c \in Characters
      PROVE  pieces(Append(v, c)) = Append(pieces(v), VariantChar(c))
  BY DEF Text
<1>. HIDE DEF pieces
<1>. QED
  BY <1>1, <1>2, <1>3, <1>4, CharTypes, FlattenEmpty, FlattenType, FlattenAppend DEF Text

LEMMA StepIsText == \A s \in AddrSteps : StepString(s) \in Text
  BY CharTypes, EscapeProp, EscapeVariant DEF AddrSteps, StepString

LEMMA StringPieces ==
  ASSUME NEW a \in Seq(AddrSteps)
  PROVE  [i \in DOMAIN a |-> IF i = 1 THEN StepString(a[i]) ELSE <<"/">> \o StepString(a[i])]
           \in Seq(Text)
<1>. DEFINE pieces == [i \in DOMAIN a |-> IF i = 1 THEN StepString(a[i]) ELSE <<"/">> \o StepString(a[i])]
<1>1. \A i \in DOMAIN a : pieces[i] \in Text
  <2>1. \A i \in DOMAIN a : StepString(a[i]) \in Text
    BY StepIsText
  <2>2. <<"/">> \in Text
    BY CharTypes
  <2>. QED
    BY <2>1, <2>2, CharTypes
<1>2. pieces \in Seq(Text)
  <2>1. DOMAIN pieces = DOMAIN a /\ pieces = [i \in DOMAIN a |-> pieces[i]]
    OBVIOUS
  <2>. HIDE DEF pieces
  <2>. QED
    BY <1>1, <2>1, SeqFromPieces
<1>. QED
  BY <1>2

LEMMA StringType == \A a \in Seq(AddrSteps) : String(a) \in Text /\ Lead(a) \in Text
<1>. SUFFICES ASSUME NEW a \in Seq(AddrSteps) PROVE String(a) \in Text
  BY CharTypes DEF Lead
<1>. DEFINE pieces == [i \in DOMAIN a |-> IF i = 1 THEN StepString(a[i]) ELSE <<"/">> \o StepString(a[i])]
<1>2. pieces \in Seq(Text)
  BY StringPieces
<1>3. String(a) = FlattenSeq(pieces)
  BY DEF String
<1>. HIDE DEF pieces
<1>. QED
  BY <1>2, <1>3, FlattenType DEF Text

LEMMA StringAppend ==
  /\ String(<<>>) = <<>>
  /\ \A a \in Seq(AddrSteps), s \in AddrSteps : String(Append(a, s)) = Lead(a) \o StepString(s)
<1>. DEFINE pieces(a) == [i \in DOMAIN a |-> IF i = 1 THEN StepString(a[i])
                                              ELSE <<"/">> \o StepString(a[i])]
<1>1. \A a : String(a) = FlattenSeq(pieces(a))
  BY DEF String
<1>2. pieces(<<>>) = <<>>
  OBVIOUS
<1>3. ASSUME NEW a \in Seq(AddrSteps), NEW s \in AddrSteps
      PROVE  String(Append(a, s)) = Lead(a) \o StepString(s)
  <2>. DEFINE new == IF a = <<>> THEN StepString(s) ELSE <<"/">> \o StepString(s)
  <2>1. StepString(s) \in Text /\ new \in Text
    BY CharTypes, StepIsText
  <2>2. pieces(Append(a, s)) = Append(pieces(a), new)
    OBVIOUS
  <2>4. pieces(a) \in Seq(Text)
    BY StringPieces
  <2>. HIDE DEF pieces, new
  <2>5. FlattenSeq(Append(pieces(a), new)) = FlattenSeq(pieces(a)) \o new
    BY <2>1, <2>4, FlattenAppend DEF Text
  <2>6. String(Append(a, s)) = String(a) \o new
    BY <1>1, <2>2, <2>5
  <2>7. CASE a = <<>>
    <3>1. String(a) = <<>>
      BY <1>1, <1>2, <2>7, FlattenEmpty
    <3>. QED
      BY <2>1, <2>6, <2>7, <3>1 DEF Lead, new, Text
  <2>8. CASE a # <<>>
    <3>1. String(a) \in Text /\ <<"/">> \in Text
      BY StringType, CharTypes
    <3>. QED
      BY <2>1, <2>6, <2>8, <3>1, ConcatAssociative DEF Lead, new, Text
  <2>. QED
    BY <2>7, <2>8
<1>. HIDE DEF pieces
<1>. QED
  BY <1>1, <1>2, <1>3, FlattenEmpty

-------------------------------------------------------------------------------
(* The invariants.                                                          *)

TypeInv ==
  /\ input \in Text /\ origin \in Seq(AddrSteps) \cup {NoAddr}
  /\ next \in Nat /\ next > 0
  /\ addr \in Seq(AddrSteps) /\ inVariant \in BOOLEAN
  /\ stepValue \in Text /\ (Reading => stepVariant \in Text)
  /\ result \in {"reading", "ok", "error"}

(* A written address without escapes: while it is read, what was read is    *)
(* the printed form of the steps so far, of the name and of the variant.    *)
Braces ==
  IF inVariant THEN <<Open>> \o stepVariant
  ELSE IF stepVariant = <<>> THEN <<>> ELSE <<Open>> \o (stepVariant \o <<Close>>)
Shown == Lead(addr) \o (stepValue \o Braces)
Without(t, cs) == \A i \in DOMAIN t : t[i] \notin cs

WrittenReading ==
  /\ Len(Shown) = next - 1 /\ \E rest \in Text : input = Shown \o rest
  /\ Without(stepValue, NotInValue) /\ Without(stepVariant, NotInVariant)
  /\ ~inVariant /\ stepVariant # <<>> => tk \in {"/", EOF}

WrittenInv ==
  origin = NoAddr /\ Without(input, {"\\"}) =>
    /\ Reading => WrittenReading
    /\ result = "ok" => (String(addr) = input <=> ~inVariant)

(* A printed address: while it is read, the steps so far are those of       *)
(* origin, the braces in their names turned, and what was read is their     *)
(* printed form and a part of the one of the step that follows.             *)
NormChar(c) == IF c = Open THEN Close ELSE c
Norm(w) == [i \in DOMAIN w |-> NormChar(w[i])]
ValueText(s) == IF s.type = "index" THEN <<"*">> ELSE s.value
NormStep(s) ==
  IF Norm(ValueText(s)) = <<"*">>
    THEN [type |-> "index", value |-> <<>>, variant |-> s.variant]
    ELSE [type |-> "prop", value |-> Norm(ValueText(s)), variant |-> s.variant]
NoText(s) == ValueText(s) = <<>> /\ s.variant = <<>>

First(t, k) == SubSeq(t, 1, k)
Before == Lead(First(origin, Len(addr)))
Now == origin[Len(addr) + 1]

Opened(before, value, variant) == before \o (value \o (<<Open>> \o variant))

InValue(k) ==
  /\ ~inVariant /\ stepVariant = <<>> /\ stepValue = Norm(First(ValueText(Now), k))
  /\ next - 1 = Len(Before \o escapePropValue(First(ValueText(Now), k)))
InBraces(m) ==
  /\ inVariant /\ stepVariant = First(Now.variant, m) /\ stepValue = Norm(ValueText(Now))
  /\ Now.variant # <<>>
  /\ next - 1 = Len(Opened(Before, escapePropValue(ValueText(Now)),
                           escapeVariantValue(First(Now.variant, m))))
AtEnd ==
  /\ ~inVariant /\ stepVariant = Now.variant /\ stepValue = Norm(ValueText(Now))
  /\ next - 1 = Len(Before \o StepString(Now))

ReadSoFar ==
  \A i \in 1..Len(addr) : addr[i] = NormStep(origin[i]) /\ ~NoText(origin[i])

PrintedInv ==
  origin # NoAddr =>
    /\ input = String(origin)
    /\ Reading =>
         /\ Len(addr) < Len(origin) /\ ReadSoFar
         /\ \/ \E k \in 0..Len(ValueText(Now)) : InValue(k)
            \/ \E m \in 0..Len(Now.variant) : InBraces(m)
            \/ AtEnd
    /\ result = "ok" =>
         \/ Len(addr) = Len(origin) /\ ReadSoFar
         \/ addr = <<>> /\ Len(origin) = 1 /\ NoText(origin[1])
    /\ result = "error" => \E i \in DOMAIN origin : NoText(origin[i])

-------------------------------------------------------------------------------
(* Types.                                                                   *)

LEMMA CharIsRead ==
  ASSUME input \in Text, NEW i \in Nat, i > 0
  PROVE  /\ Char(i) # EOF => Char(i) \in Characters /\ i <= Len(input) /\ Char(i) = input[i]
         /\ i <= Len(input) => Char(i) # EOF
<1>1. input \in Seq(Characters)
  BY DEF Text
<1>2. i <= Len(input) => input[i] \in Characters
  BY <1>1
<1>. QED
  BY <1>2, CharTypes DEF Char

LEMMA AppendText == \A s \in Text, c \in Characters : Append(s, c) \in Text
  BY DEF Text

LEMMA StartTyped ==
  ASSUME NEW text \in Text, NEW from \in Seq(AddrSteps) \cup {NoAddr}, Start(text, from)
  PROVE  TypeInv
<1>1. stepValue \in Text /\ stepVariant \in Text
  BY CharTypes DEF Start
<1>2. addr \in Seq(AddrSteps)
  BY DEF Start
<1>3. input \in Text /\ origin \in Seq(AddrSteps) \cup {NoAddr} /\ next = 1
      /\ result \in {"reading", "ok"}
  BY DEF Start
<1>4. inVariant \in BOOLEAN
  BY Zenon DEF Start
<1>5. next \in Nat /\ next > 0 /\ result \in {"reading", "ok", "error"}
  BY <1>3
<1>. QED
  BY <1>1, <1>2, <1>3, <1>4, <1>5, Zenon DEF TypeInv

LEMMA TypeInit == Init => TypeInv
<1>1. ASSUME NEW text \in Written, Start(text, NoAddr) PROVE TypeInv
  BY <1>1, TextsAssumption, StartTyped
<1>2. ASSUME NEW a \in Printed, Start(String(a), a) PROVE TypeInv
  <2>1. a \in Seq(AddrSteps) /\ String(a) \in Text
    BY TextsAssumption, StringType
  <2>. QED
    BY <1>2, <2>1, StartTyped
<1>. QED
  BY <1>1, <1>2 DEF Init

LEMMA TypeStep == TypeInv /\ [Next]_vars => TypeInv'
<1>. SUFFICES ASSUME TypeInv, [Next]_vars PROVE TypeInv'
  OBVIOUS
<1>. USE DEF TypeInv
<1>1. CASE Reprint
  <2>1. String(addr) \in Text
    BY StringType
  <2>2. stepValue' \in Text /\ stepVariant' \in Text
    BY <1>1, CharTypes DEF Reprint
  <2>3. addr' \in Seq(AddrSteps)
    BY <1>1 DEF Reprint
  <2>4. input' \in Text /\ origin' \in Seq(AddrSteps) /\ next' = 1
        /\ result' \in {"reading", "ok"}
    BY <1>1, <2>1 DEF Reprint
  <2>5. inVariant' \in BOOLEAN
    BY <1>1, Zenon DEF Reprint
  <2>. QED
    BY <2>2, <2>3, <2>4, <2>5
<1>. DEFINE Good == tk \in Characters
<1>2. tk # EOF => Good
  BY CharIsRead DEF tk
<1>3. ASSUME Reading, NEW c \in Characters
      PROVE  Take(c) => stepValue' \in Text /\ stepVariant' \in Text /\ addr' = addr
  BY <1>3, AppendText DEF Take
<1>4. CASE Delimiter
  <2>0. Reading /\ tk \in {"/", EOF} /\ next' = next + 1 /\ UNCHANGED <<input, origin>>
    BY <1>4 DEF Delimiter
  <2>1. CASE ~inVariant /\ stepValue = <<>> /\ stepVariant = <<>>
    BY <1>4, <2>0, <2>1 DEF Delimiter, Refuse, Reading
  <2>2. CASE inVariant
    <3>1. Take(tk) /\ result' = (IF tk = EOF THEN "ok" ELSE "reading") /\ UNCHANGED inVariant
      BY <1>4, <2>2 DEF Delimiter
    <3>2. stepValue' = stepValue /\ addr' = addr
      BY <2>2, <3>1 DEF Take
    <3>3. CASE tk = EOF
      BY <2>0, <3>1, <3>2, <3>3 DEF Reading
    <3>4. CASE tk # EOF
      BY <1>2, <1>3, <2>0, <3>1, <3>2, <3>4 DEF Reading
    <3>. QED
      BY <3>3, <3>4
  <2>3. CASE ~inVariant /\ ~(stepValue = <<>> /\ stepVariant = <<>>)
    <3>. DEFINE step == IF stepValue = <<"*">>
                          THEN [type |-> "index", value |-> <<>>, variant |-> stepVariant]
                          ELSE [type |-> "prop", value |-> stepValue, variant |-> stepVariant]
    <3>1. step \in AddrSteps
      BY <2>0, CharTypes DEF AddrSteps
    <3>2. addr' = Append(addr, step) /\ stepValue' = <<>> /\ stepVariant' = <<>>
          /\ result' = (IF tk = EOF THEN "ok" ELSE "reading") /\ UNCHANGED inVariant
      BY <1>4, <2>3 DEF Delimiter
    <3>. HIDE DEF step
    <3>3. addr' \in Seq(AddrSteps)
      BY <3>1, <3>2
    <3>. QED
      <4>1. stepValue' \in Text /\ stepVariant' \in Text
        BY <3>2, CharTypes
      <4>2. result' \in {"reading", "ok"}
        BY <3>2
      <4>. QED
        BY <2>0, <3>2, <3>3, <4>1, <4>2
  <2>. QED
    BY <2>1, <2>2, <2>3
<1>5. CASE Escape
  <2>1. Reading /\ next' = next + 2 /\ UNCHANGED <<input, origin>>
    BY <1>5 DEF Escape
  <2>2. CASE Char(next + 1) \in Special
    <3>1. Char(next + 1) \in Characters
      BY <2>2, CharactersAssumption
    <3>2. Take(Char(next + 1)) /\ UNCHANGED <<inVariant, result>>
      BY <1>5, <2>2 DEF Escape
    <3>. QED
      BY <1>3, <2>1, <3>1, <3>2 DEF Reading
  <2>3. CASE Char(next + 1) \notin Special
    <3>1. result' = "error" /\ UNCHANGED <<addr, inVariant, stepValue, stepVariant>>
      BY <1>5, <2>3 DEF Escape, Refuse
    <3>. QED
      BY <2>1, <3>1 DEF Reading
  <2>. QED
    BY <2>2, <2>3
<1>6. CASE OpenVariant
  <2>1. tk \in Characters
    BY <1>6, CharactersAssumption DEF OpenVariant, Special
  <2>2. stepVariant' \in Text
    BY <1>6, <2>1, AppendText DEF OpenVariant
  <2>. QED
    <3>1. inVariant' \in BOOLEAN
      BY <1>6, Zenon DEF OpenVariant
    <3>2. next' = next + 1 /\ UNCHANGED <<input, origin, addr, stepValue, result>>
      BY <1>6 DEF OpenVariant
    <3>. QED
      BY <2>2, <3>1, <3>2
<1>7. CASE CloseVariant
  <2>1. tk \in Characters /\ Reading /\ next' = next + 1 /\ UNCHANGED <<input, origin>>
    BY <1>7, CharactersAssumption DEF CloseVariant, Special
  <2>2. CASE ~inVariant
    <3>1. Take(tk) /\ UNCHANGED <<inVariant, result>>
      BY <1>7, <2>2 DEF CloseVariant
    <3>2. stepValue' \in Text /\ stepVariant' \in Text /\ addr' = addr
      BY <1>3, <2>1, <3>1
    <3>. QED
      BY <2>1, <3>1, <3>2 DEF Reading
  <2>3. CASE inVariant
    <3>1. /\ inVariant' \in BOOLEAN /\ result' \in {"error", result}
          /\ UNCHANGED <<addr, stepValue, stepVariant>>
      BY <1>7, <2>3 DEF CloseVariant, Refuse
    <3>. QED
      BY <2>1, <3>1 DEF Reading
  <2>. QED
    BY <2>2, <2>3
<1>8. CASE Other
  <2>1. tk \in Characters /\ Reading
    BY <1>2, <1>8 DEF Other
  <2>2. Take(tk) /\ next' = next + 1 /\ UNCHANGED <<input, origin, inVariant, result>>
    BY <1>8 DEF Other
  <2>3. stepValue' \in Text /\ stepVariant' \in Text /\ addr' = addr
    BY <1>3, <2>1, <2>2
  <2>. QED
    BY <2>1, <2>2, <2>3 DEF Reading
<1>9. CASE UNCHANGED vars
  BY <1>9 DEF vars, Reading
<1>. QED
  BY <1>1, <1>4, <1>5, <1>6, <1>7, <1>8, <1>9 DEF Next

-------------------------------------------------------------------------------
(* Written addresses.                                                       *)

LEMMA FirstChars ==
  ASSUME NEW S, NEW v \in Seq(S)
  PROVE  /\ First(v, 0) = <<>> /\ First(v, Len(v)) = v
         /\ \A k \in 0..Len(v) : First(v, k) \in Seq(S) /\ Len(First(v, k)) = k
         /\ \A k \in 1..Len(v) : v[k] \in S /\ First(v, k) = Append(First(v, k - 1), v[k])
<1>1. First(v, 0) = <<>> /\ First(v, Len(v)) = v
  BY DEF First
<1>2. \A k \in 0..Len(v) : First(v, k) \in Seq(S) /\ Len(First(v, k)) = k
  BY DEF First
<1>3. ASSUME NEW k \in 1..Len(v) PROVE v[k] \in S /\ First(v, k) = Append(First(v, k - 1), v[k])
  BY DEF First
<1>. QED
  BY <1>1, <1>2, <1>3

LEMMA Joining ==
  ASSUME NEW S, NEW x \in Seq(S), NEW y \in Seq(S)
  PROVE  /\ x \o <<>> = x /\ <<>> \o x = x
         /\ \A z \in Seq(S) : (x \o y) \o z = x \o (y \o z)
         /\ \A c \in S : Append(x \o y, c) = x \o Append(y, c) /\ Append(x, c) = x \o <<c>>
<1>1. x \o <<>> = x /\ <<>> \o x = x
  OBVIOUS
<1>2. \A z \in Seq(S) : (x \o y) \o z = x \o (y \o z)
  BY ConcatAssociative
<1>3. ASSUME NEW c \in S PROVE Append(x \o y, c) = x \o Append(y, c) /\ Append(x, c) = x \o <<c>>
  OBVIOUS
<1>. QED
  BY <1>1, <1>2, <1>3

(* Without escapes a name and a variant are printed as they are.            *)
LEMMA GrowsAlike ==
  ASSUME NEW v \in Seq(Characters), NEW F, F[0] = <<>>,
         \A k \in 1..Len(v) : F[k] = F[k - 1] \o <<v[k]>>
  PROVE  F[Len(v)] = v
<1>. DEFINE Bad == {k \in 0..Len(v) : F[k] # First(v, k)}
<1>0. Len(v) \in Nat
  OBVIOUS
<1>1. Bad \in SUBSET Nat
  BY <1>0
<1>2. SUFFICES ASSUME Bad # {} PROVE FALSE
  <2>1. Len(v) \notin Bad /\ First(v, Len(v)) = v /\ Len(v) \in 0..Len(v)
    BY <1>0, <1>2, FirstChars
  <2>. QED
    BY <2>1
<1>3. PICK k \in Bad : \A j \in Bad : k <= j
  <2>. HIDE DEF Bad
  <2>. QED
    BY <1>1, <1>2, LeastNatural
<1>4. k # 0 /\ k \in 0..Len(v)
  BY FirstChars
<1>5. k \in 1..Len(v) /\ k - 1 \in 0..Len(v)
  BY <1>0, <1>4
<1>6. k - 1 \notin Bad
  <2>. HIDE DEF Bad
  <2>. QED
    BY <1>0, <1>3, <1>5
<1>7. First(v, k) = Append(First(v, k - 1), v[k]) /\ v[k] \in Characters
      /\ First(v, k - 1) \in Seq(Characters)
  BY <1>0, <1>5, FirstChars
<1>8. F[k] = First(v, k - 1) \o <<v[k]>>
  BY <1>5, <1>6
<1>9. First(v, k - 1) \o <<v[k]>> = First(v, k)
  BY <1>7, AppendIsConcat
<1>. QED
  BY <1>8, <1>9

LEMMA PlainValue ==
  ASSUME NEW v \in Text, Without(v, NotInValue)
  PROVE  escapePropValue(v) = v
<1>. DEFINE F == [k \in 0..Len(v) |-> escapePropValue(First(v, k))]
<1>0. v \in Seq(Characters)
  BY DEF Text
<1>1. Len(v) \in Nat /\ DOMAIN v = 1..Len(v)
  BY <1>0
<1>2. F[0] = <<>> /\ F[Len(v)] = escapePropValue(v)
  BY <1>0, <1>1, FirstChars, EscapeProp
<1>3. ASSUME NEW k \in 1..Len(v) PROVE F[k] = F[k - 1] \o <<v[k]>>
  <2>1. k \in 0..Len(v) /\ k - 1 \in 0..Len(v)
    BY <1>1
  <2>2. First(v, k) = Append(First(v, k - 1), v[k]) /\ v[k] \in Characters /\ First(v, k - 1) \in Text
    BY <1>0, <1>1, <2>1, FirstChars DEF Text
  <2>3. PropChar(v[k]) = <<v[k]>>
    BY <1>1, CharForms DEF Without
  <2>. QED
    BY <2>1, <2>2, <2>3, EscapeProp
<1>. HIDE DEF F
<1>. QED
  BY <1>0, <1>2, <1>3, GrowsAlike

LEMMA PlainVariant ==
  ASSUME NEW v \in Text, Without(v, NotInVariant)
  PROVE  escapeVariantValue(v) = v
<1>. DEFINE F == [k \in 0..Len(v) |-> escapeVariantValue(First(v, k))]
<1>0. v \in Seq(Characters)
  BY DEF Text
<1>1. Len(v) \in Nat /\ DOMAIN v = 1..Len(v)
  BY <1>0
<1>2. F[0] = <<>> /\ F[Len(v)] = escapeVariantValue(v)
  BY <1>0, <1>1, FirstChars, EscapeVariant
<1>3. ASSUME NEW k \in 1..Len(v) PROVE F[k] = F[k - 1] \o <<v[k]>>
  <2>1. k \in 0..Len(v) /\ k - 1 \in 0..Len(v)
    BY <1>1
  <2>2. First(v, k) = Append(First(v, k - 1), v[k]) /\ v[k] \in Characters /\ First(v, k - 1) \in Text
    BY <1>0, <1>1, <2>1, FirstChars DEF Text
  <2>3. VariantChar(v[k]) = <<v[k]>>
    BY <1>1, CharForms DEF Without
  <2>. QED
    BY <2>1, <2>2, <2>3, EscapeVariant
<1>. HIDE DEF F
<1>. QED
  BY <1>0, <1>2, <1>3, GrowsAlike

LEMMA ShownIsText == ASSUME TypeInv, Reading PROVE Braces \in Text /\ Shown \in Text
<1>1. Braces \in Text
  <2>1. stepVariant \in Text /\ <<Open>> \in Text /\ <<Close>> \in Text /\ <<>> \in Text
    BY CharTypes, CharKinds DEF TypeInv
  <2>2. <<Open>> \o stepVariant \in Text /\ <<Open>> \o (stepVariant \o <<Close>>) \in Text
    BY <2>1, CharTypes
  <2>. QED
    BY <2>1, <2>2 DEF Braces
<1>. QED
  BY <1>1, CharTypes, StringType DEF Shown, TypeInv

LEMMA AppendPlain ==
  ASSUME NEW t \in Text, NEW c \in Characters, NEW cs, Without(t, cs), c \notin cs
  PROVE  Without(Append(t, c), cs)
  BY DEF Without, Text

(* One more character was read.                                             *)
LEMMA OneMore ==
  ASSUME NEW shown \in Text, NEW rest \in Text, input \in Text,
         input = shown \o rest, next \in Nat, Len(shown) = next - 1
  PROVE  /\ tk = EOF => input = shown
         /\ tk # EOF => /\ tk \in Characters /\ Len(Append(shown, tk)) = next
                        /\ \E more \in Text : input = Append(shown, tk) \o more
<1>0. next > 0 /\ Len(shown) \in Nat /\ Len(rest) \in Nat
  BY DEF Text
<1>1. Len(input) = Len(shown) + Len(rest)
  BY DEF Text
<1>2. CASE rest = <<>>
  <2>1. input = shown /\ Len(input) = next - 1
    BY <1>2 DEF Text
  <2>. QED
    BY <1>0, <2>1 DEF tk, Char
<1>3. CASE rest # <<>>
  <2>1. Len(rest) > 0
    BY <1>3 DEF Text
  <2>2. tk = input[next] /\ tk \in Characters /\ tk # EOF
    BY <1>0, <1>1, <2>1, CharIsRead DEF tk
  <2>3. tk = rest[1]
    BY <1>0, <1>1, <2>1, <2>2 DEF Text
  <2>4. Tail(rest) \in Text /\ rest = <<tk>> \o Tail(rest)
    BY <2>1, <2>2, <2>3 DEF Text
  <2>. DEFINE more == Tail(rest)
  <2>. HIDE DEF more
  <2>5. input = Append(shown, tk) \o more
    <3>1. input = shown \o (<<tk>> \o more)
      BY <2>4 DEF more
    <3>2. <<tk>> \in Seq(Characters) /\ more \in Seq(Characters) /\ shown \in Seq(Characters)
      BY <2>2, <2>4 DEF more, Text
    <3>3. shown \o (<<tk>> \o more) = (shown \o <<tk>>) \o more
      BY <3>2, ConcatAssociative
    <3>4. Append(shown, tk) = shown \o <<tk>>
      BY <2>2, <3>2, AppendIsConcat
    <3>. QED
      BY <3>1, <3>3, <3>4
  <2>6. Len(Append(shown, tk)) = next
    BY <1>0, <2>2 DEF Text
  <2>. QED
    BY <2>2, <2>4, <2>5, <2>6 DEF more
<1>. QED
  BY <1>2, <1>3

(* The actions whose guards are about braces.                               *)
LEMMA OpenDoes ==
  OpenVariant =>
    /\ Reading /\ tk = Open /\ next' = next + 1 /\ inVariant'
    /\ UNCHANGED <<input, origin, addr, stepValue, result>>
    /\ inVariant => stepVariant' = Append(stepVariant, tk)
    /\ ~inVariant => stepVariant' = stepVariant
  BY Zenon DEF OpenVariant, Open

LEMMA CloseDoes ==
  CloseVariant =>
    /\ Reading /\ tk = Close /\ next' = next + 1 /\ UNCHANGED <<input, origin>>
    /\ ~inVariant => Take(tk) /\ UNCHANGED <<inVariant, result>>
    /\ inVariant /\ (Char(next + 1) \notin {"/", EOF} \/ stepVariant = <<>>) => Refuse
    /\ inVariant /\ Char(next + 1) \in {"/", EOF} /\ stepVariant # <<>> =>
         ~inVariant' /\ UNCHANGED <<addr, stepValue, stepVariant, result>>
<1>. SUFFICES ASSUME CloseVariant PROVE
    /\ Reading /\ tk = Close /\ next' = next + 1 /\ UNCHANGED <<input, origin>>
    /\ ~inVariant => Take(tk) /\ UNCHANGED <<inVariant, result>>
    /\ inVariant /\ (Char(next + 1) \notin {"/", EOF} \/ stepVariant = <<>>) => Refuse
    /\ inVariant /\ Char(next + 1) \in {"/", EOF} /\ stepVariant # <<>> =>
         ~inVariant' /\ UNCHANGED <<addr, stepValue, stepVariant, result>>
  OBVIOUS
<1>1. Reading /\ tk = Close /\ next' = next + 1 /\ UNCHANGED <<input, origin>>
  BY Zenon DEF CloseVariant, Close
<1>2. ~inVariant => Take(tk) /\ UNCHANGED <<inVariant, result>>
  BY Zenon DEF CloseVariant
<1>3. inVariant /\ (Char(next + 1) \notin {"/", EOF} \/ stepVariant = <<>>) => Refuse
  BY Zenon DEF CloseVariant
<1>4. inVariant /\ Char(next + 1) \in {"/", EOF} /\ stepVariant # <<>> =>
        ~inVariant' /\ UNCHANGED <<addr, stepValue, stepVariant, result>>
  BY Zenon DEF CloseVariant
<1>. QED
  BY <1>1, <1>2, <1>3, <1>4

LEMMA StepForm ==
  \A s : StepString(s) =
    (IF s.type = "index" THEN <<"*">> ELSE escapePropValue(s.value))
      \o (IF s.variant = <<>> THEN <<>> ELSE (<<Open>> \o escapeVariantValue(s.variant)) \o <<Close>>)
  BY Zenon DEF StepString, Open, Close

StepRead ==
  IF stepValue = <<"*">>
    THEN [type |-> "index", value |-> <<>>, variant |-> stepVariant]
    ELSE [type |-> "prop", value |-> stepValue, variant |-> stepVariant]

LEMMA DelimiterDoes ==
  Delimiter =>
    /\ Reading /\ tk \in {"/", EOF} /\ next' = next + 1 /\ UNCHANGED <<input, origin>>
    /\ ~inVariant /\ stepValue = <<>> /\ stepVariant = <<>> => Refuse
    /\ inVariant => Take(tk)
    /\ ~inVariant /\ ~(stepValue = <<>> /\ stepVariant = <<>>) =>
         addr' = Append(addr, StepRead) /\ stepValue' = <<>> /\ stepVariant' = <<>>
    /\ inVariant \/ ~(stepValue = <<>> /\ stepVariant = <<>>) =>
         result' = (IF tk = EOF THEN "ok" ELSE "reading") /\ UNCHANGED inVariant
  BY Zenon DEF Delimiter, StepRead

(* A step without escapes is printed as it was read.                        *)
LEMMA StepAsRead ==
  ASSUME TypeInv, Reading, ~inVariant,
         Without(stepValue, NotInValue), Without(stepVariant, NotInVariant)
  PROVE  StepRead \in AddrSteps /\ StepString(StepRead) = stepValue \o Braces
<1>0. stepValue \in Text /\ stepVariant \in Text /\ <<>> \in Text
  BY CharTypes DEF TypeInv
<1>1. StepRead \in AddrSteps
  BY <1>0 DEF StepRead, AddrSteps
<1>2. escapePropValue(stepValue) = stepValue /\ escapeVariantValue(stepVariant) = stepVariant
  BY <1>0, PlainValue, PlainVariant
<1>3. StepRead.variant = stepVariant
      /\ (IF StepRead.type = "index" THEN <<"*">> ELSE escapePropValue(StepRead.value)) = stepValue
  BY <1>2 DEF StepRead
<1>4. (<<Open>> \o stepVariant) \o <<Close>> = <<Open>> \o (stepVariant \o <<Close>>)
  <2>1. <<Open>> \in Seq(Characters) /\ <<Close>> \in Seq(Characters)
    BY CharKinds
  <2>. QED
    BY <1>0, <2>1, ConcatAssociative DEF Text
<1>5. StepString(StepRead) = (IF StepRead.type = "index" THEN <<"*">> ELSE escapePropValue(StepRead.value))
      \o (IF StepRead.variant = <<>> THEN <<>> ELSE (<<Open>> \o escapeVariantValue(StepRead.variant)) \o <<Close>>)
  BY StepForm, Zenon
<1>6. Braces = IF stepVariant = <<>> THEN <<>> ELSE <<Open>> \o (stepVariant \o <<Close>>)
  BY DEF Braces
<1>. QED
  BY <1>1, <1>2, <1>3, <1>4, <1>5, <1>6, Zenon

LEMMA ShownAfter ==
  \A a, v, b \in Text, c \in Characters :
    /\ Append(a \o (v \o b), c) = a \o (v \o Append(b, c))
    /\ b = <<>> => Append(a \o (v \o b), c) = a \o (Append(v, c) \o b)
    /\ Append(a \o (v \o b), c) = (a \o (v \o b)) \o <<c>>
<1>. SUFFICES ASSUME NEW a \in Text, NEW v \in Text, NEW b \in Text, NEW c \in Characters
              PROVE  /\ Append(a \o (v \o b), c) = a \o (v \o Append(b, c))
                     /\ b = <<>> => Append(a \o (v \o b), c) = a \o (Append(v, c) \o b)
                     /\ Append(a \o (v \o b), c) = (a \o (v \o b)) \o <<c>>
  OBVIOUS
<1>1. a \in Seq(Characters) /\ v \in Seq(Characters) /\ b \in Seq(Characters)
      /\ v \o b \in Seq(Characters) /\ <<>> \in Seq(Characters)
  BY CharTypes DEF Text
<1>2. Append(a \o (v \o b), c) = a \o Append(v \o b, c) /\ Append(v \o b, c) = v \o Append(b, c)
  <2>1. ASSUME NEW x \in Seq(Characters), NEW y \in Seq(Characters)
        PROVE  Append(x \o y, c) = x \o Append(y, c)
    OBVIOUS
  <2>. QED
    BY <1>1, <2>1
<1>3. b = <<>> => v \o b = v /\ Append(v, c) \o b = Append(v, c)
  BY <1>1
<1>4. a \o (v \o b) \in Seq(Characters)
  BY <1>1
<1>. QED
  BY <1>1, <1>2, <1>3, <1>4, AppendIsConcat

LEMMA ShownByOne ==
  ASSUME TypeInv, Reading, NEW c \in Characters
  PROVE  /\ Append(Shown, c) = Lead(addr) \o (stepValue \o Append(Braces, c))
         /\ Braces = <<>> => Append(Shown, c) = Lead(addr) \o (Append(stepValue, c) \o Braces)
<1>. DEFINE a == Lead(addr)
            v == stepValue
            b == Braces
<1>1. a \in Text /\ v \in Text /\ b \in Text
  BY ShownIsText, StringType DEF TypeInv
<1>2. Shown = a \o (v \o b)
  BY DEF Shown
<1>. HIDE DEF a, v, b
<1>3. Append(a \o (v \o b), c) = a \o (v \o Append(b, c))
      /\ (b = <<>> => Append(a \o (v \o b), c) = a \o (Append(v, c) \o b))
  BY <1>1, ShownAfter
<1>4. Append(Shown, c) = a \o (v \o Append(b, c))
      /\ (b = <<>> => Append(Shown, c) = a \o (Append(v, c) \o b))
  BY <1>2, <1>3
<1>. QED
  BY <1>4 DEF a, v, b

(* One character that is no escape goes to the name or to the variant.      *)
LEMMA WrittenTakes ==
  ASSUME TypeInv, WrittenReading, Reading, UNCHANGED <<input, origin, inVariant, result>>,
         next' = next + 1, tk # EOF, Take(tk), \/ tk \in {"/", Open} /\ inVariant
                                               \/ tk = Close /\ ~inVariant
                                               \/ tk \notin Special
  PROVE  WrittenReading'
<1>0. next \in Nat /\ Shown \in Text /\ Braces \in Text /\ stepValue \in Text /\ stepVariant \in Text
      /\ Lead(addr) \in Text /\ input \in Text /\ <<>> \in Text
  BY ShownIsText, StringType, CharTypes DEF TypeInv
<1>1. /\ tk \in Characters /\ Len(Append(Shown, tk)) = next
      /\ \E more \in Text : input = Append(Shown, tk) \o more
  BY <1>0, OneMore DEF WrittenReading
<1>2. SUFFICES /\ Shown' = Append(Shown, tk)
               /\ Without(stepValue', NotInValue) /\ Without(stepVariant', NotInVariant)
               /\ ~inVariant => stepVariant' = <<>>
  <2>1. Len(Shown') = next' - 1 /\ \E rest \in Text : input' = Shown' \o rest
    BY <1>0, <1>1, <1>2
  <2>2. ~inVariant' /\ stepVariant' # <<>> => tk' \in {"/", EOF}
    BY <1>2
  <2>. QED
    BY <1>2, <2>1, <2>2, Zenon DEF WrittenReading
<1>3. CASE inVariant
  <2>1. stepVariant' = Append(stepVariant, tk) /\ UNCHANGED <<stepValue, addr>>
    BY <1>3 DEF Take
  <2>2. Without(stepVariant', NotInVariant)
    BY <1>0, <1>1, <1>3, <2>1, AppendPlain, CharKinds DEF WrittenReading
  <2>3. Braces = <<Open>> \o stepVariant /\ Braces' = <<Open>> \o stepVariant'
    BY <1>3 DEF Braces
  <2>4. Braces' = Append(Braces, tk)
    <3>1. <<Open>> \in Seq(Characters) /\ stepVariant \in Seq(Characters)
      BY <1>0, CharKinds DEF Text
    <3>. QED
      BY <1>1, <2>1, <2>3, <3>1, Joining
  <2>5. Shown' = Append(Shown, tk)
    <3>1. Append(Shown, tk) = Lead(addr) \o (stepValue \o Append(Braces, tk))
      BY <1>1, ShownByOne
    <3>2. Shown' = Lead(addr) \o (stepValue \o Append(Braces, tk))
      BY <2>1, <2>4 DEF Shown
    <3>. QED
      BY <3>1, <3>2
  <2>. QED
    BY <1>3, <2>1, <2>2, <2>5 DEF WrittenReading
<1>4. CASE ~inVariant
  <2>0. stepVariant = <<>>
    BY <1>4, CharKinds DEF WrittenReading
  <2>1. stepValue' = Append(stepValue, tk) /\ UNCHANGED <<stepVariant, addr>>
    BY <1>4 DEF Take
  <2>2. Without(stepValue', NotInValue)
    BY <1>0, <1>1, <1>4, <2>1, AppendPlain, CharKinds DEF WrittenReading
  <2>3. Braces = <<>> /\ Braces' = <<>>
    BY <1>4, <2>0, <2>1 DEF Braces
  <2>4. Shown' = Append(Shown, tk)
    <3>1. Append(Shown, tk) = Lead(addr) \o (Append(stepValue, tk) \o Braces)
      BY <1>1, <2>3, ShownByOne
    <3>. QED
      BY <2>1, <2>3, <3>1 DEF Shown
  <2>. QED
    BY <2>0, <2>1, <2>2, <2>4 DEF WrittenReading
<1>. QED
  BY <1>3, <1>4

(* The end of a step, and the end.                                          *)
LEMMA WrittenDelimits ==
  ASSUME TypeInv, WrittenReading, Delimiter
  PROVE  (Reading => WrittenReading)' /\ (result = "ok" => (String(addr) = input <=> ~inVariant))'
<1>0. Reading /\ tk \in {"/", EOF} /\ next' = next + 1 /\ UNCHANGED <<input, origin>>
  BY DelimiterDoes
<1>1. next \in Nat /\ Shown \in Text /\ Braces \in Text /\ stepValue \in Text /\ stepVariant \in Text
      /\ Lead(addr) \in Text /\ input \in Text /\ <<>> \in Text /\ <<Open>> \in Text
      /\ addr \in Seq(AddrSteps) /\ String(addr) \in Text
  BY <1>0, ShownIsText, StringType, CharTypes, CharKinds DEF TypeInv
<1>2. /\ tk = EOF => input = Shown
      /\ tk # EOF => /\ tk \in Characters /\ Len(Append(Shown, tk)) = next
                     /\ \E more \in Text : input = Append(Shown, tk) \o more
  BY <1>1, OneMore DEF WrittenReading
<1>3. CASE ~inVariant /\ stepValue = <<>> /\ stepVariant = <<>>
  BY <1>3, DelimiterDoes DEF Refuse, Reading
<1>4. CASE inVariant
  <2>1. Take(tk) /\ inVariant' /\ result' = IF tk = EOF THEN "ok" ELSE "reading"
    BY <1>4, DelimiterDoes
  <2>2. CASE tk = EOF
    <3>1. addr' = addr /\ input' = input /\ ~Reading'
      BY <1>0, <1>4, <2>1, <2>2 DEF Take, Reading
    <3>2. input = Lead(addr) \o (stepValue \o (<<Open>> \o stepVariant))
      BY <1>2, <1>4, <2>2 DEF Shown, Braces
    <3>3. Len(input) > Len(Lead(addr))
      BY <1>1, <3>2 DEF Text
    <3>4. Len(Lead(addr)) >= Len(String(addr))
      <4>1. CASE addr = <<>>
        BY <4>1, StringAppend DEF Lead
      <4>2. CASE addr # <<>>
        BY <1>1, <4>2 DEF Lead, Text
      <4>. QED
        BY <4>1, <4>2
    <3>5. String(addr) # input
      BY <1>1, <3>3, <3>4 DEF Text
    <3>. QED
      BY <2>1, <3>1, <3>5
  <2>3. CASE tk = "/"
    <3>1. UNCHANGED <<inVariant, result>> /\ tk # EOF
      BY <1>0, <1>4, <2>1, <2>3 DEF Reading, EOF
    <3>2. WrittenReading'
      BY <1>0, <1>4, <2>1, <2>3, <3>1, WrittenTakes
    <3>. QED
      BY <1>0, <3>1, <3>2 DEF Reading
  <2>. QED
    BY <1>0, <2>2, <2>3
<1>5. CASE ~inVariant /\ ~(stepValue = <<>> /\ stepVariant = <<>>)
  <2>1. /\ addr' = Append(addr, StepRead) /\ stepValue' = <<>> /\ stepVariant' = <<>>
        /\ result' = (IF tk = EOF THEN "ok" ELSE "reading") /\ UNCHANGED inVariant
    BY <1>5, DelimiterDoes
  <2>2. StepRead \in AddrSteps /\ StepString(StepRead) = stepValue \o Braces
    BY <1>0, <1>5, StepAsRead DEF WrittenReading
  <2>3. String(addr') = Shown /\ addr' # <<>>
    <3>1. String(Append(addr, StepRead)) = Lead(addr) \o StepString(StepRead)
      BY <1>1, <2>2, StringAppend
    <3>2. Append(addr, StepRead) # <<>>
      BY <1>1, <2>2, AppendProperties
    <3>. QED
      BY <2>1, <2>2, <3>1, <3>2 DEF Shown
  <2>4. CASE tk = EOF
    <3>1. ~Reading' /\ ~inVariant' /\ input' = String(addr')
      BY <1>0, <1>2, <1>5, <2>1, <2>3, <2>4 DEF Reading
    <3>. QED
      BY <3>1
  <2>5. CASE tk = "/"
    <3>0. tk # EOF
      BY <2>5 DEF EOF
    <3>1. Braces' = <<>>
      BY <1>5, <2>1 DEF Braces
    <3>2. Lead(addr') = Shown \o <<"/">>
      BY <2>3 DEF Lead
    <3>3. Shown' = Append(Shown, tk)
      <4>1. Shown \in Seq(Characters) /\ <<"/">> \in Seq(Characters)
        BY <1>1, CharTypes DEF Text
      <4>2. Shown \o <<"/">> = Append(Shown, tk) /\ Shown \o <<"/">> \in Seq(Characters)
        BY <1>2, <2>5, <3>0, <4>1, AppendIsConcat
      <4>3. Shown' = Lead(addr') \o (<<>> \o <<>>)
        BY <2>1, <3>1 DEF Shown
      <4>. QED
        BY <3>2, <4>2, <4>3
    <3>4. Without(<<>>, NotInValue) /\ Without(<<>>, NotInVariant)
      BY DEF Without
    <3>5. Len(Shown') = next' - 1 /\ \E rest \in Text : input' = Shown' \o rest
      <4>1. PICK more \in Text : input = Append(Shown, tk) \o more
        BY <1>2, <3>0
      <4>2. input' = Shown' \o more
        BY <1>0, <3>3, <4>1
      <4>3. Len(Shown') = next /\ next' - 1 = next
        BY <1>0, <1>1, <1>2, <3>0, <3>3
      <4>. QED
        BY <4>2, <4>3
    <3>6. WrittenReading'
      BY <2>1, <3>4, <3>5 DEF WrittenReading
    <3>. QED
      BY <2>1, <2>5, <3>0, <3>6
  <2>. QED
    BY <1>0, <2>4, <2>5
<1>. QED
  BY <1>3, <1>4, <1>5

LEMMA WrittenStep == TypeInv /\ WrittenInv /\ [Next]_vars => WrittenInv'
<1>. SUFFICES ASSUME TypeInv, WrittenInv, [Next]_vars,
                     (origin = NoAddr)', Without(input, {"\\"})'
              PROVE  (Reading => WrittenReading)' /\ (result = "ok" => (String(addr) = input <=> ~inVariant))'
  BY DEF WrittenInv
<1>1. CASE Reprint
  BY <1>1, TextsAssumption DEF Reprint, TypeInv
<1>2. CASE UNCHANGED vars
  <2>1. origin = NoAddr /\ Without(input, {"\\"})
    BY <1>2 DEF vars
  <2>2. (Reading => WrittenReading) /\ (result = "ok" => (String(addr) = input <=> ~inVariant))
    BY <2>1 DEF WrittenInv
  <2>3. WrittenReading' = WrittenReading /\ Reading' = Reading
    BY <1>2 DEF vars, WrittenReading, Reading, Shown, Braces, tk, Char
  <2>. QED
    BY <1>2, <2>2, <2>3 DEF vars
<1>3. CASE Next /\ Reading /\ next' > next /\ UNCHANGED <<input, origin>> /\ ~Reprint
  <2>0. origin = NoAddr /\ Without(input, {"\\"}) /\ WrittenReading
    BY <1>3 DEF WrittenInv
  <2>1. tk # "\\" /\ next \in Nat /\ next > 0
    <3>1. input \in Text /\ next \in Nat /\ next > 0
      BY DEF TypeInv
    <3>2. tk # EOF => next \in DOMAIN input /\ tk = input[next]
      BY <3>1, CharIsRead DEF tk, Text
    <3>. QED
      BY <2>0, <3>1, <3>2 DEF Without, EOF
  <2>2. CASE Delimiter
    BY <2>0, <2>2, WrittenDelimits
  <2>3. CASE Escape
    BY <2>1, <2>3 DEF Escape
  <2>4. CASE OpenVariant
    <3>1. /\ tk = Open /\ next' = next + 1 /\ inVariant' /\ tk # EOF
          /\ UNCHANGED <<input, origin, addr, stepValue, result>>
      BY <2>4, OpenDoes, CharKinds
    <3>2. CASE inVariant
      <4>1. Take(tk) /\ inVariant' = inVariant
        BY <2>4, <3>1, <3>2, OpenDoes DEF Take
      <4>2. WrittenReading'
        BY <1>3, <2>0, <3>1, <3>2, <4>1, WrittenTakes
      <4>. QED
        BY <1>3, <3>1, <4>2 DEF Reading
    <3>3. CASE ~inVariant
      <4>1. stepVariant = <<>> /\ stepVariant' = <<>>
        BY <2>0, <2>4, <3>1, <3>3, OpenDoes, CharKinds DEF WrittenReading
      <4>2. Braces = <<>> /\ Braces' = <<tk>>
        <5>1. <<Open>> \o <<>> = <<Open>>
          OBVIOUS
        <5>2. Braces' = <<Open>> \o <<>>
          BY <3>1, <4>1 DEF Braces
        <5>. QED
          BY <3>1, <3>3, <4>1, <5>1, <5>2 DEF Braces
      <4>3. Shown \in Text /\ Lead(addr) \in Text /\ stepValue \in Text /\ <<>> \in Text
            /\ input \in Text
        BY <1>3, ShownIsText, StringType, CharTypes DEF TypeInv
      <4>4. /\ tk \in Characters /\ Len(Append(Shown, tk)) = next
            /\ \E more \in Text : input = Append(Shown, tk) \o more
        BY <2>0, <2>1, <3>1, <4>3, OneMore DEF WrittenReading
      <4>5. Shown' = Append(Shown, tk)
        <5>1. Append(<<>>, tk) = <<tk>>
          OBVIOUS
        <5>2. Append(Shown, tk) = Lead(addr) \o (stepValue \o Append(Braces, tk))
          BY <1>3, <4>4, ShownByOne
        <5>3. Shown' = Lead(addr) \o (stepValue \o Braces')
          BY <3>1 DEF Shown
        <5>. QED
          BY <4>2, <5>1, <5>2, <5>3
      <4>6. PICK more \in Text : input' = Shown' \o more
        BY <3>1, <4>4, <4>5
      <4>7. Len(Shown') = next' - 1
        BY <2>1, <3>1, <4>4, <4>5
      <4>8. Without(stepValue', NotInValue) /\ Without(stepVariant', NotInVariant)
        BY <2>0, <3>1, <4>1 DEF WrittenReading, Without
      <4>9. WrittenReading'
        BY <3>1, <4>6, <4>7, <4>8 DEF WrittenReading
      <4>. QED
        BY <1>3, <3>1, <4>9 DEF Reading
    <3>. QED
      BY <3>2, <3>3
  <2>5. CASE CloseVariant
    <3>1. tk = Close /\ next' = next + 1 /\ tk # EOF
      BY <2>5, CloseDoes, CharKinds
    <3>2. CASE ~inVariant
      <4>1. Take(tk) /\ UNCHANGED <<inVariant, result>>
        BY <2>5, <3>2, CloseDoes
      <4>2. WrittenReading'
        BY <1>3, <2>0, <3>1, <3>2, <4>1, WrittenTakes
      <4>. QED
        BY <1>3, <4>1, <4>2 DEF Reading
    <3>3. CASE inVariant /\ (Char(next + 1) \notin {"/", EOF} \/ stepVariant = <<>>)
      BY <2>5, <3>3, CloseDoes DEF Refuse, Reading
    <3>4. CASE inVariant /\ Char(next + 1) \in {"/", EOF} /\ stepVariant # <<>>
      <4>1. ~inVariant' /\ UNCHANGED <<addr, stepValue, stepVariant, result>>
        BY <2>5, <3>4, CloseDoes
      <4>2. Shown \in Text /\ Lead(addr) \in Text /\ stepValue \in Text /\ stepVariant \in Text
            /\ input \in Text /\ <<Open>> \in Text /\ Braces \in Text
        BY <1>3, ShownIsText, StringType, CharTypes, CharKinds DEF TypeInv
      <4>3. /\ tk \in Characters /\ Len(Append(Shown, tk)) = next
            /\ \E more \in Text : input = Append(Shown, tk) \o more
        BY <2>0, <2>1, <3>1, <4>2, OneMore DEF WrittenReading
      <4>4. Braces = <<Open>> \o stepVariant /\ Braces' = <<Open>> \o (stepVariant \o <<tk>>)
        BY <3>1, <3>4, <4>1 DEF Braces
      <4>5. Append(Braces, tk) = <<Open>> \o (stepVariant \o <<tk>>)
        <5>1. <<Open>> \in Seq(Characters) /\ stepVariant \in Seq(Characters)
          BY <4>2 DEF Text
        <5>. QED
          BY <4>3, <4>4, <5>1, Joining
      <4>6. Shown' = Append(Shown, tk)
        <5>1. Append(Shown, tk) = Lead(addr) \o (stepValue \o Append(Braces, tk))
          BY <1>3, <4>3, ShownByOne
        <5>2. Shown' = Lead(addr) \o (stepValue \o Braces')
          BY <4>1 DEF Shown
        <5>. QED
          BY <4>4, <4>5, <5>1, <5>2
      <4>7. PICK more \in Text : input' = Shown' \o more
        BY <1>3, <4>3, <4>6
      <4>8. Len(Shown') = next' - 1
        BY <2>1, <3>1, <4>3, <4>6
      <4>9. Without(stepValue', NotInValue) /\ Without(stepVariant', NotInVariant)
        BY <2>0, <4>1 DEF WrittenReading, Without
      <4>10. tk' \in {"/", EOF}
        BY <1>3, <3>1, <3>4 DEF tk, Char
      <4>11. WrittenReading'
        BY <4>7, <4>8, <4>9, <4>10 DEF WrittenReading
      <4>. QED
        BY <1>3, <4>1, <4>11 DEF Reading
    <3>. QED
      BY <3>2, <3>3, <3>4
  <2>6. CASE Other
    <3>1. tk \notin Special /\ tk # EOF /\ next' = next + 1 /\ Take(tk)
          /\ UNCHANGED <<input, origin, inVariant, result>>
      BY <2>6 DEF Other
    <3>2. WrittenReading'
      BY <1>3, <2>0, <3>1, WrittenTakes
    <3>. QED
      BY <1>3, <3>1, <3>2 DEF Reading
  <2>. QED
    BY <1>3, <2>2, <2>3, <2>4, <2>5, <2>6 DEF Next
<1>4. (Delimiter \/ Escape \/ OpenVariant \/ CloseVariant \/ Other) =>
        Reading /\ next' > next /\ UNCHANGED <<input, origin>>
  <2>0. next \in Nat
    BY DEF TypeInv
  <2>. QED
    BY <2>0, DelimiterDoes, OpenDoes, CloseDoes DEF Escape, Other
<1>. QED
  <2>1. Next \/ UNCHANGED vars
    OBVIOUS
  <2>2. CASE Next /\ ~Reprint
    BY <1>3, <1>4, <2>2 DEF Next
  <2>. QED
    BY <1>1, <1>2, <2>1, <2>2

LEMMA WrittenInit == Init => WrittenInv
<1>1. ASSUME NEW text \in Written, Start(text, NoAddr) PROVE WrittenInv
  <2>1. input \in Text
    BY <1>1, TextsAssumption DEF Start
  <2>2. String(<<>>) = <<>> /\ Lead(<<>>) = <<>> /\ <<>> \o (<<>> \o <<>>) = <<>> /\ Len(<<>>) = 0
    BY StringAppend DEF Lead
  <2>3. Braces = <<>>
    BY <1>1, Zenon DEF Start, Braces
  <2>4. Shown = <<>> /\ <<>> \o input = input
    BY <1>1, <2>1, <2>2, <2>3 DEF Start, Shown, Text
  <2>5. Without(<<>>, NotInValue) /\ Without(<<>>, NotInVariant)
    BY DEF Without
  <2>6. WrittenReading
    BY <1>1, <2>1, <2>2, <2>4, <2>5 DEF Start, WrittenReading
  <2>7. result = "ok" => String(addr) = input /\ ~inVariant
    BY <1>1, <2>2 DEF Start
  <2>. QED
    BY <2>6, <2>7 DEF WrittenInv
<1>2. ASSUME NEW a \in Printed, Start(String(a), a) PROVE WrittenInv
  BY <1>2, TextsAssumption DEF Start, WrittenInv
<1>. QED
  BY <1>1, <1>2 DEF Init

-------------------------------------------------------------------------------
(* Beginnings of texts.                                                     *)

StartsWith(t, s) == \E u \in Text : t = s \o u

LEMMA Beginnings ==
  /\ \A s \in Text : StartsWith(s, s)
  /\ \A s, u \in Text : StartsWith(s \o u, s)
  /\ \A r, s, t \in Text : StartsWith(t, s) /\ StartsWith(s, r) => StartsWith(t, r)
  /\ \A a, s, t \in Text : StartsWith(t, s) => StartsWith(a \o t, a \o s)
<1>1. ASSUME NEW s \in Text PROVE StartsWith(s, s)
  <2>1. s \in Seq(Characters)
    BY DEF Text
  <2>2. s \o <<>> = s
    BY <2>1
  <2>. QED
    BY <2>2, CharTypes DEF StartsWith
<1>2. ASSUME NEW r \in Text, NEW s \in Text, NEW t \in Text, StartsWith(t, s), StartsWith(s, r)
      PROVE  StartsWith(t, r)
  <2>1. PICK u \in Text : t = s \o u
    BY <1>2 DEF StartsWith
  <2>2. PICK w \in Text : s = r \o w
    BY <1>2 DEF StartsWith
  <2>3. t = r \o (w \o u)
    BY <2>1, <2>2, ConcatAssociative DEF Text
  <2>4. w \o u \in Text
    BY CharTypes
  <2>. QED
    BY <2>3, <2>4 DEF StartsWith
<1>3. ASSUME NEW a \in Text, NEW s \in Text, NEW t \in Text, StartsWith(t, s)
      PROVE  StartsWith(a \o t, a \o s)
  <2>1. PICK u \in Text : t = s \o u
    BY <1>3 DEF StartsWith
  <2>2. a \o t = (a \o s) \o u
    BY <2>1, ConcatAssociative DEF Text
  <2>. QED
    BY <2>2 DEF StartsWith
<1>4. \A s, u \in Text : StartsWith(s \o u, s)
  BY DEF StartsWith
<1>. QED
  BY <1>1, <1>2, <1>3, <1>4

(* A text that grows at its end keeps its beginnings.                       *)
LEMMA Growing ==
  ASSUME NEW n \in Nat, NEW G, \A k \in 0..n : G[k] \in Text,
         \A k \in 1..n : StartsWith(G[k], G[k - 1])
  PROVE  \A k \in 0..n : StartsWith(G[n], G[k])
<1>. DEFINE Bad == {d \in 0..n : ~StartsWith(G[n], G[n - d])}
<1>0. Bad \in SUBSET Nat
  OBVIOUS
<1>1. SUFFICES ASSUME Bad # {} PROVE FALSE
  <2>1. \A k \in 0..n : n - k \in 0..n /\ n - (n - k) = k
    OBVIOUS
  <2>. QED
    BY <1>1, <2>1
<1>2. PICK d \in Bad : \A e \in Bad : d <= e
  <2>. HIDE DEF Bad
  <2>. QED
    BY <1>0, <1>1, LeastNatural
<1>3. d \in 0..n /\ ~StartsWith(G[n], G[n - d])
  OBVIOUS
<1>4. d # 0
  <2>1. G[n] \in Text /\ n - 0 = n
    OBVIOUS
  <2>. QED
    BY <1>3, <2>1, Beginnings
<1>5. d - 1 \in 0..n /\ n - d \in 0..n /\ (n - d) + 1 \in 1..n /\ n - (d - 1) = (n - d) + 1
      /\ ((n - d) + 1) - 1 = n - d /\ n \in 0..n
  BY <1>3, <1>4
<1>6. StartsWith(G[n], G[n - (d - 1)])
  <2>1. d - 1 \notin Bad
    <3>. HIDE DEF Bad
    <3>. QED
      BY <1>2, <1>3, <1>5
  <2>. QED
    BY <1>5, <2>1
<1>7. StartsWith(G[(n - d) + 1], G[n - d])
  BY <1>5
<1>8. G[n] \in Text /\ G[(n - d) + 1] \in Text /\ G[n - d] \in Text
  <2>1. (n - d) + 1 \in 0..n
    BY <1>5
  <2>. QED
    BY <1>5, <2>1
<1>. QED
  BY <1>3, <1>5, <1>6, <1>7, <1>8, Beginnings

LEMMA ValueBeginning ==
  ASSUME NEW v \in Text, NEW k \in 1..Len(v)
  PROVE  /\ First(v, k - 1) \in Text /\ v[k] \in Characters /\ First(v, k) = Append(First(v, k - 1), v[k])
         /\ escapePropValue(First(v, k)) = escapePropValue(First(v, k - 1)) \o PropChar(v[k])
         /\ StartsWith(escapePropValue(v), escapePropValue(First(v, k)))
<1>. DEFINE G == [i \in 0..Len(v) |-> escapePropValue(First(v, i))]
<1>0. v \in Seq(Characters)
  BY DEF Text
<1>1. Len(v) \in Nat /\ k \in 0..Len(v) /\ Len(v) \in 0..Len(v)
  BY <1>0
<1>2. \A i \in 0..Len(v) : First(v, i) \in Text
  BY <1>0, FirstChars DEF Text
<1>3. \A i \in 0..Len(v) : G[i] \in Text
  BY <1>2, EscapeProp
<1>4. ASSUME NEW i \in 1..Len(v)
      PROVE  /\ First(v, i - 1) \in Text /\ v[i] \in Characters /\ First(v, i) = Append(First(v, i - 1), v[i])
             /\ escapePropValue(First(v, i)) = escapePropValue(First(v, i - 1)) \o PropChar(v[i])
  <2>1. i - 1 \in 0..Len(v)
    BY <1>1
  <2>2. v[i] \in Characters /\ First(v, i) = Append(First(v, i - 1), v[i])
    BY <1>0, FirstChars
  <2>3. First(v, i - 1) \in Text
    BY <1>2, <2>1
  <2>. QED
    BY <2>2, <2>3, EscapeProp
<1>5. ASSUME NEW i \in 1..Len(v) PROVE StartsWith(G[i], G[i - 1])
  <2>1. i \in 0..Len(v) /\ i - 1 \in 0..Len(v)
    BY <1>1
  <2>2. G[i] = G[i - 1] \o PropChar(v[i]) /\ PropChar(v[i]) \in Text
    BY <1>4, <2>1, CharTypes
  <2>. QED
    BY <2>2 DEF StartsWith
<1>6. StartsWith(G[Len(v)], G[k])
  <2>. HIDE DEF G
  <2>. QED
    BY <1>1, <1>3, <1>5, Growing
<1>7. G[Len(v)] = escapePropValue(v)
  BY <1>0, <1>1, FirstChars
<1>. QED
  BY <1>1, <1>4, <1>6, <1>7

LEMMA VariantBeginning ==
  ASSUME NEW v \in Text, NEW k \in 1..Len(v)
  PROVE  /\ First(v, k - 1) \in Text /\ v[k] \in Characters /\ First(v, k) = Append(First(v, k - 1), v[k])
         /\ escapeVariantValue(First(v, k)) = escapeVariantValue(First(v, k - 1)) \o VariantChar(v[k])
         /\ StartsWith(escapeVariantValue(v), escapeVariantValue(First(v, k)))
<1>. DEFINE G == [i \in 0..Len(v) |-> escapeVariantValue(First(v, i))]
<1>0. v \in Seq(Characters)
  BY DEF Text
<1>1. Len(v) \in Nat /\ k \in 0..Len(v) /\ Len(v) \in 0..Len(v)
  BY <1>0
<1>2. \A i \in 0..Len(v) : First(v, i) \in Text
  BY <1>0, FirstChars DEF Text
<1>3. \A i \in 0..Len(v) : G[i] \in Text
  BY <1>2, EscapeVariant
<1>4. ASSUME NEW i \in 1..Len(v)
      PROVE  /\ First(v, i - 1) \in Text /\ v[i] \in Characters /\ First(v, i) = Append(First(v, i - 1), v[i])
             /\ escapeVariantValue(First(v, i)) = escapeVariantValue(First(v, i - 1)) \o VariantChar(v[i])
  <2>1. i - 1 \in 0..Len(v)
    BY <1>1
  <2>2. v[i] \in Characters /\ First(v, i) = Append(First(v, i - 1), v[i])
    BY <1>0, FirstChars
  <2>3. First(v, i - 1) \in Text
    BY <1>2, <2>1
  <2>. QED
    BY <2>2, <2>3, EscapeVariant
<1>5. ASSUME NEW i \in 1..Len(v) PROVE StartsWith(G[i], G[i - 1])
  <2>1. i \in 0..Len(v) /\ i - 1 \in 0..Len(v)
    BY <1>1
  <2>2. G[i] = G[i - 1] \o VariantChar(v[i]) /\ VariantChar(v[i]) \in Text
    BY <1>4, <2>1, CharTypes
  <2>. QED
    BY <2>2 DEF StartsWith
<1>6. StartsWith(G[Len(v)], G[k])
  <2>. HIDE DEF G
  <2>. QED
    BY <1>1, <1>3, <1>5, Growing
<1>7. G[Len(v)] = escapeVariantValue(v)
  BY <1>0, <1>1, FirstChars
<1>. QED
  BY <1>1, <1>4, <1>6, <1>7

LEMMA AddrBeginning ==
  ASSUME NEW a \in Seq(AddrSteps), NEW k \in 1..Len(a)
  PROVE  /\ First(a, k - 1) \in Seq(AddrSteps) /\ a[k] \in AddrSteps
         /\ First(a, k) \in Seq(AddrSteps) /\ First(a, k) # <<>>
         /\ String(First(a, k)) = Lead(First(a, k - 1)) \o StepString(a[k])
         /\ Lead(First(a, k)) = (Lead(First(a, k - 1)) \o StepString(a[k])) \o <<"/">>
         /\ StartsWith(String(a), String(First(a, k)))
         /\ k < Len(a) => StartsWith(String(a), Lead(First(a, k)))
         /\ k = Len(a) => String(a) = Lead(First(a, k - 1)) \o StepString(a[k])
<1>. DEFINE G == [i \in 0..Len(a) |-> String(First(a, i))]
<1>1. Len(a) \in Nat /\ k \in 0..Len(a) /\ Len(a) \in 0..Len(a)
  OBVIOUS
<1>2. \A i \in 0..Len(a) : First(a, i) \in Seq(AddrSteps) /\ Len(First(a, i)) = i
  BY FirstChars
<1>3. \A i \in 0..Len(a) : G[i] \in Text /\ Lead(First(a, i)) \in Text
  BY <1>2, StringType
<1>4. ASSUME NEW i \in 1..Len(a)
      PROVE  /\ First(a, i - 1) \in Seq(AddrSteps) /\ a[i] \in AddrSteps
             /\ String(First(a, i)) = Lead(First(a, i - 1)) \o StepString(a[i])
             /\ StepString(a[i]) \in Text
  <2>1. i - 1 \in 0..Len(a)
    BY <1>1
  <2>2. a[i] \in AddrSteps /\ First(a, i) = Append(First(a, i - 1), a[i])
    BY FirstChars
  <2>3. First(a, i - 1) \in Seq(AddrSteps)
    BY <1>2, <2>1
  <2>. QED
    BY <2>2, <2>3, StringAppend, StepIsText
<1>5. ASSUME NEW i \in 1..Len(a)
      PROVE  StartsWith(String(First(a, i)), Lead(First(a, i - 1))) /\ StartsWith(G[i], G[i - 1])
  <2>1. i \in 0..Len(a) /\ i - 1 \in 0..Len(a)
    BY <1>1
  <2>2. StartsWith(String(First(a, i)), Lead(First(a, i - 1)))
    BY <1>4 DEF StartsWith
  <2>3. StartsWith(Lead(First(a, i - 1)), G[i - 1])
    <3>1. CASE First(a, i - 1) = <<>>
      <4>1. G[i - 1] = <<>> /\ Lead(First(a, i - 1)) = <<>>
        BY <2>1, <3>1, StringAppend DEF Lead
      <4>. QED
        BY <4>1, Beginnings, CharTypes
    <3>2. CASE First(a, i - 1) # <<>>
      <4>1. Lead(First(a, i - 1)) = G[i - 1] \o <<"/">> /\ <<"/">> \in Text
        BY <2>1, <3>2, CharTypes DEF Lead
      <4>. QED
        BY <4>1 DEF StartsWith
    <3>. QED
      BY <3>1, <3>2
  <2>4. G[i] = String(First(a, i)) /\ G[i] \in Text /\ G[i - 1] \in Text /\ Lead(First(a, i - 1)) \in Text
    BY <1>3, <2>1
  <2>. HIDE DEF G
  <2>. QED
    BY <2>2, <2>3, <2>4, Beginnings
<1>6. \A i \in 0..Len(a) : StartsWith(G[Len(a)], G[i])
  <2>. HIDE DEF G
  <2>. QED
    BY <1>1, <1>3, <1>5, Growing
<1>7. G[Len(a)] = String(a) /\ First(a, Len(a)) = a /\ G[k] = String(First(a, k))
  BY <1>1, FirstChars
<1>8. First(a, k) # <<>> /\ First(a, k) \in Seq(AddrSteps)
  BY <1>1, <1>2
<1>9. Lead(First(a, k)) = (Lead(First(a, k - 1)) \o StepString(a[k])) \o <<"/">>
  BY <1>4, <1>8 DEF Lead
<1>10. ASSUME k < Len(a) PROVE StartsWith(String(a), Lead(First(a, k)))
  <2>1. k + 1 \in 1..Len(a) /\ (k + 1) - 1 = k /\ k + 1 \in 0..Len(a)
    BY <1>1, <1>10
  <2>2. StartsWith(String(First(a, k + 1)), Lead(First(a, k)))
    BY <1>5, <2>1
  <2>3. StartsWith(String(a), String(First(a, k + 1)))
    BY <1>6, <1>7, <2>1
  <2>4. String(First(a, k + 1)) \in Text /\ Lead(First(a, k)) \in Text /\ String(a) \in Text
    BY <1>1, <1>2, <2>1, StringType
  <2>. QED
    BY <2>2, <2>3, <2>4, Beginnings
<1>. HIDE DEF G
<1>. QED
  BY <1>1, <1>4, <1>6, <1>7, <1>8, <1>9, <1>10

-------------------------------------------------------------------------------
(* Printed addresses.                                                       *)

LEMMA Norms ==
  /\ Norm(<<>>) = <<>> /\ \A c \in Characters : NormChar(c) \in Characters
  /\ \A w \in Text : Norm(w) \in Text /\ Len(Norm(w)) = Len(w)
  /\ \A w \in Text, c \in Characters : Norm(Append(w, c)) = Append(Norm(w), NormChar(c))
<1>1. Norm(<<>>) = <<>>
  BY DEF Norm
<1>2. \A c \in Characters : NormChar(c) \in Characters
  BY CharKinds DEF NormChar
<1>3. ASSUME NEW w \in Text PROVE Norm(w) \in Text /\ Len(Norm(w)) = Len(w)
  <2>1. w \in Seq(Characters)
    BY DEF Text
  <2>2. \A i \in DOMAIN w : Norm(w)[i] \in Characters
    BY <1>2, <2>1 DEF Norm
  <2>3. DOMAIN Norm(w) = DOMAIN w /\ Norm(w) = [i \in DOMAIN w |-> Norm(w)[i]]
    BY DEF Norm
  <2>. QED
    BY <2>1, <2>2, <2>3, SeqFromPieces DEF Text
<1>4. ASSUME NEW w \in Text, NEW c \in Characters
      PROVE  Norm(Append(w, c)) = Append(Norm(w), NormChar(c))
  <2>1. w \in Seq(Characters)
    BY DEF Text
  <2>. QED
    BY <2>1 DEF Norm
<1>. QED
  BY <1>1, <1>2, <1>3, <1>4

(* A star is printed as it is, so an index is printed as if it were a name. *)
LEMMA StepShape ==
  \A s \in AddrSteps :
    /\ ValueText(s) \in Text /\ s.variant \in Text
    /\ s.variant = <<>> => StepString(s) = escapePropValue(ValueText(s))
    /\ s.variant # <<>> =>
         StepString(s) = escapePropValue(ValueText(s)) \o
                           ((<<Open>> \o escapeVariantValue(s.variant)) \o <<Close>>)
<1>. SUFFICES ASSUME NEW s \in AddrSteps
     PROVE  /\ ValueText(s) \in Text /\ s.variant \in Text
            /\ s.variant = <<>> => StepString(s) = escapePropValue(ValueText(s))
            /\ s.variant # <<>> =>
                 StepString(s) = escapePropValue(ValueText(s)) \o
                                   ((<<Open>> \o escapeVariantValue(s.variant)) \o <<Close>>)
  OBVIOUS
<1>1. <<"*">> \in Text
  BY CharTypes
<1>2. ValueText(s) \in Text /\ s.variant \in Text
  BY <1>1 DEF ValueText, AddrSteps
<1>3. escapePropValue(<<"*">>) = <<"*">>
  <2>1. "*" \notin NotInValue
    BY CharKinds
  <2>2. Without(<<"*">>, NotInValue)
    BY <2>1 DEF Without
  <2>. QED
    BY <1>1, <2>2, PlainValue
<1>4. escapePropValue(ValueText(s)) = IF s.type = "index" THEN <<"*">> ELSE escapePropValue(s.value)
  BY <1>3 DEF ValueText
<1>5. StepString(s) = escapePropValue(ValueText(s)) \o
        (IF s.variant = <<>> THEN <<>> ELSE (<<Open>> \o escapeVariantValue(s.variant)) \o <<Close>>)
  BY <1>4, StepForm, Zenon
<1>6. escapePropValue(ValueText(s)) \o <<>> = escapePropValue(ValueText(s))
  <2>1. escapePropValue(ValueText(s)) \in Seq(Characters)
    BY <1>2, EscapeProp DEF Text
  <2>. QED
    BY <2>1
<1>. QED
  BY <1>2, <1>5, <1>6

LEMMA TextAssoc == \A r, s, t \in Text : (r \o s) \o t = r \o (s \o t)
<1>. SUFFICES ASSUME NEW r \in Text, NEW s \in Text, NEW t \in Text
              PROVE  (r \o s) \o t = r \o (s \o t)
  OBVIOUS
<1>1. r \in Seq(Characters) /\ s \in Seq(Characters) /\ t \in Seq(Characters)
  BY DEF Text
<1>. QED
  BY <1>1, ConcatAssociative

LEMMA Regroup ==
  ASSUME NEW b \in Text, NEW v \in Text, NEW e \in Text, NEW p \in Text
  PROVE  /\ Opened(b, v, e) \in Text
         /\ Opened(b, v, e \o p) = Opened(b, v, e) \o p
<1>. DEFINE o == <<Open>>
            oe == o \o e
            voe == v \o oe
<1>1. b \in Seq(Characters) /\ v \in Seq(Characters) /\ o \in Seq(Characters)
      /\ e \in Seq(Characters) /\ p \in Seq(Characters)
  BY CharKinds DEF Text
<1>. HIDE DEF o
<1>2. o \o (e \o p) = oe \o p /\ oe \in Seq(Characters)
  BY <1>1
<1>3. v \in Seq(Characters) /\ p \in Seq(Characters) /\ oe \in Seq(Characters)
  BY <1>1, <1>2
<1>. HIDE DEF oe
<1>4. v \o (oe \o p) = voe \o p /\ voe \in Seq(Characters)
  BY <1>3
<1>5. b \in Seq(Characters) /\ p \in Seq(Characters) /\ voe \in Seq(Characters)
  BY <1>1, <1>4
<1>. HIDE DEF voe
<1>6. b \o (voe \o p) = (b \o voe) \o p /\ b \o voe \in Seq(Characters)
  BY <1>5
<1>7. Opened(b, v, e) = b \o voe /\ Opened(b, v, e \o p) = b \o (v \o (o \o (e \o p)))
  BY DEF Opened, o, oe, voe
<1>. QED
  BY <1>2, <1>4, <1>6, <1>7, Zenon DEF Text

LEMMA TextLen ==
  \A r, s \in Text : Len(r \o s) = Len(r) + Len(s) /\ Len(r) \in Nat /\ Len(s) \in Nat
  BY DEF Text

(* What is read in a printed address.                                       *)
Context == /\ TypeInv /\ Reading /\ origin \in Seq(AddrSteps) /\ input = String(origin)
           /\ Len(addr) < Len(origin)
ReadStep == Delimiter \/ Escape \/ OpenVariant \/ CloseVariant \/ Other

LEMMA ContextFacts ==
  ASSUME Context
  PROVE  /\ Len(addr) + 1 \in 1..Len(origin) /\ Now \in AddrSteps /\ Before \in Text
         /\ ValueText(Now) \in Text /\ Now.variant \in Text /\ StepString(Now) \in Text
         /\ escapePropValue(ValueText(Now)) \in Text /\ escapeVariantValue(Now.variant) \in Text
         /\ input \in Text /\ next \in Nat /\ next > 0
         /\ StartsWith(input, Before \o StepString(Now))
<1>. USE DEF Context
<1>1. Len(addr) + 1 \in 1..Len(origin) /\ (Len(addr) + 1) - 1 = Len(addr)
      /\ input \in Text /\ next \in Nat /\ next > 0
  BY DEF TypeInv
<1>2. /\ First(origin, Len(addr)) \in Seq(AddrSteps) /\ Now \in AddrSteps
      /\ StartsWith(input, Before \o StepString(Now))
  BY <1>1, AddrBeginning DEF Now, Before
<1>3. Before \in Text
  BY <1>2, StringType DEF Before
<1>. QED
  BY <1>1, <1>2, <1>3, StepShape, StepIsText, EscapeProp, EscapeVariant

(* The next characters are those of what is printed next.                   *)
LEMMA Ahead ==
  ASSUME input \in Text, next \in Nat, NEW done \in Text, NEW chunk \in Text,
         StartsWith(input, done \o chunk), next - 1 = Len(done)
  PROVE  \A i \in 1..Len(chunk) : Char(next + i - 1) = chunk[i]
<1>1. PICK rest \in Text : input = (done \o chunk) \o rest
  BY DEF StartsWith
<1>. SUFFICES ASSUME NEW i \in 1..Len(chunk) PROVE Char(next + i - 1) = chunk[i]
  OBVIOUS
<1>2. done \in Seq(Characters) /\ chunk \in Seq(Characters) /\ rest \in Seq(Characters)
  BY DEF Text
<1>3. next + i - 1 = Len(done) + i /\ Len(done) + i \in 1..Len(input)
  BY <1>1, <1>2
<1>4. input[Len(done) + i] = chunk[i]
  BY <1>1, <1>2
<1>. QED
  BY <1>3, <1>4 DEF Char

LEMMA NothingAhead ==
  ASSUME input \in Text, next \in Nat, NEW done \in Text, input = done, next - 1 = Len(done)
  PROVE  tk = EOF
<1>1. next > Len(input) /\ Len(input) \in Nat
  BY DEF Text
<1>. QED
  BY <1>1 DEF tk, Char

(* The next character tells which action it is.                             *)
LEMMA WhichAction ==
  ASSUME ReadStep
  PROVE  /\ tk \in {"/", EOF} => Delimiter
         /\ tk = "\\" => Escape
         /\ tk = Open => OpenVariant
         /\ tk = Close => CloseVariant
         /\ tk \notin Special /\ tk # EOF => Other
<1>1. Delimiter => tk \in {"/", EOF}
  BY DelimiterDoes
<1>2. Escape => tk = "\\"
  BY DEF Escape
<1>3. OpenVariant => tk = Open
  BY OpenDoes
<1>4. CloseVariant => tk = Close
  BY CloseDoes
<1>5. Other => tk \notin Special /\ tk # EOF
  BY DEF Other
<1>6. "/" # EOF /\ "\\" # EOF /\ "/" # "\\" /\ "\\" \in Special /\ "/" \in Special
      /\ Open \in Special /\ Close \in Special
  BY CharKinds DEF EOF
<1>. QED
  BY <1>1, <1>2, <1>3, <1>4, <1>5, <1>6, CharKinds DEF ReadStep

LEMMA TakesValue ==
  ASSUME Context, ReadStep, NEW k \in 0..Len(ValueText(Now)), InValue(k), k < Len(ValueText(Now))
  PROVE  InValue(k + 1)' /\ UNCHANGED <<input, origin, addr, result>> /\ Now' = Now
<1>. DEFINE v == ValueText(Now)
            c == v[k + 1]
            e == escapePropValue(First(v, k))
<1>0. /\ Before \in Text /\ v \in Text /\ StepString(Now) \in Text /\ escapePropValue(v) \in Text
      /\ input \in Text /\ next \in Nat /\ StartsWith(input, Before \o StepString(Now))
      /\ Now \in AddrSteps /\ k + 1 \in 1..Len(v) /\ (k + 1) - 1 = k
  <2>1. v \in Text
    BY ContextFacts
  <2>2. Len(v) \in Nat
    BY <2>1 DEF Text
  <2>3. k + 1 \in 1..Len(v) /\ (k + 1) - 1 = k
    BY <2>2
  <2>. QED
    BY <2>1, <2>3, ContextFacts
<1>. HIDE DEF v
<1>1. /\ First(v, k) \in Text /\ c \in Characters /\ First(v, k + 1) = Append(First(v, k), c)
      /\ escapePropValue(First(v, k + 1)) = e \o PropChar(c)
      /\ StartsWith(escapePropValue(v), escapePropValue(First(v, k + 1)))
  BY <1>0, ValueBeginning
<1>2. e \in Text /\ PropChar(c) \in Text /\ e \o PropChar(c) \in Text
  BY <1>1, EscapeProp, CharTypes
<1>. HIDE DEF e, c
<1>3. StartsWith(input, (Before \o e) \o PropChar(c))
  <2>1. StartsWith(StepString(Now), escapePropValue(v))
    <3>1. CASE Now.variant = <<>>
      BY <1>0, <3>1, StepShape, Beginnings DEF v
    <3>2. CASE Now.variant # <<>>
      <4>1. (<<Open>> \o escapeVariantValue(Now.variant)) \o <<Close>> \in Text
        BY CharTypes, CharKinds, ContextFacts
      <4>2. StepString(Now) = escapePropValue(v) \o ((<<Open>> \o escapeVariantValue(Now.variant)) \o <<Close>>)
        BY <1>0, <3>2, StepShape DEF v
      <4>. QED
        BY <4>1, <4>2 DEF StartsWith
    <3>. QED
      BY <3>1, <3>2
  <2>2. StartsWith(StepString(Now), e \o PropChar(c))
    BY <1>0, <1>1, <1>2, <2>1, Beginnings
  <2>3. StartsWith(Before \o StepString(Now), Before \o (e \o PropChar(c)))
    BY <1>0, <1>2, <2>2, Beginnings
  <2>4. Before \o StepString(Now) \in Text /\ Before \o (e \o PropChar(c)) \in Text
    BY <1>0, <1>2, CharTypes
  <2>5. StartsWith(input, Before \o (e \o PropChar(c)))
    BY <1>0, <2>3, <2>4, Beginnings
  <2>6. Before \o (e \o PropChar(c)) = (Before \o e) \o PropChar(c)
    <3>. DEFINE p == PropChar(c)
    <3>1. p \in Text /\ e \in Text /\ Before \in Text
      BY <1>0, <1>2
    <3>. HIDE DEF p
    <3>2. Before \o (e \o p) = (Before \o e) \o p
      BY <3>1, TextAssoc
    <3>. QED
      BY <3>2 DEF p
  <2>. QED
    BY <2>5, <2>6
<1>4. ~inVariant /\ stepVariant = <<>> /\ stepValue = Norm(First(v, k)) /\ next - 1 = Len(Before \o e)
  BY DEF InValue, v, e
<1>5. Before \o e \in Text
  BY <1>0, <1>2, CharTypes
<1>6. \A i \in 1..Len(PropChar(c)) : Char(next + i - 1) = PropChar(c)[i]
  BY <1>0, <1>2, <1>3, <1>4, <1>5, Ahead
<1>7. /\ Take(NormChar(c)) /\ next' = next + Len(PropChar(c))
      /\ UNCHANGED <<input, origin, inVariant, result>>
  <2>1. CASE c \in NotInValue
    <3>1. PropChar(c) = <<"\\", NormChar(c)>> /\ NormChar(c) \in Special
      BY <2>1, CharForms, CharKinds DEF NormChar
    <3>2. Char(next + 1 - 1) = "\\" /\ Char(next + 2 - 1) = NormChar(c)
      BY <1>6, <3>1
    <3>3. next + 1 - 1 = next /\ next + 2 - 1 = next + 1
      BY <1>0
    <3>4. Escape
      BY <3>2, <3>3, WhichAction DEF tk
    <3>5. Len(PropChar(c)) = 2
      BY <3>1
    <3>. QED
      BY <3>1, <3>2, <3>3, <3>4, <3>5 DEF Escape
  <2>2. CASE c \notin NotInValue
    <3>1. PropChar(c) = <<c>> /\ NormChar(c) = c
      BY <2>2, CharForms, CharKinds DEF NormChar
    <3>2. Char(next + 1 - 1) = c
      BY <1>6, <3>1
    <3>3. tk = c
      BY <1>0, <3>2 DEF tk
    <3>4. Len(PropChar(c)) = 1
      BY <3>1
    <3>5. CASE c = Close
      BY <1>4, <3>1, <3>3, <3>4, <3>5, WhichAction, CloseDoes
    <3>6. CASE c # Close
      <4>1. c \notin Special /\ c # EOF
        BY <1>1, <2>2, <3>6, CharKinds, CharTypes
      <4>2. Other
        BY <3>3, <4>1, WhichAction
      <4>. QED
        BY <3>1, <3>3, <3>4, <4>2 DEF Other
    <3>. QED
      BY <3>5, <3>6
  <2>. QED
    BY <2>1, <2>2
<1>8. stepValue' = Append(stepValue, NormChar(c)) /\ UNCHANGED <<stepVariant, addr>>
  BY <1>4, <1>7 DEF Take
<1>9. Now' = Now /\ Before' = Before
  BY <1>7, <1>8 DEF Now, Before
<1>10. stepValue' = Norm(First(v, k + 1))
  BY <1>1, <1>4, <1>8, Norms
<1>11. next' - 1 = Len(Before \o escapePropValue(First(v, k + 1)))
  <2>1. Before \o escapePropValue(First(v, k + 1)) = (Before \o e) \o PropChar(c)
    <3>. DEFINE p == PropChar(c)
    <3>1. p \in Text /\ e \in Text /\ Before \in Text /\ escapePropValue(First(v, k + 1)) = e \o p
      BY <1>0, <1>1, <1>2
    <3>. HIDE DEF p
    <3>2. Before \o (e \o p) = (Before \o e) \o p
      BY <3>1, TextAssoc
    <3>. QED
      BY <3>1, <3>2 DEF p
  <2>2. Len((Before \o e) \o PropChar(c)) = Len(Before \o e) + Len(PropChar(c))
        /\ Len(PropChar(c)) \in Nat
    BY <1>2, <1>5, TextLen, Zenon
  <2>3. next' = next + Len(PropChar(c))
    BY <1>7
  <2>4. next' - 1 = Len((Before \o e) \o PropChar(c))
    BY <1>0, <1>4, <2>2, <2>3
  <2>. QED
    BY <2>1, <2>4, Zenon
<1>12. ~inVariant' /\ stepVariant' = <<>>
  BY <1>4, <1>7, <1>8
<1>13. InValue(k + 1)'
  BY <1>9, <1>10, <1>11, <1>12 DEF InValue, v
<1>. QED
  BY <1>7, <1>8, <1>9, <1>13

LEMMA TakesVariant ==
  ASSUME Context, ReadStep, NEW m \in 0..Len(Now.variant), InBraces(m), m < Len(Now.variant)
  PROVE  InBraces(m + 1)' /\ UNCHANGED <<input, origin, addr, result>> /\ Now' = Now
<1>. DEFINE w == Now.variant
            c == w[m + 1]
            ev == escapePropValue(ValueText(Now))
            e == escapeVariantValue(First(w, m))
            done == Opened(Before, ev, e)
<1>0. /\ Before \in Text /\ w \in Text /\ StepString(Now) \in Text /\ ev \in Text
      /\ escapeVariantValue(w) \in Text /\ <<Open>> \in Text /\ <<Close>> \in Text
      /\ input \in Text /\ next \in Nat /\ StartsWith(input, Before \o StepString(Now))
      /\ Now \in AddrSteps /\ m + 1 \in 1..Len(w) /\ (m + 1) - 1 = m
  <2>1. w \in Text
    BY ContextFacts
  <2>2. Len(w) \in Nat
    BY <2>1 DEF Text
  <2>3. m + 1 \in 1..Len(w) /\ (m + 1) - 1 = m
    BY <2>2
  <2>4. <<Open>> \in Text /\ <<Close>> \in Text
    BY CharTypes, CharKinds
  <2>. QED
    BY <2>1, <2>3, <2>4, ContextFacts
<1>1. w # <<>> /\ StepString(Now) = ev \o ((<<Open>> \o escapeVariantValue(w)) \o <<Close>>)
  BY <1>0, StepShape DEF InBraces
<1>. HIDE DEF w, ev
<1>2. /\ First(w, m) \in Text /\ c \in Characters /\ First(w, m + 1) = Append(First(w, m), c)
      /\ escapeVariantValue(First(w, m + 1)) = e \o VariantChar(c)
      /\ StartsWith(escapeVariantValue(w), escapeVariantValue(First(w, m + 1)))
  BY <1>0, VariantBeginning
<1>3. e \in Text /\ VariantChar(c) \in Text /\ e \o VariantChar(c) \in Text
  BY <1>2, EscapeVariant, CharTypes
<1>. HIDE DEF e, c
<1>4. done \in Text
  BY <1>0, <1>3, Regroup
<1>5. StartsWith(input, done \o VariantChar(c))
  <2>. DEFINE p == VariantChar(c)
              full == escapeVariantValue(w)
  <2>0. p \in Text /\ full \in Text /\ e \o p \in Text /\ <<Open>> \o e \in Text
        /\ <<Open>> \o full \in Text /\ <<Open>> \o (e \o p) \in Text /\ ev \o (<<Open>> \o e) \in Text
        /\ (<<Open>> \o full) \o <<Close>> \in Text
        /\ ev \o (<<Open>> \o (e \o p)) \in Text
    BY <1>0, <1>3, CharTypes
  <2>. HIDE DEF p, full
  <2>1. StartsWith(full, e \o p)
    BY <1>2 DEF p, full
  <2>2. StartsWith(<<Open>> \o full, <<Open>> \o (e \o p))
    BY <1>0, <2>0, <2>1, Beginnings
  <2>3. StartsWith((<<Open>> \o full) \o <<Close>>, <<Open>> \o full)
    BY <1>0, <2>0, Beginnings
  <2>4. StartsWith((<<Open>> \o full) \o <<Close>>, <<Open>> \o (e \o p))
    BY <2>0, <2>2, <2>3, Beginnings
  <2>5. StartsWith(StepString(Now), ev \o (<<Open>> \o (e \o p)))
    <3>1. StartsWith(ev \o ((<<Open>> \o full) \o <<Close>>), ev \o (<<Open>> \o (e \o p)))
      BY <1>0, <2>0, <2>4, Beginnings, Zenon
    <3>. QED
      BY <1>1, <3>1 DEF full
  <2>6. StartsWith(Before \o StepString(Now), Before \o (ev \o (<<Open>> \o (e \o p))))
    BY <1>0, <2>0, <2>5, Beginnings
  <2>7. Before \o StepString(Now) \in Text /\ Before \o (ev \o (<<Open>> \o (e \o p))) \in Text
    BY <1>0, <2>0, CharTypes
  <2>8. StartsWith(input, Before \o (ev \o (<<Open>> \o (e \o p))))
    BY <1>0, <2>6, <2>7, Beginnings
  <2>9. Before \o (ev \o (<<Open>> \o (e \o p))) = done \o p
    <3>1. Opened(Before, ev, e \o p) = Opened(Before, ev, e) \o p
      <4>1. Before \in Text /\ ev \in Text /\ e \in Text /\ p \in Text
        BY <1>0, <1>3, <2>0
      <4>. QED
        BY <4>1, Regroup
    <3>2. Opened(Before, ev, e \o p) = Before \o (ev \o (<<Open>> \o (e \o p)))
      BY DEF Opened
    <3>. QED
      BY <3>1, <3>2
  <2>. QED
    BY <2>8, <2>9 DEF p
<1>6. inVariant /\ stepVariant = First(w, m) /\ stepValue = Norm(ValueText(Now)) /\ next - 1 = Len(done)
  BY DEF InBraces, w, e, ev
<1>. HIDE DEF done
<1>7. \A i \in 1..Len(VariantChar(c)) : Char(next + i - 1) = VariantChar(c)[i]
  BY <1>0, <1>3, <1>4, <1>5, <1>6, Ahead
<1>8. /\ stepVariant' = Append(stepVariant, c) /\ inVariant' = inVariant
      /\ next' = next + Len(VariantChar(c)) /\ UNCHANGED <<input, origin, result, stepValue, addr>>
  <2>1. CASE c \in NotInVariant
    <3>1. VariantChar(c) = <<"\\", c>> /\ c \in Special
      BY <2>1, CharForms, CharKinds
    <3>2. Char(next + 1 - 1) = "\\" /\ Char(next + 2 - 1) = c
      BY <1>7, <3>1
    <3>3. next + 1 - 1 = next /\ next + 2 - 1 = next + 1
      BY <1>0
    <3>4. Escape
      BY <3>2, <3>3, WhichAction DEF tk
    <3>5. Len(VariantChar(c)) = 2
      BY <3>1
    <3>. QED
      BY <1>6, <3>1, <3>2, <3>3, <3>4, <3>5 DEF Escape, Take
  <2>2. CASE c \notin NotInVariant
    <3>1. VariantChar(c) = <<c>>
      BY <2>2, CharForms
    <3>2. Char(next + 1 - 1) = c
      BY <1>7, <3>1
    <3>3. tk = c /\ tk # EOF
      <4>1. tk = c
        BY <1>0, <3>2 DEF tk
      <4>. QED
        BY <1>2, <4>1, CharTypes
    <3>4. Len(VariantChar(c)) = 1
      BY <3>1
    <3>5. CASE c = "/"
      <4>1. Delimiter
        BY <3>3, <3>5, WhichAction
      <4>2. Take(tk) /\ next' = next + 1 /\ UNCHANGED <<input, origin, inVariant>> /\ result' = "reading"
        BY <1>6, <3>3, <4>1, DelimiterDoes
      <4>3. result = "reading"
        BY DEF Context, Reading
      <4>. QED
        BY <1>6, <3>3, <3>4, <4>2, <4>3 DEF Take
    <3>6. CASE c = Open
      BY <1>6, <3>3, <3>4, <3>6, WhichAction, OpenDoes
    <3>7. CASE c # Open /\ c # "/"
      <4>1. c \notin Special
        BY <2>2, <3>7, CharKinds
      <4>2. Other
        BY <3>3, <4>1, WhichAction
      <4>. QED
        BY <1>6, <3>3, <3>4, <4>2 DEF Other, Take
    <3>. QED
      BY <3>5, <3>6, <3>7
  <2>. QED
    BY <2>1, <2>2
<1>9. Now' = Now /\ Before' = Before
  BY <1>8 DEF Now, Before
<1>10. stepVariant' = First(w, m + 1) /\ stepValue' = Norm(ValueText(Now)) /\ inVariant'
  BY <1>2, <1>6, <1>8
<1>11. next' - 1 = Len(Opened(Before, ev, escapeVariantValue(First(w, m + 1))))
  <2>. DEFINE p == VariantChar(c)
  <2>1. /\ p \in Text /\ done = Opened(Before, ev, e) /\ next' = next + Len(p)
        /\ escapeVariantValue(First(w, m + 1)) = e \o p
    BY <1>2, <1>3, <1>8 DEF done
  <2>. HIDE DEF p
  <2>2. Opened(Before, ev, e \o p) = done \o p
    <3>1. Before \in Text /\ ev \in Text /\ e \in Text /\ p \in Text
      BY <1>0, <1>3, <2>1
    <3>2. Opened(Before, ev, e \o p) = Opened(Before, ev, e) \o p
      BY <3>1, Regroup
    <3>. QED
      BY <2>1, <3>2
  <2>3. Len(done \o p) = Len(done) + Len(p) /\ Len(p) \in Nat
    BY <1>4, <2>1, TextLen, Zenon
  <2>4. next' - 1 = Len(done \o p)
    BY <1>0, <1>6, <2>1, <2>3
  <2>. QED
    BY <2>1, <2>2, <2>4, Zenon
<1>12. InBraces(m + 1)'
  BY <1>1, <1>9, <1>10, <1>11 DEF InBraces, w, ev
<1>. QED
  BY <1>8, <1>9, <1>12

LEMMA OpensVariant ==
  ASSUME Context, ReadStep, InValue(Len(ValueText(Now))), Now.variant # <<>>
  PROVE  InBraces(0)' /\ UNCHANGED <<input, origin, addr, result>> /\ Now' = Now
<1>. DEFINE v == ValueText(Now)
            ev == escapePropValue(v)
            f == escapeVariantValue(Now.variant)
<1>0. /\ Before \in Text /\ v \in Text /\ ev \in Text /\ f \in Text /\ StepString(Now) \in Text
      /\ input \in Text /\ next \in Nat /\ StartsWith(input, Before \o StepString(Now))
      /\ StepString(Now) = ev \o ((<<Open>> \o f) \o <<Close>>)
      /\ <<Open>> \in Text /\ <<Close>> \in Text /\ <<Open>> \o f \in Text
      /\ (<<Open>> \o f) \o <<Close>> \in Text /\ Now.variant \in Text
  <2>1. <<Open>> \in Text /\ <<Close>> \in Text
    BY CharTypes, CharKinds
  <2>. QED
    BY <2>1, ContextFacts, StepShape, CharTypes
<1>1. First(v, Len(v)) = v /\ First(Now.variant, 0) = <<>>
  BY <1>0, FirstChars DEF Text
<1>2. /\ ~inVariant /\ stepVariant = <<>> /\ stepValue = Norm(v)
      /\ next - 1 = Len(Before \o ev)
  BY <1>1 DEF InValue
<1>. HIDE DEF v, ev, f
<1>3. StartsWith(input, (Before \o ev) \o <<Open>>)
  <2>. DEFINE o == <<Open>>
              t == (<<Open>> \o f) \o <<Close>>
  <2>0. o \in Text /\ t \in Text /\ StepString(Now) = ev \o t /\ ev \o t \in Text /\ ev \o o \in Text
        /\ Before \o (ev \o t) \in Text /\ Before \o (ev \o o) \in Text
    BY <1>0, CharTypes
  <2>1. StartsWith(t, o)
    <3>1. StartsWith(t, <<Open>> \o f) /\ StartsWith(<<Open>> \o f, <<Open>>)
      BY <1>0, Beginnings
    <3>. QED
      BY <1>0, <2>0, <3>1, Beginnings
  <2>. HIDE DEF o, t
  <2>2. StartsWith(ev \o t, ev \o o)
    BY <1>0, <2>0, <2>1, Beginnings
  <2>3. StartsWith(Before \o (ev \o t), Before \o (ev \o o))
    BY <1>0, <2>0, <2>2, Beginnings
  <2>4. StartsWith(input, Before \o (ev \o o))
    BY <1>0, <2>0, <2>3, Beginnings
  <2>5. Before \o (ev \o o) = (Before \o ev) \o o
    <3>1. Before \in Seq(Characters) /\ ev \in Seq(Characters) /\ o \in Seq(Characters)
      BY <1>0, <2>0 DEF Text
    <3>. QED
      BY <3>1
  <2>. QED
    BY <2>4, <2>5 DEF o
<1>4. Before \o ev \in Text /\ Len(<<Open>>) = 1
  BY <1>0, CharTypes
<1>5. Char(next + 1 - 1) = Open
  <2>1. \A i \in 1..Len(<<Open>>) : Char(next + i - 1) = <<Open>>[i]
    BY <1>0, <1>2, <1>3, <1>4, Ahead
  <2>. QED
    BY <2>1
<1>6. tk = Open
  BY <1>0, <1>5 DEF tk
<1>7. OpenVariant
  BY <1>6, WhichAction
<1>8. /\ next' = next + 1 /\ inVariant' /\ stepVariant' = <<>>
      /\ UNCHANGED <<input, origin, addr, stepValue, result>>
  BY <1>2, <1>7, OpenDoes
<1>9. Now' = Now /\ Before' = Before
  BY <1>8 DEF Now, Before
<1>10. Len(Opened(Before, ev, <<>>)) = next
  <2>1. Before \in Seq(Characters) /\ ev \in Seq(Characters) /\ <<Open>> \in Seq(Characters)
    BY <1>0 DEF Text
  <2>2. Len(Before \o (ev \o (<<Open>> \o <<>>))) = Len(Before \o ev) + 1
    BY <2>1
  <2>3. Opened(Before, ev, <<>>) = Before \o (ev \o (<<Open>> \o <<>>))
    BY DEF Opened
  <2>4. Len(Before \o ev) + 1 = next
    BY <1>0, <1>2
  <2>. QED
    BY <2>2, <2>3, <2>4, Zenon
<1>11. next' - 1 = Len(Opened(Before, ev, escapeVariantValue(First(Now.variant, 0))))
  BY <1>0, <1>1, <1>8, <1>10, EscapeVariant
<1>12. InBraces(0)'
  BY <1>1, <1>2, <1>8, <1>9, <1>11 DEF InBraces, v, ev
<1>. QED
  BY <1>8, <1>9, <1>12

(* What follows a step in the printed address.                              *)
LEMMA AfterStep ==
  ASSUME Context, NEW q \in Nat, q = Len(Before \o StepString(Now)) + 1
  PROVE  Char(q) = IF Len(addr) + 1 < Len(origin) THEN "/" ELSE EOF
<1>. DEFINE t == Before \o StepString(Now)
            n == Len(addr) + 1
<1>0. t \in Text /\ n \in 1..Len(origin) /\ n - 1 = Len(addr) /\ origin \in Seq(AddrSteps)
      /\ input = String(origin) /\ origin[n] = Now
  <2>1. origin \in Seq(AddrSteps) /\ input = String(origin) /\ Len(addr) \in Nat
    BY DEF Context, TypeInv
  <2>2. Before \o StepString(Now) \in Text
    BY ContextFacts, CharTypes
  <2>3. n \in 1..Len(origin) /\ origin[n] = Now
    BY ContextFacts DEF Now
  <2>4. n - 1 = Len(addr)
    BY <2>1
  <2>. QED
    BY <2>1, <2>2, <2>3, <2>4
<1>1. /\ n < Len(origin) => StartsWith(input, t \o <<"/">>)
      /\ n = Len(origin) => input = t
  BY <1>0, AddrBeginning DEF Before
<1>. HIDE DEF t
<1>2. CASE n < Len(origin)
  <2>1. PICK rest \in Text : input = (t \o <<"/">>) \o rest
    BY <1>1, <1>2 DEF StartsWith
  <2>2. t \in Seq(Characters) /\ rest \in Seq(Characters) /\ <<"/">> \in Seq(Characters)
    BY <1>0, CharTypes DEF Text
  <2>3. ((t \o <<"/">>) \o rest)[Len(t) + 1] = "/" /\ Len(t) + 1 <= Len((t \o <<"/">>) \o rest)
    BY <2>2
  <2>. QED
    BY <1>2, <2>1, <2>3 DEF Char, t
<1>3. CASE n = Len(origin)
  <2>1. Len(t) \in Nat
    BY <1>0 DEF Text
  <2>2. q > Len(input)
    BY <1>1, <1>3, <2>1 DEF t
  <2>. QED
    BY <1>3, <2>1, <2>2, <1>1 DEF Char
<1>4. n < Len(origin) \/ n = Len(origin)
  BY <1>0
<1>. QED
  BY <1>2, <1>3, <1>4

LEMMA ClosesVariant ==
  ASSUME Context, ReadStep, InBraces(Len(Now.variant))
  PROVE  AtEnd' /\ UNCHANGED <<input, origin, addr, result>> /\ Now' = Now
<1>. DEFINE w == Now.variant
            ev == escapePropValue(ValueText(Now))
            f == escapeVariantValue(w)
            done == Opened(Before, ev, f)
<1>1. w # <<>> /\ Len(w) \in Nat /\ First(w, Len(w)) = w
  <2>1. w \in Seq(Characters)
    BY ContextFacts DEF Text
  <2>. QED
    BY <2>1, FirstChars DEF InBraces
<1>0. /\ Before \in Text /\ w \in Text /\ ev \in Text /\ f \in Text /\ StepString(Now) \in Text
      /\ input \in Text /\ next \in Nat /\ StartsWith(input, Before \o StepString(Now))
      /\ StepString(Now) = ev \o ((<<Open>> \o f) \o <<Close>>)
      /\ <<Open>> \in Text /\ <<Close>> \in Text
  <2>1. <<Open>> \in Text /\ <<Close>> \in Text
    BY CharTypes, CharKinds
  <2>. QED
    BY <1>1, <2>1, ContextFacts, StepShape
<1>2. inVariant /\ stepVariant = w /\ stepValue = Norm(ValueText(Now)) /\ next - 1 = Len(done)
  BY <1>1 DEF InBraces
<1>. HIDE DEF w, ev, f
<1>3. done \in Text /\ Before \o StepString(Now) = done \o <<Close>>
  <2>. DEFINE z == <<Close>>
              o == <<Open>>
  <2>1. Before \in Text /\ ev \in Text /\ f \in Text /\ z \in Text
    BY <1>0
  <2>2. o \in Seq(Characters) /\ f \in Seq(Characters) /\ z \in Seq(Characters)
    BY <1>0 DEF Text
  <2>3. StepString(Now) = ev \o ((o \o f) \o z)
    BY <1>0
  <2>4. Opened(Before, ev, f \o z) = Before \o (ev \o (o \o (f \o z)))
    BY DEF Opened
  <2>. HIDE DEF z, o
  <2>5. Opened(Before, ev, f) \in Text /\ Opened(Before, ev, f \o z) = Opened(Before, ev, f) \o z
    BY <2>1, Regroup
  <2>6. (o \o f) \o z = o \o (f \o z)
    BY <2>2
  <2>. QED
    BY <2>3, <2>4, <2>5, <2>6 DEF z
<1>. HIDE DEF done
<1>4. Len(<<Close>>) = 1 /\ Len(done \o <<Close>>) = next
  <2>1. done \in Seq(Characters) /\ <<Close>> \in Seq(Characters)
    BY <1>0, <1>3 DEF Text
  <2>2. Len(done \o <<Close>>) = Len(done) + 1
    BY <2>1
  <2>. QED
    BY <1>0, <1>2, <2>2
<1>5. Char(next + 1 - 1) = Close
  <2>1. \A i \in 1..Len(<<Close>>) : Char(next + i - 1) = <<Close>>[i]
    <3>1. StartsWith(input, done \o <<Close>>)
      BY <1>0, <1>3, Zenon
    <3>. QED
      BY <1>0, <1>2, <1>3, <3>1, Ahead
  <2>. QED
    BY <2>1
<1>6. tk = Close
  BY <1>0, <1>5 DEF tk
<1>7. Char(next + 1) \in {"/", EOF}
  <2>1. next + 1 \in Nat /\ next + 1 = Len(Before \o StepString(Now)) + 1
    <3>1. Len(Before \o StepString(Now)) = next
      BY <1>3, <1>4, Zenon
    <3>2. next + 1 \in Nat
      BY <1>0
    <3>3. next + 1 = Len(Before \o StepString(Now)) + 1
      BY <3>1, Zenon
    <3>. QED
      BY <3>2, <3>3
  <2>. QED
    BY <2>1, AfterStep
<1>8. CloseVariant
  BY <1>6, WhichAction
<1>9. /\ next' = next + 1 /\ ~inVariant'
      /\ UNCHANGED <<input, origin, addr, stepValue, stepVariant, result>>
  BY <1>1, <1>2, <1>7, <1>8, CloseDoes
<1>10. Now' = Now /\ Before' = Before
  BY <1>9 DEF Now, Before
<1>11. next' - 1 = Len(Before \o StepString(Now))
  <2>1. Len(Before \o StepString(Now)) = next
    BY <1>3, <1>4, Zenon
  <2>. QED
    BY <1>0, <1>9, <2>1
<1>12. AtEnd'
  BY <1>2, <1>9, <1>10, <1>11 DEF AtEnd, w
<1>. QED
  BY <1>9, <1>10, <1>12

LEMMA ValueAtEnd ==
  ASSUME Context, InValue(Len(ValueText(Now))), Now.variant = <<>>
  PROVE  AtEnd
<1>1. ValueText(Now) \in Seq(Characters) /\ Now \in AddrSteps
  BY ContextFacts DEF Text
<1>2. First(ValueText(Now), Len(ValueText(Now))) = ValueText(Now)
  BY <1>1, FirstChars
<1>3. StepString(Now) = escapePropValue(ValueText(Now))
  BY <1>1, StepShape
<1>. QED
  BY <1>2, <1>3 DEF InValue, AtEnd

LEMMA EndsStep ==
  ASSUME Context, ReadStep, AtEnd, ReadSoFar
  PROVE  /\ UNCHANGED <<input, origin>>
         /\ \/ result' = "error" /\ NoText(Now)
            \/ /\ Len(addr') = Len(addr) + 1 /\ ReadSoFar'
               /\ \/ result' = "ok" /\ Len(addr') = Len(origin)
                  \/ result' = "reading" /\ Len(addr') < Len(origin) /\ InValue(0)'
<1>. DEFINE v == ValueText(Now)
            n == Len(addr) + 1
<1>0. /\ Before \in Text /\ v \in Text /\ StepString(Now) \in Text /\ Now \in AddrSteps
      /\ next \in Nat /\ addr \in Seq(AddrSteps) /\ origin \in Seq(AddrSteps)
      /\ Len(addr) \in Nat /\ Len(origin) \in Nat /\ n \in 1..Len(origin) /\ n - 1 = Len(addr)
  <2>1. addr \in Seq(AddrSteps) /\ origin \in Seq(AddrSteps)
    BY DEF Context, TypeInv
  <2>2. Len(addr) \in Nat /\ Len(origin) \in Nat
    BY <2>1
  <2>3. n - 1 = Len(addr)
    BY <2>2
  <2>. QED
    BY <2>1, <2>2, <2>3, ContextFacts
<1>1. /\ ~inVariant /\ stepVariant = Now.variant /\ stepValue = Norm(v)
      /\ next - 1 = Len(Before \o StepString(Now))
  BY DEF AtEnd
<1>2. tk = IF n < Len(origin) THEN "/" ELSE EOF
  <2>1. next = Len(Before \o StepString(Now)) + 1
    BY <1>0, <1>1
  <2>. QED
    BY <1>0, <2>1, AfterStep DEF tk
<1>3. Delimiter
  BY <1>2, WhichAction
<1>4. next' = next + 1 /\ UNCHANGED <<input, origin>>
  BY <1>3, DelimiterDoes
<1>5. CASE stepValue = <<>> /\ stepVariant = <<>>
  <2>1. result' = "error"
    BY <1>1, <1>3, <1>5, DelimiterDoes DEF Refuse
  <2>2. v = <<>>
    <3>1. Len(v) = Len(Norm(v)) /\ v \in Seq(Characters)
      BY <1>0, Norms DEF Text
    <3>. QED
      BY <1>1, <1>5, <3>1
  <2>. QED
    BY <1>1, <1>4, <1>5, <2>1, <2>2 DEF NoText
<1>6. CASE ~(stepValue = <<>> /\ stepVariant = <<>>)
  <2>1. /\ addr' = Append(addr, StepRead) /\ stepValue' = <<>> /\ stepVariant' = <<>>
        /\ result' = (IF tk = EOF THEN "ok" ELSE "reading") /\ UNCHANGED inVariant
    BY <1>1, <1>3, <1>6, DelimiterDoes
  <2>2. StepRead = NormStep(Now)
    BY <1>1 DEF StepRead, NormStep
  <2>3. ~NoText(Now)
    BY <1>1, <1>6, Norms DEF NoText
  <2>4. StepRead \in AddrSteps
    <3>1. stepValue \in Text /\ stepVariant \in Text /\ <<>> \in Text
      BY CharTypes DEF Context, TypeInv
    <3>. QED
      BY <3>1 DEF StepRead, AddrSteps
  <2>5. /\ Len(addr') = n /\ addr'[n] = StepRead
        /\ \A i \in 1..Len(addr) : addr'[i] = addr[i]
    BY <1>0, <2>1, <2>4, AppendProperties
  <2>6. ReadSoFar'
    <3>1. SUFFICES ASSUME NEW i \in 1..n
                   PROVE  addr'[i] = NormStep(origin[i]) /\ ~NoText(origin[i])
      BY <1>4, <2>5 DEF ReadSoFar
    <3>2. CASE i = n
      BY <2>2, <2>3, <2>5, <3>2 DEF Now
    <3>3. CASE i # n
      <4>1. i \in 1..Len(addr)
        BY <1>0, <3>3
      <4>. QED
        BY <2>5, <4>1 DEF ReadSoFar
    <3>. QED
      BY <3>2, <3>3
  <2>7. CASE n < Len(origin)
    <3>1. tk = "/" /\ result' = "reading"
      BY <1>2, <2>1, <2>7 DEF EOF
    <3>2. Before' = (Before \o StepString(Now)) \o <<"/">>
      <4>1. Lead(First(origin, n)) = (Lead(First(origin, n - 1)) \o StepString(origin[n])) \o <<"/">>
        BY <1>0, AddrBeginning
      <4>2. Before' = Lead(First(origin, n))
        BY <1>4, <2>5 DEF Before
      <4>. QED
        BY <1>0, <4>1, <4>2 DEF Before, Now
    <3>3. Len(Before') = next /\ Before' \in Text
      <4>1. Before \o StepString(Now) \in Text /\ <<"/">> \in Text
        BY <1>0, CharTypes
      <4>2. Len((Before \o StepString(Now)) \o <<"/">>) = Len(Before \o StepString(Now)) + 1
        BY <4>1 DEF Text
      <4>3. (Before \o StepString(Now)) \o <<"/">> \in Text
        BY <4>1, CharTypes
      <4>4. Len(Before \o StepString(Now)) + 1 = next
        BY <1>0, <1>1
      <4>. QED
        BY <3>2, <4>2, <4>3, <4>4, Zenon
    <3>4. First(ValueText(Now'), 0) = <<>>
      <4>1. Now' = origin[n + 1] /\ n + 1 \in 1..Len(origin)
        BY <1>0, <1>4, <2>5, <2>7 DEF Now
      <4>2. Now' \in AddrSteps
        BY <1>0, <4>1
      <4>3. ValueText(Now') \in Seq(Characters)
        BY <4>2, StepShape DEF Text
      <4>. QED
        BY <4>3, FirstChars
    <3>5. Before' \o escapePropValue(<<>>) = Before'
      <4>1. Before' \in Seq(Characters)
        BY <3>3 DEF Text
      <4>2. Before' \o <<>> = Before'
        BY <4>1
      <4>. QED
        BY <4>2, EscapeProp
    <3>6. stepValue' = Norm(First(ValueText(Now'), 0))
      BY <2>1, <3>4, Norms
    <3>7. next' - 1 = Len(Before' \o escapePropValue(First(ValueText(Now'), 0)))
      <4>1. next' - 1 = next
        BY <1>0, <1>4
      <4>. QED
        BY <3>3, <3>4, <3>5, <4>1
    <3>8. InValue(0)'
      BY <1>1, <2>1, <3>6, <3>7 DEF InValue
    <3>. QED
      BY <1>0, <1>4, <2>5, <2>6, <2>7, <3>1, <3>8
  <2>8. CASE n = Len(origin)
    <3>1. tk = EOF /\ result' = "ok"
      BY <1>2, <2>1, <2>8
    <3>. QED
      BY <1>0, <1>4, <2>5, <2>6, <2>8, <3>1
  <2>. QED
    BY <1>0, <2>7, <2>8
<1>. QED
  BY <1>5, <1>6

LEMMA PrintedStart ==
  ASSUME NEW a \in Seq(AddrSteps)
  PROVE  /\ Lead(First(a, 0)) = <<>>
         /\ String(a) = <<>> => a = <<>> \/ (Len(a) = 1 /\ NoText(a[1]))
         /\ String(a) # <<>> => Len(a) > 0 /\ First(ValueText(a[1]), 0) = <<>>
<1>0. First(a, 0) = <<>> /\ Len(a) \in Nat
  BY FirstChars
<1>1. Lead(First(a, 0)) = <<>>
  BY <1>0 DEF Lead
<1>2. ASSUME String(a) # <<>> PROVE Len(a) > 0 /\ First(ValueText(a[1]), 0) = <<>>
  <2>1. Len(a) > 0
    <3>1. CASE Len(a) = 0
      <4>1. a = <<>>
        BY <3>1
      <4>. QED
        BY <1>2, <4>1, StringAppend
    <3>. QED
      BY <1>0, <3>1
  <2>2. a[1] \in AddrSteps
    BY <2>1
  <2>3. ValueText(a[1]) \in Seq(Characters)
    BY <2>2, StepShape DEF Text
  <2>. QED
    BY <2>1, <2>3, FirstChars
<1>3. ASSUME String(a) = <<>>, a # <<>> PROVE Len(a) = 1 /\ NoText(a[1])
  <2>0. 1 \in 1..Len(a) /\ 1 - 1 = 0
    BY <1>0, <1>3
  <2>1. a[1] \in AddrSteps /\ StepString(a[1]) \in Text
        /\ (1 < Len(a) => StartsWith(String(a), Lead(First(a, 1))))
        /\ Lead(First(a, 1)) = (Lead(First(a, 0)) \o StepString(a[1])) \o <<"/">>
        /\ (1 = Len(a) => String(a) = Lead(First(a, 0)) \o StepString(a[1]))
    BY <2>0, AddrBeginning, StepIsText
  <2>2. <<>> \o StepString(a[1]) = StepString(a[1])
    BY <2>1 DEF Text
  <2>3. ~(1 < Len(a))
    <3>1. SUFFICES ASSUME 1 < Len(a) PROVE FALSE
      OBVIOUS
    <3>2. PICK u \in Text : <<>> = (StepString(a[1]) \o <<"/">>) \o u
      BY <1>1, <1>3, <2>1, <2>2, <3>1 DEF StartsWith
    <3>3. StepString(a[1]) \in Seq(Characters) /\ u \in Seq(Characters) /\ <<"/">> \in Seq(Characters)
      BY <2>1, CharTypes DEF Text
    <3>4. Len((StepString(a[1]) \o <<"/">>) \o u) > 0
      BY <3>3
    <3>. QED
      BY <3>2, <3>4
  <2>4. Len(a) = 1
    <3>. DEFINE n == Len(a)
    <3>1. n \in Nat /\ 1 <= n /\ ~(1 < n)
      BY <1>3, <2>3
    <3>. HIDE DEF n
    <3>2. n = 1
      BY <3>1
    <3>. QED
      BY <3>2 DEF n
  <2>5. StepString(a[1]) = <<>>
    BY <1>1, <1>3, <2>1, <2>2, <2>4
  <2>. DEFINE s == a[1]
              v == ValueText(s)
  <2>6. v \in Text /\ s.variant \in Text /\ escapePropValue(v) \in Text /\ escapeVariantValue(s.variant) \in Text
    BY <2>1, StepShape, EscapeProp, EscapeVariant
  <2>7. s.variant = <<>>
    <3>1. SUFFICES ASSUME s.variant # <<>> PROVE FALSE
      OBVIOUS
    <3>. DEFINE e == escapePropValue(v)
                f == escapeVariantValue(s.variant)
    <3>2. <<>> = e \o ((<<Open>> \o f) \o <<Close>>)
      BY <2>1, <2>5, <3>1, StepShape
    <3>3. e \in Seq(Characters) /\ f \in Seq(Characters) /\ <<Open>> \in Seq(Characters)
          /\ <<Close>> \in Seq(Characters)
      BY <2>6, CharKinds DEF Text
    <3>. HIDE DEF e, f
    <3>4. Len(e \o ((<<Open>> \o f) \o <<Close>>)) > 0
      BY <3>3
    <3>. QED
      BY <3>2, <3>4
  <2>8. escapePropValue(v) = <<>>
    BY <2>1, <2>5, <2>7, StepShape
  <2>9. v = <<>>
    <3>1. SUFFICES ASSUME v # <<>> PROVE FALSE
      OBVIOUS
    <3>2. v \in Seq(Characters)
      BY <2>6 DEF Text
    <3>. HIDE DEF v
    <3>3. 1 \in 1..Len(v) /\ 1 - 1 = 0
      BY <3>1, <3>2
    <3>4. First(v, 0) = <<>> /\ v[1] \in Characters
          /\ escapePropValue(First(v, 1)) = escapePropValue(First(v, 0)) \o PropChar(v[1])
          /\ StartsWith(escapePropValue(v), escapePropValue(First(v, 1)))
      BY <2>6, <3>2, <3>3, ValueBeginning, FirstChars
    <3>5. PropChar(v[1]) \in Text /\ Len(PropChar(v[1])) > 0
      <4>1. CASE v[1] \in NotInValue
        <5>1. \E d : PropChar(v[1]) = <<"\\", d>>
          BY <4>1, CharForms, CharKinds
        <5>2. PropChar(v[1]) \in Text
          BY <3>4, CharTypes
        <5>. QED
          BY <5>1, <5>2
      <4>2. CASE v[1] \notin NotInValue
        <5>1. PropChar(v[1]) = <<v[1]>>
          BY <4>2, CharForms
        <5>2. PropChar(v[1]) \in Text
          BY <3>4, CharTypes
        <5>. QED
          BY <5>1, <5>2
      <4>. QED
        BY <4>1, <4>2
    <3>. DEFINE p == PropChar(v[1])
    <3>6. PICK u \in Text : <<>> = (<<>> \o p) \o u
      BY <2>8, <3>4, EscapeProp DEF StartsWith
    <3>7. p \in Seq(Characters) /\ u \in Seq(Characters) /\ Len(p) > 0
      BY <3>5 DEF Text
    <3>. HIDE DEF p
    <3>8. Len((<<>> \o p) \o u) > 0
      BY <3>7
    <3>. QED
      BY <3>6, <3>8
  <2>. QED
    BY <2>4, <2>7, <2>9 DEF NoText
<1>. QED
  BY <1>1, <1>2, <1>3

LEMMA PrintedInit == Init => PrintedInv
<1>1. ASSUME NEW text \in Written, Start(text, NoAddr) PROVE PrintedInv
  BY <1>1 DEF Start, PrintedInv
<1>2. ASSUME NEW a \in Printed, Start(String(a), a) PROVE PrintedInv
  <2>0. a \in Seq(AddrSteps) /\ Len(a) \in Nat
    BY TextsAssumption
  <2>1. /\ input = String(a) /\ origin = a /\ next = 1 /\ addr = <<>> /\ ~inVariant
        /\ stepValue = <<>> /\ stepVariant = <<>>
        /\ result = IF String(a) = <<>> THEN "ok" ELSE "reading"
    BY <1>2 DEF Start
  <2>2. ReadSoFar /\ Len(addr) = 0
    BY <2>1 DEF ReadSoFar
  <2>3. CASE String(a) = <<>>
    <3>1. result = "ok" /\ ~Reading
      BY <2>1, <2>3 DEF Reading
    <3>2. a = <<>> \/ (Len(a) = 1 /\ NoText(a[1]))
      BY <2>0, <2>3, PrintedStart
    <3>3. CASE a = <<>>
      <4>1. Len(a) = 0
        BY <3>3
      <4>. QED
        BY <2>1, <2>2, <3>1, <4>1 DEF PrintedInv
    <3>4. CASE Len(a) = 1 /\ NoText(a[1])
      BY <2>1, <3>1, <3>4 DEF PrintedInv
    <3>. QED
      BY <3>2, <3>3, <3>4
  <2>4. CASE String(a) # <<>>
    <3>1. result = "reading" /\ Len(a) > 0 /\ First(ValueText(a[1]), 0) = <<>>
          /\ Lead(First(a, 0)) = <<>>
      BY <2>0, <2>1, <2>4, PrintedStart
    <3>2. Now = a[1] /\ Before = <<>>
      BY <2>1, <2>2, <3>1 DEF Now, Before
    <3>3. Len(Before \o escapePropValue(<<>>)) = 0
      BY <3>2, EscapeProp
    <3>4. InValue(0)
      BY <2>1, <3>1, <3>2, <3>3, Norms DEF InValue
    <3>5. 0 \in 0..Len(ValueText(Now))
      <4>1. ValueText(Now) \in Seq(Characters)
        BY <2>0, <3>1, <3>2, StepShape DEF Text
      <4>. QED
        BY <4>1
    <3>. QED
      BY <2>1, <2>2, <3>1, <3>4, <3>5 DEF PrintedInv
  <2>. QED
    BY <2>3, <2>4
<1>. QED
  BY <1>1, <1>2 DEF Init

LEMMA PrintedStep == TypeInv /\ PrintedInv /\ [Next]_vars => PrintedInv'
<1>. SUFFICES ASSUME TypeInv, PrintedInv, [Next]_vars PROVE PrintedInv'
  OBVIOUS
<1>1. CASE UNCHANGED vars
  <2>1. /\ Now' = Now /\ Before' = Before /\ ReadSoFar' = ReadSoFar /\ Reading' = Reading
        /\ origin' = origin /\ input' = input /\ addr' = addr /\ result' = result
        /\ next' = next /\ inVariant' = inVariant /\ stepValue' = stepValue /\ stepVariant' = stepVariant
    BY <1>1 DEF vars, Now, Before, ReadSoFar, Reading
  <2>2. /\ \A k : InValue(k)' = InValue(k)
        /\ \A m : InBraces(m)' = InBraces(m)
        /\ AtEnd' = AtEnd
    BY <2>1, Zenon DEF InValue, InBraces, AtEnd
  <2>. QED
    BY <2>1, <2>2 DEF PrintedInv
<1>2. CASE Reprint
  <2>0. addr \in Seq(AddrSteps) /\ Len(addr) \in Nat
    BY DEF TypeInv
  <2>1. /\ input' = String(addr) /\ origin' = addr /\ next' = 1 /\ addr' = <<>> /\ inVariant' = FALSE
        /\ stepValue' = <<>> /\ stepVariant' = <<>>
        /\ result' = IF addr = <<>> THEN "ok" ELSE "reading"
    BY <1>2 DEF Reprint
  <2>2. ReadSoFar' /\ Len(addr') = 0
    BY <2>1 DEF ReadSoFar
  <2>3. CASE addr = <<>>
    <3>1. result' = "ok" /\ ~Reading' /\ Len(addr) = 0
      BY <2>1, <2>3 DEF Reading
    <3>. QED
      BY <2>1, <2>2, <3>1 DEF PrintedInv
  <2>4. CASE addr # <<>>
    <3>0. Len(addr) > 0 /\ addr[1] \in AddrSteps
      BY <2>0, <2>4
    <3>1. result' = "reading" /\ Lead(First(addr, 0)) = <<>> /\ First(ValueText(addr[1]), 0) = <<>>
      <4>1. ValueText(addr[1]) \in Seq(Characters)
        BY <3>0, StepShape DEF Text
      <4>. QED
        BY <2>0, <2>1, <2>4, <4>1, PrintedStart, FirstChars
    <3>2. Now' = addr[1] /\ Before' = <<>>
      BY <2>1, <2>2, <3>1 DEF Now, Before
    <3>3. Len(Before' \o escapePropValue(<<>>)) = 0
      BY <3>2, EscapeProp
    <3>4. InValue(0)'
      BY <2>1, <3>1, <3>2, <3>3, Norms DEF InValue
    <3>5. 0 \in 0..Len(ValueText(Now'))
      <4>1. ValueText(Now') \in Seq(Characters)
        BY <3>0, <3>2, StepShape DEF Text
      <4>. QED
        BY <4>1
    <3>. QED
      BY <2>1, <2>2, <3>0, <3>1, <3>4, <3>5 DEF PrintedInv
  <2>. QED
    BY <2>3, <2>4
<1>3. CASE ReadStep
  <2>1. Reading /\ UNCHANGED origin
    BY <1>3, DelimiterDoes, OpenDoes, CloseDoes DEF ReadStep, Escape, Other
  <2>2. CASE origin = NoAddr
    BY <2>1, <2>2 DEF PrintedInv
  <2>3. CASE origin # NoAddr
    <3>1. Context /\ ReadSoFar
          /\ \/ \E k \in 0..Len(ValueText(Now)) : InValue(k)
             \/ \E m \in 0..Len(Now.variant) : InBraces(m)
             \/ AtEnd
      BY <2>1, <2>3 DEF PrintedInv, Context, TypeInv
    <3>2. ValueText(Now) \in Seq(Characters) /\ Now.variant \in Seq(Characters)
      BY <3>1, ContextFacts DEF Text
    <3>3. ASSUME UNCHANGED <<input, origin, addr, result>>, Now' = Now,
                 \/ \E k \in 0..Len(ValueText(Now)) : InValue(k)'
                 \/ \E m \in 0..Len(Now.variant) : InBraces(m)'
                 \/ AtEnd'
          PROVE  PrintedInv'
      <4>1. ReadSoFar'
        BY <3>1, <3>3 DEF ReadSoFar
      <4>2. result' = "reading" /\ input' = String(origin') /\ Len(addr') < Len(origin')
        BY <3>1, <3>3 DEF Context, Reading
      <4>3. \/ \E k \in 0..Len(ValueText(Now')) : InValue(k)'
            \/ \E m \in 0..Len(Now'.variant) : InBraces(m)'
            \/ AtEnd'
        BY <3>3
      <4>. QED
        BY <4>1, <4>2, <4>3 DEF PrintedInv
    <3>4. CASE AtEnd
      <4>1. /\ UNCHANGED <<input, origin>>
            /\ \/ result' = "error" /\ NoText(Now)
               \/ /\ Len(addr') = Len(addr) + 1 /\ ReadSoFar'
                  /\ \/ result' = "ok" /\ Len(addr') = Len(origin)
                     \/ result' = "reading" /\ Len(addr') < Len(origin) /\ InValue(0)'
        BY <1>3, <3>1, <3>4, EndsStep
      <4>2. input' = String(origin') /\ origin' \in Seq(AddrSteps)
        BY <3>1, <4>1 DEF Context
      <4>3. CASE result' = "error" /\ NoText(Now)
        <5>1. Len(addr) + 1 \in DOMAIN origin'
          BY <3>1, <4>1, ContextFacts DEF Context
        <5>2. NoText(origin'[Len(addr) + 1])
          BY <4>1, <4>3 DEF Now
        <5>. QED
          BY <4>2, <4>3, <5>1, <5>2 DEF PrintedInv, Reading
      <4>4. CASE result' = "ok" /\ Len(addr') = Len(origin) /\ ReadSoFar'
        BY <4>1, <4>2, <4>4 DEF PrintedInv, Reading
      <4>5. CASE result' = "reading" /\ Len(addr') < Len(origin) /\ InValue(0)' /\ ReadSoFar'
        <5>1. 0 \in 0..Len(ValueText(Now'))
          <6>0. addr' \in Seq(AddrSteps) /\ Len(addr') \in Nat
            BY TypeStep DEF TypeInv
          <6>1. Now' \in AddrSteps
            BY <3>1, <4>1, <4>2, <4>5, <6>0 DEF Now
          <6>2. ValueText(Now') \in Seq(Characters)
            BY <6>1, StepShape DEF Text
          <6>. QED
            BY <6>2
        <5>. QED
          BY <4>1, <4>2, <4>5, <5>1 DEF PrintedInv, Reading
      <4>. QED
        BY <4>1, <4>3, <4>4, <4>5
    <3>5. ASSUME NEW k \in 0..Len(ValueText(Now)), InValue(k) PROVE PrintedInv'
      <4>1. CASE k < Len(ValueText(Now))
        <5>1. InValue(k + 1)' /\ UNCHANGED <<input, origin, addr, result>> /\ Now' = Now
          BY <1>3, <3>1, <3>5, <4>1, TakesValue
        <5>2. k + 1 \in 0..Len(ValueText(Now))
          BY <3>2, <4>1
        <5>. QED
          BY <3>3, <5>1, <5>2
      <4>2. CASE k = Len(ValueText(Now))
        <5>1. CASE Now.variant = <<>>
          BY <3>1, <3>4, <3>5, <4>2, <5>1, ValueAtEnd
        <5>2. CASE Now.variant # <<>>
          <6>1. InBraces(0)' /\ UNCHANGED <<input, origin, addr, result>> /\ Now' = Now
            BY <1>3, <3>1, <3>5, <4>2, <5>2, OpensVariant
          <6>2. 0 \in 0..Len(Now.variant)
            BY <3>2
          <6>. QED
            BY <3>3, <6>1, <6>2
        <5>. QED
          BY <5>1, <5>2
      <4>. QED
        BY <3>2, <4>1, <4>2
    <3>6. ASSUME NEW m \in 0..Len(Now.variant), InBraces(m) PROVE PrintedInv'
      <4>1. CASE m < Len(Now.variant)
        <5>1. InBraces(m + 1)' /\ UNCHANGED <<input, origin, addr, result>> /\ Now' = Now
          BY <1>3, <3>1, <3>6, <4>1, TakesVariant
        <5>2. m + 1 \in 0..Len(Now.variant)
          BY <3>2, <4>1
        <5>. QED
          BY <3>3, <5>1, <5>2
      <4>2. CASE m = Len(Now.variant)
        BY <1>3, <3>1, <3>3, <3>6, <4>2, ClosesVariant
      <4>. QED
        BY <3>2, <4>1, <4>2
    <3>. QED
      BY <3>1, <3>4, <3>5, <3>6
  <2>. QED
    BY <2>2, <2>3
<1>. QED
  BY <1>1, <1>2, <1>3 DEF Next, ReadStep

-------------------------------------------------------------------------------
(* The theorems.                                                            *)

IInv == TypeInv /\ WrittenInv /\ PrintedInv

LEMMA IInvHolds == Spec => []IInv
<1>1. Init => IInv
  BY TypeInit, WrittenInit, PrintedInit DEF IInv
<1>2. IInv /\ [Next]_vars => IInv'
  BY TypeStep, WrittenStep, PrintedStep DEF IInv
<1>. QED
  BY <1>1, <1>2, PTL DEF Spec

(* Types: the steps that ParseAddr collects are steps of an address, at     *)
(* every moment (property_addr.go:98).                                      *)
THEOREM AddrTypes == Spec => []TypeInv
<1>1. IInv => TypeInv
  BY DEF IInv
<1>. QED
  BY <1>1, IInvHolds, PTL

(* A written address without escapes prints as it was written, whatever its *)
(* length, unless its last variant is not closed (property_addr.go:131).    *)
THEOREM WrittenAddrIsKept == Spec => []WrittenIsKept
<1>1. IInv => WrittenIsKept
  <2>1. SUFFICES ASSUME IInv, result = "ok", origin = NoAddr, "\\" \notin Range(input)
                 PROVE  String(addr) = input <=> ~inVariant
    BY DEF WrittenIsKept
  <2>2. Without(input, {"\\"})
    BY <2>1 DEF Without, Range
  <2>. QED
    BY <2>1, <2>2 DEF IInv, WrittenInv
<1>. QED
  BY <1>1, IInvHolds, PTL

(* A step comes back as it was exactly when it is one of those kept.        *)
LEMMA KeptSteps ==
  ASSUME NEW s \in AddrSteps
  PROVE  Kept(s) <=> NormStep(s) = s /\ ~NoText(s)
<1>1. CASE s.type = "index"
  <2>1. ValueText(s) = <<"*">> /\ s.value = <<>>
    BY <1>1 DEF ValueText, AddrSteps
  <2>2. Norm(<<"*">>) = <<"*">>
    BY CharKinds DEF Norm, NormChar
  <2>3. NormStep(s) = s
    <3>1. s = [type |-> s.type, value |-> s.value, variant |-> s.variant]
      BY DEF AddrSteps
    <3>2. NormStep(s) = [type |-> "index", value |-> <<>>, variant |-> s.variant]
      BY <2>1, <2>2 DEF NormStep
    <3>. QED
      BY <1>1, <2>1, <3>1, <3>2
  <2>4. ~NoText(s) /\ Kept(s)
    BY <1>1, <2>1 DEF NoText, Kept
  <2>. QED
    BY <2>3, <2>4
<1>2. CASE s.type # "index"
  <2>0. s.type = "prop" /\ ValueText(s) = s.value /\ s.value \in Seq(Characters)
        /\ s = [type |-> "prop", value |-> s.value, variant |-> s.variant]
    BY <1>2 DEF ValueText, AddrSteps, Text
  <2>1. Norm(s.value) = s.value <=> Open \notin Range(s.value)
    <3>1. ASSUME Norm(s.value) = s.value PROVE Open \notin Range(s.value)
      <4>1. \A i \in DOMAIN s.value : NormChar(s.value[i]) = s.value[i]
        BY <3>1 DEF Norm
      <4>. QED
        BY <4>1, CharKinds DEF NormChar, Range
    <3>2. ASSUME Open \notin Range(s.value) PROVE Norm(s.value) = s.value
      <4>1. \A i \in DOMAIN s.value : NormChar(s.value[i]) = s.value[i]
        BY <3>2 DEF NormChar, Range
      <4>. QED
        BY <2>0, <4>1 DEF Norm
    <3>. QED
      BY <3>1, <3>2
  <2>2. Kept(s) <=> s.value # <<"*">> /\ Open \notin Range(s.value)
                    /\ (s.value # <<>> \/ s.variant # <<>>)
    BY <2>0, Zenon DEF Kept, Open
  <2>3. NoText(s) <=> s.value = <<>> /\ s.variant = <<>>
    BY <2>0 DEF NoText
  <2>4. ASSUME Norm(s.value) = <<"*">> PROVE NormStep(s) # s /\ (s.value = <<"*">> \/ Open \in Range(s.value))
    <3>1. NormStep(s).type = "index"
      BY <2>0, <2>4 DEF NormStep
    <3>. QED
      BY <2>0, <2>1, <2>4, <3>1
  <2>5. ASSUME Norm(s.value) # <<"*">> PROVE NormStep(s) = s <=> Norm(s.value) = s.value
    <3>1. NormStep(s) = [type |-> "prop", value |-> Norm(s.value), variant |-> s.variant]
      BY <2>0, <2>5 DEF NormStep
    <3>2. NormStep(s).value = Norm(s.value)
      BY <3>1
    <3>. QED
      BY <2>0, <3>1, <3>2
  <2>. QED
    BY <2>1, <2>2, <2>3, <2>4, <2>5
<1>. QED
  BY <1>1, <1>2

(* A printed address comes back, whatever its length and its names, exactly *)
(* if each of its steps is one that is kept (property_addr.go:53 and :131). *)
THEOREM AddrRoundTrip == Spec => []RoundTrip
<1>1. IInv => RoundTrip
  <2>1. SUFFICES ASSUME TypeInv, PrintedInv, origin # NoAddr, ~Reading
        PROVE (result = "ok" /\ addr = origin) <=> \A i \in DOMAIN origin : Kept(origin[i])
    BY DEF IInv, RoundTrip
  <2>2. /\ origin \in Seq(AddrSteps) /\ addr \in Seq(AddrSteps) /\ result \in {"ok", "error"}
        /\ DOMAIN origin = 1..Len(origin) /\ DOMAIN addr = 1..Len(addr)
        /\ \A i \in DOMAIN origin : origin[i] \in AddrSteps
    BY <2>1 DEF TypeInv, Reading
  <2>3. /\ result = "ok" =>
             \/ Len(addr) = Len(origin) /\ ReadSoFar
             \/ addr = <<>> /\ Len(origin) = 1 /\ NoText(origin[1])
        /\ result = "error" => \E i \in DOMAIN origin : NoText(origin[i])
    BY <2>1 DEF PrintedInv
  <2>4. ASSUME result = "ok", addr = origin, NEW i \in DOMAIN origin PROVE Kept(origin[i])
    <3>1. Len(addr) = Len(origin) /\ ReadSoFar
      BY <2>2, <2>3, <2>4
    <3>2. addr[i] = NormStep(origin[i]) /\ ~NoText(origin[i])
      BY <2>2, <2>4, <3>1 DEF ReadSoFar
    <3>. QED
      BY <2>2, <2>4, <3>2, KeptSteps
  <2>5. ASSUME \A i \in DOMAIN origin : Kept(origin[i]) PROVE result = "ok" /\ addr = origin
    <3>1. \A i \in DOMAIN origin : NormStep(origin[i]) = origin[i] /\ ~NoText(origin[i])
      BY <2>2, <2>5, KeptSteps
    <3>2. result = "ok"
      BY <2>2, <2>3, <3>1
    <3>3. Len(addr) = Len(origin) /\ ReadSoFar
      <4>1. Len(origin) = 1 => 1 \in DOMAIN origin
        BY <2>2
      <4>. QED
        BY <2>3, <3>1, <3>2, <4>1
    <3>4. \A i \in 1..Len(addr) : addr[i] = origin[i]
      BY <2>2, <3>1, <3>3 DEF ReadSoFar
    <3>. QED
      BY <2>2, <3>2, <3>3, <3>4
  <2>. QED
    BY <2>4, <2>5
<1>. QED
  BY <1>1, IInvHolds, PTL

===============================================================================
