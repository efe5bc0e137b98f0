------------------------------ MODULE ValueProofs ------------------------------
(***************************************************************************)
(* Proofs about values, which stand for the leaves they come from: the map  *)
(* that tryStore builds is the unambiguous leaves, for any leaves, any      *)
(* texts and any order of the walk, and the generator makes no value twice  *)
(* but where a format loses what it is made from.                           *)
(***************************************************************************)
EXTENDS ValueMap, Rnd, Minima, SequenceTheorems

Types == text \in [Leaf -> Text] /\ todo \subseteq Leaf

LEMMA InitMaps == Init => Types /\ MapsTheUnambiguous
  BY DEF Init, Types, MapsTheUnambiguous, UniqueSoFar, Visited

(* The property, text by text.                                              *)
Several(t) == \E l, m \in Visited : l # m /\ text[l] = t /\ text[m] = t

RightAt(t) ==
  /\ t \in DOMAIN out <=> \E l \in Leaf : UniqueSoFar(t, l)
  /\ t \in DOMAIN out => UniqueSoFar(t, out[t])
  /\ t \in dupm <=> Several(t)

RightEverywhere ==
  /\ DOMAIN out \subseteq Text /\ dupm \subseteq Text
  /\ \A t \in Text : RightAt(t)

LEMMA TextByText == MapsTheUnambiguous <=> RightEverywhere
<1>1. MapsTheUnambiguous => RightEverywhere
  BY DEF MapsTheUnambiguous, RightEverywhere, RightAt, Several
<1>2. ASSUME RightEverywhere PROVE MapsTheUnambiguous
  <2>1. DOMAIN out = {t \in Text : \E l \in Leaf : UniqueSoFar(t, l)}
    BY <1>2 DEF RightEverywhere, RightAt
  <2>2. \A t \in DOMAIN out : UniqueSoFar(t, out[t])
    BY <1>2 DEF RightEverywhere, RightAt
  <2>3. dupm = {t \in Text : Several(t)}
    BY <1>2 DEF RightEverywhere, RightAt
  <2> QED
    BY <2>1, <2>2, <2>3 DEF MapsTheUnambiguous, Several
<1> QED
  BY <1>1, <1>2

LEMMA VisitMaps ==
  ASSUME Types, MapsTheUnambiguous, NEW l \in Leaf, Visit(l)
  PROVE  Types' /\ MapsTheUnambiguous'
<1> PICK k \in Text : k = text[l]
  BY DEF Types
<1>1. /\ l \notin Visited /\ Visited' = Visited \cup {l}
      /\ text' = text
  BY DEF Visit, Types, Visited
<1>2. Types'
  BY DEF Visit, Types
<1>3. DOMAIN out \subseteq Text /\ dupm \subseteq Text /\ \A t \in Text : RightAt(t)
  BY TextByText DEF RightEverywhere
<1>4. (DOMAIN out)' \subseteq Text /\ dupm' \subseteq Text
  BY <1>1, <1>3 DEF Visit, tryStore
(* The texts other than k are as they were.                                 *)
<1>5. ASSUME NEW t \in Text, t # k PROVE RightAt(t)'
  <2>1. /\ t \in DOMAIN out' <=> t \in DOMAIN out
        /\ t \in DOMAIN out => out'[t] = out[t]
        /\ t \in dupm' <=> t \in dupm
    BY <1>5 DEF Visit, tryStore
  <2>2. \A m : UniqueSoFar(t, m)' <=> UniqueSoFar(t, m)
    BY <1>1, <1>5 DEF UniqueSoFar
  <2>3. Several(t)' <=> Several(t)
    BY <1>1, <1>5 DEF Several
  <2> QED
    BY <1>3, <2>1, <2>2, <2>3 DEF RightAt
(* k was met twice before, or is met the second or the first time.          *)
<1>6. RightAt(k)'
  <2>1. RightAt(k)
    BY <1>1, <1>3
  <2>2. CASE k \in dupm /\ UNCHANGED <<out, dupm>>
    <3>1. Several(k) /\ Several(k)'
      BY <1>1, <2>1, <2>2 DEF RightAt, Several
    <3>2. \A u \in Leaf : ~UniqueSoFar(k, u) /\ ~UniqueSoFar(k, u)'
      BY <3>1 DEF UniqueSoFar, Several
    <3> QED
      BY <2>1, <2>2, <3>1, <3>2 DEF RightAt
  <2>3. CASE /\ k \notin dupm /\ k \in DOMAIN out
             /\ out' = [t \in DOMAIN out \ {k} |-> out[t]]
             /\ dupm' = dupm \cup {k}
    <3>1. UniqueSoFar(k, out[k])
      BY <2>1, <2>3 DEF RightAt
    <3>2. Several(k)'
      BY <1>1, <3>1 DEF UniqueSoFar, Several
    <3>3. \A u \in Leaf : ~UniqueSoFar(k, u)'
      BY <3>2 DEF UniqueSoFar, Several
    <3> QED
      BY <2>3, <3>2, <3>3 DEF RightAt
  <2>4. CASE /\ k \notin dupm /\ k \notin DOMAIN out
             /\ out' = [t \in DOMAIN out \cup {k} |-> IF t = k THEN l ELSE out[t]]
             /\ UNCHANGED dupm
    <3>1. \A m \in Visited : text[m] # k
      BY <2>1, <2>4 DEF RightAt, Several, UniqueSoFar, Visited
    <3>2. UniqueSoFar(k, l)' /\ ~Several(k)'
      BY <1>1, <3>1 DEF UniqueSoFar, Several
    <3>3. k \in DOMAIN out' /\ out'[k] = l /\ k \notin dupm'
      BY <2>4
    <3> QED
      BY <3>2, <3>3 DEF RightAt
  <2> QED
    BY <2>2, <2>3, <2>4 DEF Visit, tryStore
<1>7. RightEverywhere'
  BY <1>4, <1>5, <1>6 DEF RightEverywhere
<1>8. MapsTheUnambiguous'
  BY <1>7, TextByText, PTL
<1> QED
  BY <1>2, <1>8

(* tryStore (json_value.go:149-159, map.go:165-175) keeps exactly the texts *)
(* of a single leaf, at every point of the walk.                            *)
THEOREM MapsCorrect == Spec => []MapsTheUnambiguous
<1>1. Types /\ MapsTheUnambiguous /\ [Next]_vars => Types' /\ MapsTheUnambiguous'
  <2> SUFFICES ASSUME Types, MapsTheUnambiguous, [Next]_vars
               PROVE  Types' /\ MapsTheUnambiguous'
    OBVIOUS
  <2>1. CASE Next
    BY <2>1, VisitMaps DEF Next
  <2>2. CASE UNCHANGED vars
    BY <2>2 DEF vars, Types, MapsTheUnambiguous, UniqueSoFar, Visited
  <2> QED
    BY <2>1, <2>2
<1> QED
  BY InitMaps, <1>1, PTL DEF Spec

-------------------------------------------------------------------------------
(* The generator: what it has handed out does not come back.                *)

Letters == 1..LastLetter

(* The order in which raw strings come: by length, then by the first letter *)
(* that differs.                                                            *)
Before(s, t) ==
  \/ Len(s) < Len(t)
  \/ /\ Len(s) = Len(t)
     /\ \E j \in 1..Len(s) : s[j] < t[j] /\ \A i \in 1..(j - 1) : s[i] = t[i]
UpTo(s, t) == s = t \/ Before(s, t)

LEMMA Strings ==
  ASSUME NEW s \in Seq(Letters)
  PROVE  /\ Len(s) \in Nat /\ DOMAIN s = 1..Len(s)
         /\ \A i \in 1..Len(s) : s[i] \in Letters /\ s[i] \in Nat
<1>1. Len(s) \in Nat /\ DOMAIN s = 1..Len(s)
  BY LenProperties
<1>2. \A i \in 1..Len(s) : s[i] \in Letters
  BY ElementOfSeq
<1>3. Letters \subseteq Nat
  BY LastLetterAssumption DEF Letters
<1>. QED
  BY <1>1, <1>2, <1>3

LEMMA StringOf ==
  ASSUME NEW n \in Nat, NEW t \in [1..n -> Letters]
  PROVE  t \in Seq(Letters) /\ Len(t) = n
<1>1. t \in Seq(Letters)
  BY IsASeq
<1>2. Len(t) \in Nat /\ 1..Len(t) = 1..n
  BY <1>1, LenProperties
<1>. QED
  BY <1>1, <1>2

LEMMA BeforeIsStrict == ASSUME NEW s \in Seq(Letters) PROVE ~Before(s, s)
BY Strings DEF Before

LEMMA BeforeGoesOn ==
  ASSUME NEW s \in Seq(Letters), NEW t \in Seq(Letters), NEW u \in Seq(Letters),
         Before(s, t), Before(t, u)
  PROVE  Before(s, u)
<1>1. Len(s) \in Nat /\ Len(t) \in Nat /\ Len(u) \in Nat
  BY Strings
<1>2. CASE Len(s) < Len(t) \/ Len(t) < Len(u)
  BY <1>1, <1>2 DEF Before
<1>3. CASE ~(Len(s) < Len(t)) /\ ~(Len(t) < Len(u))
  <2>1. Len(s) = Len(t) /\ Len(t) = Len(u)
    BY <1>3 DEF Before
  <2>2. PICK j \in 1..Len(s) : s[j] < t[j] /\ \A i \in 1..(j - 1) : s[i] = t[i]
    BY <1>3 DEF Before
  <2>3. PICK k \in 1..Len(s) : t[k] < u[k] /\ \A i \in 1..(k - 1) : t[i] = u[i]
    BY <1>3, <2>1 DEF Before
  <2>4. \A i \in 1..Len(s) : s[i] \in Nat /\ t[i] \in Nat /\ u[i] \in Nat
    BY <2>1, Strings
  <2>. DEFINE l == IF j <= k THEN j ELSE k
  <2>5. l \in 1..Len(s) /\ s[l] < u[l]
    BY <1>1, <2>2, <2>3, <2>4
  <2>6. \A i \in 1..(l - 1) : s[i] = u[i]
    BY <1>1, <2>2, <2>3
  <2>. HIDE DEF l
  <2>. QED
    BY <2>1, <2>5, <2>6 DEF Before
<1>. QED
  BY <1>2, <1>3

(* The carry: the next raw string is a later one (random.go:178).           *)
LEMMA NextIsLater ==
  ASSUME NEW s \in Seq(Letters)
  PROVE  NextRawString(s) \in Seq(Letters) /\ Before(s, NextRawString(s))
<1>. DEFINE below == {i \in DOMAIN s : s[i] # LastLetter}
            t == NextRawString(s)
<1>1. /\ Len(s) \in Nat /\ DOMAIN s = 1..Len(s)
      /\ \A i \in 1..Len(s) : s[i] \in Letters /\ s[i] \in Nat
  BY Strings
<1>2. 1 \in Letters /\ LastLetter \in Nat
  BY LastLetterAssumption DEF Letters
<1>3. CASE below = {}
  <2>1. t = [i \in 1..(Len(s) + 1) |-> 1]
    BY <1>3 DEF NextRawString
  <2>2. t \in [1..(Len(s) + 1) -> Letters] /\ Len(s) + 1 \in Nat
    BY <1>1, <1>2, <2>1
  <2>. HIDE DEF t
  <2>3. t \in Seq(Letters) /\ Len(t) = Len(s) + 1
    BY <2>2, StringOf
  <2>4. Len(s) \in Nat /\ Len(t) = Len(s) + 1
    BY <1>1, <2>3
  <2>5. Before(s, t)
    BY <2>4 DEF Before
  <2>. QED
    BY <2>3, <2>5 DEF t
<1>4. CASE below # {}
  <2>. DEFINE j == CHOOSE j \in below : \A i \in below : i <= j
  <2>1. below \in SUBSET (0..Len(s))
    BY <1>1
  <2>2. \E k \in below : \A i \in below : i <= k
    <3>. HIDE DEF below
    <3>. QED
      BY <1>1, <1>4, <2>1, GreatestNatural
  <2>3. j \in below
    BY <2>2
  <2>4. t = [i \in DOMAIN s |-> IF i < j THEN s[i] ELSE IF i = j THEN s[i] + 1 ELSE 1]
    BY <1>4 DEF NextRawString
  <2>. HIDE DEF j
  <2>5. j \in 1..Len(s) /\ s[j] # LastLetter
    BY <1>1, <2>3
  <2>6. s[j] + 1 \in Letters
    BY <1>1, <1>2, <2>5 DEF Letters
  <2>7. t \in [1..Len(s) -> Letters]
    BY <1>1, <1>2, <2>4, <2>6
  <2>8. s[j] < t[j] /\ \A i \in 1..(j - 1) : s[i] = t[i]
    BY <1>1, <2>4, <2>5
  <2>. HIDE DEF t
  <2>9. t \in Seq(Letters) /\ Len(t) = Len(s)
    BY <1>1, <2>7, StringOf
  <2>10. Before(s, t)
    BY <2>5, <2>8, <2>9 DEF Before
  <2>. QED
    BY <2>9, <2>10 DEF t
<1>. QED
  BY <1>3, <1>4

(* base64 can be read back: no two raw strings are encoded alike.           *)
LEMMA WholeOf ==
  ASSUME NEW m \in Nat
  PROVE  /\ Whole(4 * m + 1) = 3 * m     /\ (4 * m + 1) % 4 = 1
         /\ Whole(4 * m + 2) = 3 * m     /\ (4 * m + 2) % 4 = 2
         /\ Whole(4 * m + 3) = 3 * m + 1 /\ (4 * m + 3) % 4 = 3
         /\ Whole(4 * m + 4) = 3 * m + 2 /\ (4 * m + 4) % 4 = 0
BY DEF Whole

LEMMA BytesOf ==
  ASSUME NEW s \in Seq(Letters), NEW j \in Nat \ {0}
  PROVE  /\ Byte(s, j) \in 0..122
         /\ j <= Len(s) => s[j] \in Nat /\ Byte(s, j) = 96 + s[j] /\ Byte(s, j) \in 97..122
<1>1. Len(s) \in Nat /\ \A i \in 1..Len(s) : s[i] \in Letters
  BY Strings
<1>2. Letters \subseteq 1..26
  BY LastLetterAssumption DEF Letters
<1>3. CASE j <= Len(s)
  <2>1. j \in 1..Len(s)
    BY <1>1, <1>3
  <2>2. PICK l \in 1..26 : s[j] = l
    BY <1>1, <1>2, <2>1
  <2>3. Byte(s, j) = 96 + l
    BY <1>3, <2>2 DEF Byte
  <2>. QED
    BY <2>2, <2>3
<1>4. CASE ~(j <= Len(s))
  BY <1>4 DEF Byte
<1>. QED
  BY <1>3, <1>4

LEMMA SextetsOf ==
  ASSUME NEW s \in Seq(Letters), NEW m \in Nat
  PROVE  LET a == Byte(s, 3 * m + 1)
             b == Byte(s, 3 * m + 2)
             c == Byte(s, 3 * m + 3)
         IN  /\ Sextet(s, 4 * m + 1) = a \div 4
             /\ Sextet(s, 4 * m + 2) = (a % 4) * 16 + b \div 16
             /\ Sextet(s, 4 * m + 3) = (b % 16) * 4 + c \div 64
             /\ Sextet(s, 4 * m + 4) = c % 64
<1>1. 3 * m + 1 + 1 = 3 * m + 2 /\ 3 * m + 2 + 1 = 3 * m + 3
  OBVIOUS
<1>2. Sextet(s, 4 * m + 1) = Byte(s, 3 * m + 1) \div 4
  BY WholeOf DEF Sextet
<1>3. Sextet(s, 4 * m + 2) = (Byte(s, 3 * m + 1) % 4) * 16 + Byte(s, 3 * m + 2) \div 16
  BY <1>1, WholeOf DEF Sextet
<1>4. Sextet(s, 4 * m + 3) = (Byte(s, 3 * m + 2) % 16) * 4 + Byte(s, 3 * m + 3) \div 64
  BY <1>1, WholeOf DEF Sextet
<1>5. Sextet(s, 4 * m + 4) = Byte(s, 3 * m + 3) % 64
  BY <1>1, WholeOf DEF Sextet
<1>. QED
  BY <1>2, <1>3, <1>4, <1>5

LEMMA SextetIsSmall ==
  ASSUME NEW s \in Seq(Letters), NEW m \in Nat, NEW i \in 1..4
  PROVE  Sextet(s, 4 * m + i) \in 0..63
<1>. DEFINE a == Byte(s, 3 * m + 1)
            b == Byte(s, 3 * m + 2)
            c == Byte(s, 3 * m + 3)
<1>1. a \in 0..122 /\ b \in 0..122 /\ c \in 0..122
  <2>1. 3 * m + 1 \in Nat \ {0} /\ 3 * m + 2 \in Nat \ {0} /\ 3 * m + 3 \in Nat \ {0}
    OBVIOUS
  <2>. QED
    BY <2>1, BytesOf
<1>2. /\ Sextet(s, 4 * m + 1) = a \div 4
      /\ Sextet(s, 4 * m + 2) = (a % 4) * 16 + b \div 16
      /\ Sextet(s, 4 * m + 3) = (b % 16) * 4 + c \div 64
      /\ Sextet(s, 4 * m + 4) = c % 64
  BY SextetsOf
<1>. HIDE DEF a, b, c
<1>3. /\ a \div 4 \in 0..63 /\ (a % 4) * 16 + b \div 16 \in 0..63
      /\ (b % 16) * 4 + c \div 64 \in 0..63 /\ c % 64 \in 0..63
  BY <1>1
<1>4. i = 1 \/ i = 2 \/ i = 3 \/ i = 4
  OBVIOUS
<1>. QED
  BY <1>2, <1>3, <1>4

(* Character k of the encoding, and the one that shows that byte j exists.  *)
LEMMA CharacterOf ==
  ASSUME NEW s \in Seq(Letters), NEW m \in Nat, NEW i \in 1..4
  PROVE  LET k == 4 * m + i
         IN  /\ k \in DOMAIN Base64(s) <=> 3 * m < Len(s)
             /\ k \in DOMAIN Base64(s) =>
                  Base64(s)[k] = IF Whole(k) < Len(s) THEN Sextet(s, k) - 25 ELSE Padding
<1>. DEFINE k == 4 * m + i
<1>1. Len(s) \in Nat
  BY Strings
<1>2. k \in 1..(4 * ((Len(s) + 2) \div 3)) <=> 3 * m < Len(s)
  BY <1>1
<1>. QED
  BY <1>2 DEF Base64

(* An encoding tells how many bytes there are ...                           *)
LEMMA EncodedLength ==
  ASSUME NEW s \in Seq(Letters), NEW t \in Seq(Letters), Base64(s) = Base64(t)
  PROVE  ~(Len(s) < Len(t))
<1>. SUFFICES ASSUME Len(s) < Len(t) PROVE FALSE
  OBVIOUS
<1>1. Len(s) \in Nat /\ Len(t) \in Nat
  BY Strings
<1>2. PICK m \in Nat : \/ Len(t) - 1 = 3 * m
                       \/ Len(t) - 1 = 3 * m + 1
                       \/ Len(t) - 1 = 3 * m + 2
  <2>. DEFINE q == (Len(t) - 1) \div 3
  <2>1. /\ q \in Nat
        /\ Len(t) - 1 = 3 * q \/ Len(t) - 1 = 3 * q + 1 \/ Len(t) - 1 = 3 * q + 2
    BY <1>1
  <2>. QED
    BY <2>1
<1>3. PICK i \in 1..4 : Whole(4 * m + i) = Len(t) - 1
  <2>1. CASE Len(t) - 1 = 3 * m
    BY <2>1, WholeOf
  <2>2. CASE Len(t) - 1 = 3 * m + 1
    BY <2>2, WholeOf
  <2>3. CASE Len(t) - 1 = 3 * m + 2
    BY <2>3, WholeOf
  <2>. QED
    BY <1>2, <2>1, <2>2, <2>3
<1>. DEFINE k == 4 * m + i
<1>4. k \in DOMAIN Base64(t) /\ k \in DOMAIN Base64(s)
  BY <1>1, <1>2, CharacterOf
<1>5. Base64(t)[k] = Sextet(t, k) - 25 /\ Base64(s)[k] = Padding
  <2>1. Whole(k) < Len(t) /\ ~(Whole(k) < Len(s))
    BY <1>1, <1>3
  <2>. QED
    BY <1>2, <1>4, <2>1, CharacterOf
<1>6. PICK v \in 0..63 : Sextet(t, k) = v
  BY <1>2, SextetIsSmall
<1>. QED
  BY <1>5, <1>6 DEF Padding

(* ... and which ones: base64 can be read back.                             *)
LEMMA EncodedOnce ==
  ASSUME NEW s \in Seq(Letters), NEW t \in Seq(Letters), Base64(s) = Base64(t)
  PROVE  s = t
<1>1. Len(s) \in Nat /\ Len(t) \in Nat /\ Len(s) = Len(t)
  BY Strings, EncodedLength
<1>2. ASSUME NEW m \in Nat, NEW i \in 1..4, Whole(4 * m + i) < Len(s), 3 * m < Len(s)
      PROVE  Sextet(s, 4 * m + i) = Sextet(t, 4 * m + i)
  <2>. DEFINE k == 4 * m + i
  <2>1. k \in DOMAIN Base64(s) /\ k \in DOMAIN Base64(t)
    BY <1>1, <1>2, CharacterOf
  <2>2. Base64(s)[k] = Sextet(s, k) - 25 /\ Base64(t)[k] = Sextet(t, k) - 25
    BY <1>1, <1>2, <2>1, CharacterOf
  <2>3. PICK v \in 0..63 : Sextet(s, k) = v
    BY <1>2, SextetIsSmall
  <2>4. PICK w \in 0..63 : Sextet(t, k) = w
    BY <1>2, SextetIsSmall
  <2>. QED
    BY <2>2, <2>3, <2>4
<1>3. ASSUME NEW j \in 1..Len(s) PROVE Byte(s, j) = Byte(t, j)
  <2>. DEFINE m == (j - 1) \div 3
              a == Byte(s, 3 * m + 1)
              b == Byte(s, 3 * m + 2)
              c == Byte(s, 3 * m + 3)
              x == Byte(t, 3 * m + 1)
              y == Byte(t, 3 * m + 2)
              z == Byte(t, 3 * m + 3)
  <2>1. m \in Nat /\ 3 * m < Len(s)
        /\ (j = 3 * m + 1 \/ j = 3 * m + 2 \/ j = 3 * m + 3)
    BY <1>1
  <2>. HIDE DEF m
  <2>2. 3 * m + 1 \in Nat \ {0} /\ 3 * m + 2 \in Nat \ {0} /\ 3 * m + 3 \in Nat \ {0}
    BY <2>1
  <2>3. a \in 0..122 /\ b \in 0..122 /\ c \in 0..122 /\ x \in 0..122 /\ y \in 0..122 /\ z \in 0..122
    BY <2>2, BytesOf
  <2>4. /\ Sextet(s, 4 * m + 1) = a \div 4 /\ Sextet(t, 4 * m + 1) = x \div 4
        /\ Sextet(s, 4 * m + 2) = (a % 4) * 16 + b \div 16
        /\ Sextet(t, 4 * m + 2) = (x % 4) * 16 + y \div 16
        /\ Sextet(s, 4 * m + 3) = (b % 16) * 4 + c \div 64
        /\ Sextet(t, 4 * m + 3) = (y % 16) * 4 + z \div 64
        /\ Sextet(s, 4 * m + 4) = c % 64 /\ Sextet(t, 4 * m + 4) = z % 64
    BY <2>1, SextetsOf
  <2>5. /\ Sextet(s, 4 * m + 1) = Sextet(t, 4 * m + 1)
        /\ Sextet(s, 4 * m + 2) = Sextet(t, 4 * m + 2)
    <3>1. Whole(4 * m + 1) < Len(s) /\ Whole(4 * m + 2) < Len(s)
      BY <2>1, WholeOf
    <3>. QED
      BY <1>2, <2>1, <3>1
  <2>6. j # 3 * m + 1 => Sextet(s, 4 * m + 3) = Sextet(t, 4 * m + 3)
    <3>1. j # 3 * m + 1 => Whole(4 * m + 3) < Len(s)
      BY <1>1, <2>1, WholeOf
    <3>. QED
      BY <1>2, <2>1, <3>1
  <2>7. j = 3 * m + 3 => Sextet(s, 4 * m + 4) = Sextet(t, 4 * m + 4)
    <3>1. j = 3 * m + 3 => Whole(4 * m + 4) < Len(s)
      BY <1>1, <2>1, WholeOf
    <3>. QED
      BY <1>2, <2>1, <3>1
  <2>. HIDE DEF a, b, c, x, y, z
  <2>8. a = x /\ b \div 16 = y \div 16
    <3>1. a \div 4 = x \div 4 /\ (a % 4) * 16 + b \div 16 = (x % 4) * 16 + y \div 16
      BY <2>4, <2>5
    <3>. QED
      BY <2>3, <3>1
  <2>9. j # 3 * m + 1 => b = y /\ c \div 64 = z \div 64
    <3>. SUFFICES ASSUME j # 3 * m + 1 PROVE b = y /\ c \div 64 = z \div 64
      OBVIOUS
    <3>1. (b % 16) * 4 + c \div 64 = (y % 16) * 4 + z \div 64
      BY <2>4, <2>6
    <3>. QED
      BY <2>3, <2>8, <3>1
  <2>10. j = 3 * m + 3 => c = z
    <3>. SUFFICES ASSUME j = 3 * m + 3 PROVE c = z
      OBVIOUS
    <3>1. c % 64 = z % 64 /\ j # 3 * m + 1
      BY <2>1, <2>4, <2>7
    <3>. QED
      BY <2>3, <2>9, <3>1
  <2>. QED
    BY <2>1, <2>8, <2>9, <2>10 DEF a, b, c, x, y, z
<1>4. ASSUME NEW j \in 1..Len(s) PROVE s[j] = t[j]
  <2>1. j \in Nat \ {0} /\ j <= Len(s) /\ j <= Len(t)
    BY <1>1
  <2>2. /\ s[j] \in Nat /\ Byte(s, j) = 96 + s[j]
        /\ t[j] \in Nat /\ Byte(t, j) = 96 + t[j]
    BY <2>1, BytesOf
  <2>. QED
    BY <1>3, <2>2
<1>. QED
  BY <1>1, <1>4, SeqEqual

(* The states of the generator, and how they move on.                       *)
Rnds == [string : Seq(Letters), integer : Nat, number : Nat, hour : Nat]
Reached(r, q) ==
  /\ UpTo(r.string, q.string) /\ r.integer <= q.integer
  /\ r.number <= q.number /\ r.hour <= q.hour

(* The calls: NextString with a format, NextInteger or NextNumber.          *)
Calls == {"string", "integer", "number"} \X STRING
Generated(r, c) ==
  IF c[1] = "string" THEN NextString(r, c[2])
  ELSE IF c[1] = "integer" THEN NextInteger(r)
  ELSE NextNumber(r)

Encodes(c) == c[1] = "string" /\ c[2] \in Base64Formats

RawShapes == {"uri", "arm-id", "email"}
IntegerShapes == {"binary", "duration", "uuid", "integer"}
HourShapes == {"date-time", "date-time-rfc1123"}

(* g is the value the call c makes after r: what it is made of is new.      *)
Fresh(r, c, g) ==
  \/ g.value[1] \in RawShapes /\ g.value[2] = g.rnd.string /\ Before(r.string, g.rnd.string)
  \/ /\ g.value[1] = "plain" /\ Before(r.string, g.rnd.string)
     /\ Encodes(c) => g.value[2] = Base64(g.rnd.string)
     /\ ~Encodes(c) => g.value[2] = g.rnd.string
  \/ g.value[1] \in IntegerShapes /\ g.value[2] = g.rnd.integer /\ r.integer < g.rnd.integer
  \/ g.value[1] = "number" /\ g.value[2] = g.rnd.number /\ r.number < g.rnd.number
  \/ g.value[1] \in HourShapes /\ g.value[2] = g.rnd.hour /\ r.hour < g.rnd.hour
  \/ /\ g.value[1] = "date" /\ g.value[2] = LocalHour(g.rnd.hour) \div HoursPerDay
     /\ g.rnd.hour = r.hour + HoursPerDay
  \/ g.value[1] = "time"

(* A day later it is another day, unless summer time has ended in between.  *)
LEMMA DaysDiffer ==
  ASSUME NEW h \in Nat, NEW k \in Nat, h + HoursPerDay <= k,
         LocalHour(h) \div HoursPerDay = LocalHour(k) \div HoursPerDay
  PROVE  h \in Summer /\ k \notin Summer
<1>1. PICK a \in {0, 1} : LocalHour(h) = h + a /\ (a = 1 <=> h \in Summer)
  BY DEF LocalHour
<1>2. PICK b \in {0, 1} : LocalHour(k) = k + b /\ (b = 1 <=> k \in Summer)
  BY DEF LocalHour
<1>3. (h + a) \div 24 = (k + b) \div 24 /\ h + 24 <= k
  BY <1>1, <1>2 DEF HoursPerDay
<1>4. a = 1 /\ b = 0
  BY <1>3
<1>. QED
  BY <1>1, <1>2, <1>4

LEMMA ReachedGoesOn ==
  ASSUME NEW p \in Rnds, NEW q \in Rnds, NEW r \in Rnds, Reached(p, q), Reached(q, r)
  PROVE  Reached(p, r)
<1>1. UpTo(p.string, r.string)
  BY BeforeGoesOn DEF Rnds, Reached, UpTo
<1>. QED
  BY <1>1 DEF Rnds, Reached

LEMMA NewIsRnd == ASSUME NEW h \in Nat PROVE NewRnd(h) \in Rnds
<1>1. <<1>> \in Seq(Letters)
  BY LastLetterAssumption DEF Letters
<1>. QED
  BY <1>1 DEF NewRnd, Rnds

(* A call raises one of the counters and makes its value from it.           *)
LEMMA CallMoves ==
  ASSUME NEW r \in Rnds, NEW c \in Calls
  PROVE  LET g == Generated(r, c) IN g.rnd \in Rnds /\ Reached(r, g.rnd) /\ Fresh(r, c, g)
<1>. DEFINE g == Generated(r, c)
            format == c[2]
            s == NextRawString(r.string)
<1>1. /\ r.string \in Seq(Letters) /\ r.integer \in Nat /\ r.number \in Nat /\ r.hour \in Nat
      /\ r = [string |-> r.string, integer |-> r.integer, number |-> r.number, hour |-> r.hour]
  BY DEF Rnds
<1>2. s \in Seq(Letters) /\ Before(r.string, s)
  BY <1>1, NextIsLater
<1>. HIDE DEF s
<1>3. CASE c[1] = "number"
  <2>1. /\ g.rnd = [string |-> r.string, integer |-> r.integer, number |-> r.number + 1, hour |-> r.hour]
        /\ g.value = <<"number", r.number + 1>>
    BY <1>1, <1>3 DEF Generated, NextNumber
  <2>. HIDE DEF g
  <2>. QED
    BY <1>1, <2>1 DEF g, Rnds, Reached, UpTo, Fresh
<1>4. CASE c[1] = "integer"
  <2>1. /\ g.rnd = [string |-> r.string, integer |-> r.integer + 1, number |-> r.number, hour |-> r.hour]
        /\ g.value = <<"integer", r.integer + 1>>
    BY <1>1, <1>4 DEF Generated, NextInteger
  <2>. HIDE DEF g
  <2>. QED
    BY <1>1, <2>1 DEF g, Rnds, Reached, UpTo, Fresh, IntegerShapes
<1>5. CASE c[1] = "string" /\ format \in IntegerFormats
  <2>1. /\ g.rnd = [string |-> r.string, integer |-> r.integer + 1, number |-> r.number, hour |-> r.hour]
        /\ g.value = <<format, r.integer + 1>>
    BY <1>1, <1>5 DEF Generated, NextString, GenString, IntegerFormats, Base64Formats
  <2>2. format \in IntegerShapes
    BY <1>5 DEF IntegerFormats, IntegerShapes
  <2>. HIDE DEF g
  <2>. QED
    BY <1>1, <2>1, <2>2 DEF g, Rnds, Reached, UpTo, Fresh
<1>6. CASE c[1] = "string" /\ format \in TimeFormats
  <2>. DEFINE h == r.hour + (IF format = "date" THEN HoursPerDay ELSE 1)
  <2>1. /\ g.rnd = [string |-> r.string, integer |-> r.integer, number |-> r.number, hour |-> h]
        /\ g.value = IF format = "date" THEN <<"date", LocalHour(h) \div HoursPerDay>>
                     ELSE IF format = "time" THEN <<"time", LocalHour(h) % HoursPerDay>>
                     ELSE <<format, h>>
    BY <1>1, <1>6 DEF Generated, NextString, GenString, TimeFormats, IntegerFormats, Base64Formats
  <2>2. h \in Nat /\ r.hour < h
    BY <1>1 DEF HoursPerDay
  <2>3. format = "date" => h = r.hour + HoursPerDay
    OBVIOUS
  <2>4. format \notin {"date", "time"} => format \in HourShapes
    BY <1>6 DEF TimeFormats, HourShapes
  <2>. HIDE DEF h, g
  <2>5. g.rnd \in Rnds /\ Reached(r, g.rnd)
    BY <1>1, <2>1, <2>2 DEF Rnds, Reached, UpTo
  <2>6. Fresh(r, c, g)
    BY <2>1, <2>2, <2>3, <2>4 DEF Fresh
  <2>. QED
    BY <2>5, <2>6 DEF g
<1>7. CASE c[1] = "string" /\ format \notin IntegerFormats \cup TimeFormats
  <2>1. /\ g.rnd = [string |-> s, integer |-> r.integer, number |-> r.number, hour |-> r.hour]
        /\ g.value = GenString(g.rnd, format)
    BY <1>1, <1>7 DEF Generated, NextString, s
  <2>2. \/ g.value[1] \in RawShapes /\ g.value[2] = g.rnd.string
        \/ /\ g.value[1] = "plain"
           /\ Encodes(c) => g.value[2] = Base64(g.rnd.string)
           /\ ~Encodes(c) => g.value[2] = g.rnd.string
    <3>1. CASE format \in Base64Formats
      <4>. HIDE DEF g
      <4>1. g.value = <<"plain", Base64(g.rnd.string)>>
        BY <2>1, <3>1 DEF GenString, Base64Formats, IntegerFormats
      <4>. QED
        BY <1>7, <3>1, <4>1 DEF Encodes
    <3>2. CASE format \notin Base64Formats
      <4>1. \/ g.value[1] \in RawShapes /\ g.value[2] = g.rnd.string
            \/ g.value[1] = "plain" /\ g.value[2] = g.rnd.string
        BY <1>7, <2>1, <3>2 DEF GenString, RawShapes, IntegerFormats, TimeFormats
      <4>. HIDE DEF g
      <4>. QED
        BY <3>2, <4>1 DEF Encodes
    <3>. QED
      BY <3>1, <3>2
  <2>. HIDE DEF g
  <2>. QED
    BY <1>1, <1>2, <2>1, <2>2 DEF g, Rnds, Reached, UpTo, Fresh
<1>8. c[1] \in {"string", "integer", "number"}
  BY DEF Calls
<1>. QED
  BY <1>3, <1>4, <1>5, <1>6, <1>7, <1>8

(* When the value of a call c comes again, by a call d.                     *)
Exception(g, c, k, d) ==
  \/ g.value[1] = "time"
  \/ g.value[1] = "date" /\ g.rnd.hour \in Summer /\ k.rnd.hour \notin Summer
  \/ g.value[1] = "plain" /\ (Encodes(c) <=> ~Encodes(d))

LEMMA NotTwice ==
  ASSUME NEW c \in Calls, NEW p \in Rnds, NEW g, g.rnd \in Rnds, Fresh(p, c, g),
         NEW d \in Calls, NEW q \in Rnds, NEW k, k.rnd \in Rnds, Fresh(q, d, k),
         Reached(g.rnd, q), g.value = k.value
  PROVE  Exception(g, c, k, d)
<1>. USE DEF RawShapes, IntegerShapes, HourShapes
<1>1. UpTo(g.rnd.string, q.string) /\ (Before(q.string, k.rnd.string) => g.rnd.string # k.rnd.string)
  <2>1. UpTo(g.rnd.string, q.string)
    BY DEF Reached
  <2>2. ASSUME Before(q.string, k.rnd.string) PROVE Before(g.rnd.string, k.rnd.string)
    BY <2>1, <2>2, BeforeGoesOn DEF Rnds, UpTo
  <2>. QED
    BY <2>1, <2>2, BeforeIsStrict DEF Rnds
<1>2. CASE g.value[1] \in RawShapes
  <2>1. g.rnd.string = k.rnd.string /\ Before(q.string, k.rnd.string)
    BY <1>2 DEF Fresh
  <2>. QED
    BY <1>1, <2>1
<1>3. CASE g.value[1] = "plain"
  <2>1. /\ Before(q.string, k.rnd.string)
        /\ Encodes(c) => g.value[2] = Base64(g.rnd.string)
        /\ ~Encodes(c) => g.value[2] = g.rnd.string
        /\ Encodes(d) => k.value[2] = Base64(k.rnd.string)
        /\ ~Encodes(d) => k.value[2] = k.rnd.string
    BY <1>3 DEF Fresh
  <2>2. g.rnd.string \in Seq(Letters) /\ k.rnd.string \in Seq(Letters)
    BY DEF Rnds
  <2>3. ~(Encodes(c) /\ Encodes(d))
    BY <1>1, <2>1, <2>2, EncodedOnce
  <2>4. ~(~Encodes(c) /\ ~Encodes(d))
    BY <1>1, <2>1
  <2>. QED
    BY <1>3, <2>3, <2>4 DEF Exception
<1>4. CASE g.value[1] \in IntegerShapes
  <2>1. g.rnd.integer = k.rnd.integer /\ q.integer < k.rnd.integer /\ g.rnd.integer <= q.integer
    BY <1>4 DEF Fresh, Reached
  <2>. QED
    BY <2>1 DEF Rnds
<1>5. CASE g.value[1] = "number"
  <2>1. g.rnd.number = k.rnd.number /\ q.number < k.rnd.number /\ g.rnd.number <= q.number
    BY <1>5 DEF Fresh, Reached
  <2>. QED
    BY <2>1 DEF Rnds
<1>6. CASE g.value[1] \in HourShapes
  <2>1. g.rnd.hour = k.rnd.hour /\ q.hour < k.rnd.hour /\ g.rnd.hour <= q.hour
    BY <1>6 DEF Fresh, Reached
  <2>. QED
    BY <2>1 DEF Rnds
<1>7. CASE g.value[1] = "date"
  <2>1. /\ LocalHour(g.rnd.hour) \div HoursPerDay = LocalHour(k.rnd.hour) \div HoursPerDay
        /\ k.rnd.hour = q.hour + HoursPerDay /\ g.rnd.hour <= q.hour
    BY <1>7 DEF Fresh, Reached
  <2>2. /\ g.rnd.hour \in Nat /\ k.rnd.hour \in Nat /\ q.hour \in Nat
        /\ g.rnd.hour + HoursPerDay <= k.rnd.hour
    <3>1. g.rnd.hour \in Nat /\ k.rnd.hour \in Nat /\ q.hour \in Nat
      BY DEF Rnds
    <3>2. HoursPerDay \in Nat
      BY DEF HoursPerDay
    <3>. QED
      BY <2>1, <3>1, <3>2
  <2>3. g.rnd.hour \in Summer /\ k.rnd.hour \notin Summer
    BY <2>1, <2>2, DaysDiffer
  <2>. QED
    BY <1>7, <2>3 DEF Exception
<1>8. CASE g.value[1] = "time"
  BY <1>8 DEF Exception
<1>. QED
  BY <1>2, <1>3, <1>4, <1>5, <1>6, <1>7, <1>8 DEF Fresh

(* A generator and the states it is in after n calls.                       *)
Run(n, calls, rnd) ==
  /\ \E hour \in Nat : rnd[0] = NewRnd(hour)
  /\ \A i \in 1..n : rnd[i] = Generated(rnd[i - 1], calls[i]).rnd

LEMMA RunMoves ==
  ASSUME NEW n \in Nat, NEW calls \in [1..n -> Calls], NEW rnd, Run(n, calls, rnd)
  PROVE  \A j \in 0..n : rnd[j] \in Rnds /\ \A i \in 0..j : Reached(rnd[i], rnd[j])
<1>. DEFINE Good(j) == rnd[j] \in Rnds /\ \A i \in 0..j : rnd[i] \in Rnds /\ Reached(rnd[i], rnd[j])
            Bad == {j \in 0..n : ~Good(j)}
<1>1. \A r \in Rnds : Reached(r, r)
  BY DEF Rnds, Reached, UpTo
<1>2. Good(0)
  BY <1>1, NewIsRnd DEF Run
<1>3. ASSUME NEW j \in 1..n, Good(j - 1) PROVE Good(j)
  <2>1. /\ rnd[j] = Generated(rnd[j - 1], calls[j]).rnd
        /\ calls[j] \in Calls /\ rnd[j - 1] \in Rnds
    BY <1>3 DEF Run
  <2>2. rnd[j] \in Rnds /\ Reached(rnd[j - 1], rnd[j])
    BY <2>1, CallMoves
  <2>3. ASSUME NEW i \in 0..j PROVE rnd[i] \in Rnds /\ Reached(rnd[i], rnd[j])
    <3>1. CASE i = j
      BY <1>1, <2>2, <3>1
    <3>2. CASE i # j
      <4>1. rnd[i] \in Rnds /\ Reached(rnd[i], rnd[j - 1])
        BY <1>3, <3>2
      <4>. QED
        BY <2>1, <2>2, <4>1, ReachedGoesOn
    <3>. QED
      BY <3>1, <3>2
  <2>. QED
    BY <2>2, <2>3
<1>4. Bad = {}
  <2>1. SUFFICES ASSUME Bad # {} PROVE FALSE
    OBVIOUS
  <2>2. PICK j \in Bad : \A i \in Bad : j <= i
    <3>1. Bad \in SUBSET Nat
      OBVIOUS
    <3>. HIDE DEF Bad
    <3>. QED
      BY <2>1, <3>1, LeastNatural
  <2>. HIDE DEF Good
  <2>3. j \in 1..n /\ j - 1 \in 0..n
    BY <1>2, <2>2
  <2>4. Good(j - 1)
    BY <2>2, <2>3
  <2>. QED
    BY <1>3, <2>2, <2>3, <2>4
<1>. QED
  BY <1>4

(* However often and for whatever formats a generator is called, two values *)
(* are equal only                                                           *)
(*   if both are times of the day, which come back after a day;             *)
(*   if both are dates, one in summer time and a later one after its end: a *)
(*   date is 24 hours after the one before, and that day has 25             *)
(*   (random.go:89, random.go:127);                                         *)
(*   if one is a raw string and one is base64, which may be of lower-case   *)
(*   letters only: that of "rga" is "cmdh" (random.go:80, random.go:100).   *)
(* So neither the carry of a raw string (random.go:178) nor its encoding    *)
(* loses anything, and formats that print it the same way share no value.   *)
(* Binaries and very long durations that differ may still print alike       *)
(* (random.go:87, random.go:95).                                            *)
THEOREM NoValueTwice ==
  ASSUME NEW n \in Nat, NEW calls \in [1..n -> Calls], NEW rnd, Run(n, calls, rnd),
         NEW i \in 1..n, NEW j \in 1..n, i < j,
         Generated(rnd[i - 1], calls[i]).value = Generated(rnd[j - 1], calls[j]).value
  PROVE  LET shape == Generated(rnd[i - 1], calls[i]).value[1]
         IN  \/ shape = "time"
             \/ shape = "date" /\ rnd[i].hour \in Summer /\ rnd[j].hour \notin Summer
             \/ shape = "plain" /\ (Encodes(calls[i]) <=> ~Encodes(calls[j]))
<1>. DEFINE g == Generated(rnd[i - 1], calls[i])
            k == Generated(rnd[j - 1], calls[j])
<1>1. rnd[i - 1] \in Rnds /\ rnd[j - 1] \in Rnds /\ Reached(rnd[i], rnd[j - 1])
  BY RunMoves
<1>2. g.rnd = rnd[i] /\ k.rnd = rnd[j] /\ calls[i] \in Calls /\ calls[j] \in Calls
  BY DEF Run
<1>3. /\ g.rnd \in Rnds /\ Fresh(rnd[i - 1], calls[i], g)
      /\ k.rnd \in Rnds /\ Fresh(rnd[j - 1], calls[j], k)
  BY <1>1, <1>2, CallMoves
<1>. HIDE DEF g, k
<1>4. g.value = k.value
  BY DEF g, k
<1>5. Exception(g, calls[i], k, calls[j])
  BY <1>1, <1>2, <1>3, <1>4, NotTwice
<1>. QED
  BY <1>2, <1>5 DEF Exception, g
===============================================================================
