--------------------------------- MODULE Rnd ---------------------------------
(***************************************************************************)
(* The generator of values (swagger/random.go).  A raw string is a sequence *)
(* of letters, 1 for "a"; the characters of base64 are numbered so that its *)
(* lower-case letters are the same.  A value is a pair of a shape and what  *)
(* is put into it; values that are equal are one text.  Of values that      *)
(* differ, two of shape "binary" may still be one text (bytes that are not  *)
(* UTF-8 all print alike), and so may two durations of many years, which    *)
(* the library rounds.  Texts of two shapes never meet: a "/", an "@",      *)
(* dashes, colons or the first letter tell them apart.                      *)
(***************************************************************************)
EXTENDS Integers, Sequences

CONSTANTS
  LastLetter,  \* bound: the letters of a raw string, 26 in the code
  Summer       \* the hours at which the local clock is one hour ahead

ASSUME LastLetterAssumption == LastLetter \in 1..26
ASSUME SummerAssumption == Summer \in SUBSET Nat

HoursPerDay == 24

(* What the local clock shows, in hours from the first midnight.            *)
LocalHour(h) == IF h \in Summer THEN h + 1 ELSE h

(* The state of a Rnd, as NewRnd(nil) makes it when the clock reads hour h. *)
NewRnd(h) == [string |-> <<1>>, integer |-> 0, number |-> 0, hour |-> h]

(* Variant: a string of "z" only starts over without growing.               *)
NextRawStringWraps(s) ==
  LET below == {i \in DOMAIN s : s[i] # LastLetter} IN
    IF below = {} THEN [i \in DOMAIN s |-> 1]
    ELSE LET j == CHOOSE j \in below : \A i \in below : i <= j
         IN  [i \in DOMAIN s |-> IF i < j THEN s[i] ELSE IF i = j THEN s[i] + 1 ELSE 1]

(* The next raw string: the last letter that is not "z" is raised, the ones *)
(* after it start over; a string of "z" only grows by a letter.             *)
NextRawString(s) ==
  LET below == {i \in DOMAIN s : s[i] # LastLetter} IN
    IF below = {} THEN [i \in 1..(Len(s) + 1) |-> 1]
    ELSE LET j == CHOOSE j \in below : \A i \in below : i <= j
         IN  [i \in DOMAIN s |-> IF i < j THEN s[i] ELSE IF i = j THEN s[i] + 1 ELSE 1]

(* base64.StdEncoding: three bytes make four characters of six bits each;   *)
(* the k-th one begins in the byte after Whole(k).                          *)
Byte(s, j) == IF j <= Len(s) THEN 96 + s[j] ELSE 0
Whole(k) == (3 * (k - 1)) \div 4
Sextet(s, k) ==
  LET j == Whole(k) + 1
  IN  CASE k % 4 = 1 -> Byte(s, j) \div 4
        [] k % 4 = 2 -> (Byte(s, j) % 4) * 16 + Byte(s, j + 1) \div 16
        [] k % 4 = 3 -> (Byte(s, j) % 16) * 4 + Byte(s, j + 1) \div 64
        [] k % 4 = 0 -> Byte(s, j) % 64
Padding == 39
Base64(s) ==
  [k \in 1..(4 * ((Len(s) + 2) \div 3)) |->
     IF Whole(k) < Len(s) THEN Sextet(s, k) - 25 ELSE Padding]

Base64Formats == {"base64url", "byte"}
IntegerFormats == {"binary", "duration", "uuid"}
TimeFormats == {"date", "date-time", "date-time-rfc1123", "time"}

(* genString: what the format makes of the raw values.  A date-time shows   *)
(* its zone, a date and a time of day do not.                               *)
GenString(r, format) ==
  CASE format \in Base64Formats                 -> <<"plain", Base64(r.string)>>
    [] format \in {"uri", "url"}                 -> <<"uri", r.string>>
    [] format \in {"arm-id", "email"}            -> <<format, r.string>>
    [] format \in IntegerFormats                 -> <<format, r.integer>>
    [] format = "date"                           -> <<"date", LocalHour(r.hour) \div HoursPerDay>>
    [] format = "time"                           -> <<"time", LocalHour(r.hour) % HoursPerDay>>
    [] format \in {"date-time", "date-time-rfc1123"} -> <<format, r.hour>>
    [] OTHER                                     -> <<"plain", r.string>>

(* NextString, NextInteger, NextNumber: the raw value behind the format     *)
(* moves on, then the new one is formatted.                                 *)
NextString(r, format) ==
  LET n == IF format \in IntegerFormats THEN [r EXCEPT !.integer = @ + 1]
           ELSE IF format \in TimeFormats
             THEN [r EXCEPT !.hour = @ + (IF format = "date" THEN HoursPerDay ELSE 1)]
           ELSE [r EXCEPT !.string = NextRawString(@)]
  IN  [rnd |-> n, value |-> GenString(n, format)]

NextInteger(r) ==
  [rnd |-> [r EXCEPT !.integer = @ + 1], value |-> <<"integer", r.integer + 1>>]
NextNumber(r) ==
  [rnd |-> [r EXCEPT !.number = @ + 1], value |-> <<"number", r.number + 1>>]
===============================================================================
