------------------------------- MODULE MCBridge -------------------------------
(* Instances of Bridge for TLC. *)
EXTENDS Bridge, TLC

CONSTANTS s1, s2, none, nil, unset

U(p) == [path |-> p, version |-> 1]
P == U("p")
Q == U("q")
E == U("e")
L == U("l")

(* p and q answer with an object, both with a boolean; l with a list; e     *)
(* with a plain string; nothing is known of x.                              *)
MCUrls == {P, Q, E, L, U("x"), U("token")}
MCInstances ==
  P :> << <<"p.id", "p.on", "p.at">> >> @@
  Q :> << <<"q.id">>, <<"q.id", "q.on">> >> @@
  L :> << <<"l.0">> >> @@
  E :> << <<"e">> >>
MCShape == P :> "object" @@ Q :> "object" @@ L :> "array" @@ E :> "scalar"
MCSchema == P :> "P" @@ Q :> "Q" @@ L :> "L" @@ E :> "E"
MCKind ==
  "p.id" :> "fresh" @@ "p.on" :> "const" @@ "p.at" :> "time" @@ "p.extra" :> "const" @@
  "q.id" :> "fresh" @@ "q.on" :> "const" @@ "l.0" :> "fresh" @@ "e" :> "fresh"
MCAddr == [l \in DOMAIN MCKind |-> IF l = "p.extra" THEN nil ELSE l]
MCFindable == {"p.id", "p.on", "q.id"}

AddrRank == "p.at" :> 1 @@ "p.id" :> 2 @@ "p.on" :> 3 @@ "q.id" :> 4 @@ "q.on" :> 5 @@
            "l.0" :> 0 @@ "e" :> 0
MCPos == [root : DOMAIN MCInstances, addr : DOMAIN AddrRank]
MCRank == [p \in MCPos |-> AddrRank[p.addr]]

Val(k, n) == [kind |-> k, n |-> n]
Copy(k, l) == [from |-> <<<<k, l>>>>, copy |-> TRUE, own |-> none]
From(f) == [from |-> f, copy |-> FALSE, own |-> none]
Own(v) == [from |-> <<>>, copy |-> FALSE, own |-> v]
Word == Val("own", 0)
True == Val("const", 0)

(* As MockServer's NoOverride with a path and a cached property. *)
Ov(p) == [paths |-> p, cached |-> TRUE, keeps |-> none, patch |-> <<>>, body |-> FALSE,
          toPath |-> none, toVersion |-> none, fails |-> "never"]
Both == << [Ov({"q"}) EXCEPT !.keeps = {2}] >>
Extra == << [Ov({"p"}) EXCEPT !.patch = "p.extra" :> Val("user", 1)] >>
Vibr(path, leaf) == [paths |-> {path}, leaf |-> leaf, value |-> Val("user", 9)]

Ex(reqs, app) == [bad |-> "no", ovs |-> <<>>, vibs |-> <<>>, reqs |-> reqs, app |-> app]

(* A program that shows everything, each property its own way.              *)
Resource ==
  "/id" :> Copy(1, "p.id") @@ "/on" :> Copy(1, "p.on") @@ "/q_id" :> Copy(2, "q.id") @@
  "/mix" :> From(<<<<1, "p.id">>, <<1, "p.on">>>>) @@ "/kind" :> Own(Word)
Plain ==
  "/id" :> Copy(1, "p.id") @@ "/on" :> Copy(1, "p.on") @@ "/q_id" :> Copy(2, "q.id") @@
  "/off" :> From(<<<<2, "q.on">>>>) @@ "/kind" :> Own(Word)

(* Vibrations: of the boolean, of an identifier (one property, then two     *)
(* properties differ), of a leaf the program does not show.                 *)
Exec1 == [Ex(<<P, Q>>, Plain) EXCEPT !.ovs = Both,
            !.vibs = <<Vibr("p", "p.on"), Vibr("q", "q.id")>>]
Exec2 == [Ex(<<P, Q>>, Resource) EXCEPT !.vibs = <<Vibr("p", "p.id"), Vibr("q", "q.on")>>]
Exec3 == [Ex(<<Q, P>>, "/q_id" :> Copy(1, "q.id") @@ "/x" :> Copy(2, "p.extra"))
            EXCEPT !.ovs = Extra]
Exec4 == Ex(<<U("token"), L, E>>, "/l" :> Copy(2, "l.0"))
Exec5 == [Ex(<<L>>, "/l" :> Copy(1, "l.0") @@ "/k" :> Own(Word))
            EXCEPT !.vibs = <<Vibr("l", "l.0")>>]
Exec6 == [Exec1 EXCEPT !.bad = "addr"]
Exec7 == [Exec1 EXCEPT !.bad = "regexp"]
Exec8 == [Exec1 EXCEPT !.bad = "vibration"]

Lookup == Ex(<<P, U("x")>>, "/kind" :> Own(Word))

AllExecs ==
  1 :> Exec1 @@ 2 :> Exec2 @@ 3 :> Exec3 @@ 4 :> Exec4 @@ 5 :> Exec6 @@ 6 :> Lookup @@
  7 :> Exec5 @@ 8 :> Exec8 @@ 9 :> Exec7
AllLabels == [j \in 1..9 |-> j]
AllNames == [j \in 1..9 |-> IF j = 2 THEN 1 ELSE j]
Label1 == 1 :> "r.a"
Name1 == 1 :> "r"

(* Programs for which the bridge errs. *)
(* The clock runs between the two runs, and the vibrated leaf is not shown. *)
DriftExec == 1 :> [Ex(<<P>>, "/at" :> Copy(1, "p.at")) EXCEPT !.vibs = <<Vibr("p", "p.on")>>]
TwoTimes == {0, 5}
(* A word of the program's own that is also the value of a leaf. *)
ConstExec == 1 :> Ex(<<P>>, "/enabled" :> Own(True))
(* Nothing in the schema defines what the override adds to p and the program   *)
(* shows; the vibration is one of q, where all is defined.                     *)
NilExec == 1 :> [Ex(<<P, Q>>, "/x" :> Copy(1, "p.extra") @@ "/q_id" :> Copy(2, "q.id"))
                   EXCEPT !.ovs = Extra, !.vibs = <<Vibr("q", "q.id")>>]
(* q.on stands for the entry of a map: its address is printed with an index. *)
EntryExec == 1 :> [Ex(<<Q>>, "/on" :> Copy(1, "q.on") @@ "/id" :> Copy(1, "q.id"))
                     EXCEPT !.ovs = Both, !.vibs = <<Vibr("q", "q.on")>>]
TwoRequests == 1 :> Ex(<<P, Q>>, "/id" :> Copy(1, "p.id") @@ "/q_id" :> Copy(2, "q.id"))
(* Requests of the first execution reach into the second. *)
TwoShort == 1 :> [Ex(<<L>>, "/l" :> Copy(1, "l.0")) EXCEPT !.vibs = <<Vibr("l", "l.0")>>] @@
            2 :> Ex(<<U("token")>>, "/kind" :> Own(Word))
ShortKind == [MCKind EXCEPT !["l.0"] = "const"]
Label2 == 1 :> "r.a" @@ 2 :> "s.a"
Name2 == 1 :> "r" @@ 2 :> "s"
(* The same resource is read twice, as by a program that polls it. *)
PollExec == 1 :> [Ex(<<P, P>>, "/id" :> Copy(1, "p.id")) EXCEPT !.vibs = <<Vibr("p", "p.on")>>]

(* One more operation, a, answers with an object like that of p: with a     *)
(* schema of its own, or with that of p.                                    *)
A == U("a")
WithA == MCUrls \cup {A}
InstancesWithA == MCInstances @@ (A :> << <<"p.id", "p.on">> >>)
ShapeWithA == MCShape @@ (A :> "object")
OwnSchema == MCSchema @@ (A :> "A")
SharedSchema == MCSchema @@ (A :> "P")
PosWithA == [root : DOMAIN InstancesWithA, addr : DOMAIN AddrRank]
RankWithA == [p \in PosWithA |-> AddrRank[p.addr]]
(* The vibration of p hits a as well. *)
TwiceExec == 1 :> [Ex(<<P, A>>, "/on" :> From(<<<<1, "p.on">>>>))
                     EXCEPT !.vibs = <<[Vibr("p", "p.on") EXCEPT !.paths = {"p", "a"}]>>]
(* The answer to p is made from the property cached for a. *)
SharedExec == 1 :> [Ex(<<A, P>>, "/id" :> Copy(2, "p.id")) EXCEPT !.ovs = <<Ov({"p", "a"})>>]

MCOptions == [from : {unset}, to : {unset}, keep : BOOLEAN, skip : {{}}]
KeepOn == [from : {unset}, to : {unset}, keep : {TRUE}, skip : {{}}]

(* The maps execute may return: at most two positions for a property.       *)
AppAddrs == {"/id", "/on", "/q_id", "/off"}
Shown == {[root |-> P, addr |-> "p.id"], [root |-> P, addr |-> "p.on"],
          [root |-> Q, addr |-> "q.id"], [root |-> Q, addr |-> "q.on"]}
FewSets == UNION {{{p}, {p, q}} : p, q \in Shown}
MCMaps == UNION {[D -> FewSets] : D \in SUBSET {"/id", "/on", "/q_id"}}
          \cup {"/l" :> {[root |-> L, addr |-> "l.0"]}}

OneTime == {0}
===============================================================================
