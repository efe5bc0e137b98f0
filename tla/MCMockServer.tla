----------------------------- MODULE MCMockServer -----------------------------
(* Instances of MockServer for TLC. *)
EXTENDS MockServer, TLC

CONSTANTS s1, s2, none, undef

U(p, v) == [path |-> p, version |-> v]

(* /p has one instance, /q two (a polymorphic response), /e none; /x is not *)
(* in the index.  /p and /q have schemas of their own.                      *)
MCUrls == {U("p", 1), U("q", 1), U("e", 1), U("x", 1), U("token", 1)}
MCInstances ==
  U("p", 1) :> << <<"p.id", "p.on", "p.at">> >> @@
  U("q", 1) :> << <<"q.id">>, <<"q.id", "q.no">> >> @@
  U("e", 1) :> << >>
MCKind ==
  "p.id" :> "fresh" @@ "p.on" :> "const" @@ "p.at" :> "time" @@
  "q.id" :> "fresh" @@ "q.no" :> "fresh" @@ "p.extra" :> "const"
MCAddr == [l \in DOMAIN MCKind |-> IF l = "p.extra" THEN undef ELSE l]
MCSchema ==
  U("p", 1) :> "P" @@ U("q", 1) :> "Q" @@ U("e", 1) :> "E"
MCTimes == {0, 5}

Ov(paths) == [NoOverride EXCEPT !.paths = paths, !.cached = TRUE]
Extra == "p.extra" :> Value("user", 1)

(* An override of the execution shadows the global one that follows it.     *)
MCOverrideLists ==
  { <<>>,
    << [Ov({"p"}) EXCEPT !.patch = Extra], [Ov({"p", "q"}) EXCEPT !.keeps = {2}] >>,
    << [Ov({"q"}) EXCEPT !.keeps = {1, 2}, !.fails = "patch"],
       [Ov({"x"}) EXCEPT !.toPath = "p"] >>,
    << [Ov({"p"}) EXCEPT !.body = TRUE], [Ov({"q"}) EXCEPT !.fails = "decode"] >> }

Vib(paths, leaf) == [paths |-> paths, leaf |-> leaf, value |-> Value("user", 2)]
MCVibrations == {Vib({"p"}, "p.on"), Vib({"p", "q"}, "q.id")}

(* A selector that fits no instance. *)
NoFitLists == {<< [Ov({"q"}) EXCEPT !.keeps = {}] >>}

(* The overlapping runs need less variety. *)
FewUrls == {U("p", 1), U("q", 1)}
FewLists == {<<>>, << [Ov({"p", "q"}) EXCEPT !.keeps = {2}] >>}
SmallInstances ==
  U("p", 1) :> << <<"p.id", "p.on">> >> @@ U("q", 1) :> << <<"q.id">> >>
SmallKind == "p.id" :> "fresh" @@ "p.on" :> "const" @@ "q.id" :> "fresh"
SmallAddr == [l \in DOMAIN SmallKind |-> l]
OneTime == {0}

(* Two versions of one operation whose response has one schema. *)
TwoVersions == {U("p", 1), U("p", 2)}
TwoInstances == [u \in TwoVersions |-> << <<"p.id">> >>]
TwoSchema == [u \in TwoVersions |-> "P"]
CachedLists == {<< Ov({"p"}) >>}
VersionLists == {<< [Ov({"p"}) EXCEPT !.toVersion = 2] >>}
===============================================================================
