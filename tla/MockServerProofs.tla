--------------------------- MODULE MockServerProofs ---------------------------
(***************************************************************************)
(* Proofs about MockServer, for any number of handlers and requests, any    *)
(* responses, overrides and vibrations.                                     *)
(***************************************************************************)
EXTENDS MockServer, Minima, FiniteSetTheorems

-------------------------------------------------------------------------------
(* What the CHOOSEs of the model find.                                      *)

LEMMA CellsArePairs ==
  ASSUME NEW u \in DOMAIN Instances, NEW c \in Cells(u)
  PROVE  /\ c[1] \in Nat /\ c[2] \in Nat /\ c = <<c[1], c[2]>>
         /\ c[1] \in DOMAIN Instances[u] /\ c[2] \in DOMAIN Instances[u][c[1]]
         /\ LeafAt(u, c) \in DOMAIN Kind
         /\ LeafAt(u, c) \in Range(Instances[u][c[1]])
<1>1. PICK m \in DOMAIN Instances[u] : c \in {<<m, k>> : k \in DOMAIN Instances[u][m]}
  BY DEF Cells
<1>2. PICK k \in DOMAIN Instances[u][m] : c = <<m, k>>
  BY <1>1
<1>3. /\ Instances[u] \in Seq(Seq(DOMAIN Kind))
      /\ Instances[u][m] \in Seq(DOMAIN Kind)
  BY InstancesAssumption
<1>. QED
  BY <1>2, <1>3 DEF LeafAt, Range

(* NextCell is the first cell that is not synthesized yet.                  *)
LEMMA NextCellIsOpen ==
  ASSUME NEW u \in DOMAIN Instances, NEW built, Cells(u) \ DOMAIN built # {}
  PROVE  /\ NextCell(u, built) \in Cells(u) \ DOMAIN built
         /\ \A d \in Cells(u) \ DOMAIN built : Before(NextCell(u, built), d)
<1>. DEFINE Open == Cells(u) \ DOMAIN built
            Firsts == {c[1] : c \in Open}
<1>1. \A c \in Open : c[1] \in Nat /\ c[2] \in Nat
  BY CellsArePairs
<1>2. Firsts \in SUBSET Nat /\ Firsts # {}
  BY <1>1
<1>3. PICK m \in Firsts : \A k \in Firsts : m <= k
  BY <1>2, LeastNatural
<1>. DEFINE Seconds == {c[2] : c \in {d \in Open : d[1] = m}}
<1>4. Seconds \in SUBSET Nat /\ Seconds # {}
  BY <1>1, <1>3
<1>5. PICK k \in Seconds : \A l \in Seconds : k <= l
  BY <1>4, LeastNatural
<1>6. PICK c \in Open : c[1] = m /\ c[2] = k
  BY <1>5
<1>7. \A d \in Open : Before(c, d)
  <2>. TAKE d \in Open
  <2>1. m <= d[1] /\ (d[1] = m => k <= d[2])
    BY <1>3, <1>5
  <2>. QED
    BY <1>1, <1>6, <2>1 DEF Before
<1>8. \E x \in Open : \A d \in Open : Before(x, d)
  BY <1>7
<1>. QED
  BY <1>8 DEF NextCell

(* An instance that was selected is one of the instances.                   *)
LEMMA SelectedIsInstance ==
  ASSUME NEW u \in DOMAIN Instances, NEW ov, Selected(u, ov) # 0
  PROVE  Selected(u, ov) \in DOMAIN Instances[u]
<1>. DEFINE All == DOMAIN Instances[u]
            Candidates == IF ov.keeps = None \/ Cardinality(All) = 1 THEN All
                          ELSE All \cap ov.keeps
<1>1. Candidates # {} /\ Selected(u, ov) = CHOOSE m \in Candidates : \A j \in Candidates : m <= j
  BY DEF Selected
<1>2. Candidates \in SUBSET Nat /\ Candidates \subseteq All
  <2>1. All \subseteq Nat
    BY InstancesAssumption
  <2>. QED
    BY <2>1
<1>3. \E m \in Candidates : \A j \in Candidates : m <= j
  BY <1>1, <1>2, LeastNatural
<1>. QED
  BY <1>1, <1>2, <1>3

(* Match finds an override of the list, or none.                            *)
LEMMA MatchIsOverride ==
  ASSUME NEW ovs, NEW path, DOMAIN ovs \subseteq Nat
  PROVE  Match(ovs, path) = NoOverride \/ Match(ovs, path) \in Range(ovs)
<1>. DEFINE Found == {k \in DOMAIN ovs : path \in ovs[k].paths}
<1>1. CASE Found = {}
  BY <1>1 DEF Match
<1>2. CASE Found # {}
  <2>1. \E k \in Found : \A j \in Found : k <= j
    BY <1>2, LeastNatural
  <2>2. Match(ovs, path) = ovs[CHOOSE k \in Found : \A j \in Found : k <= j]
    BY <1>2 DEF Match
  <2>. HIDE DEF Found
  <2>3. (CHOOSE k \in Found : \A j \in Found : k <= j) \in Found
    BY <2>1
  <2>. QED
    BY <2>2, <2>3 DEF Range, Found
<1>. QED
  BY <1>1, <1>2

-------------------------------------------------------------------------------
(* Types.                                                                   *)

Ovs == {NoOverride} \cup UNION {Range(ovs) : ovs \in OverrideLists}
Leaves == DOMAIN Kind \cup UNION {DOMAIN ov.patch : ov \in Ovs}
UserValues == {v.value : v \in Vibrations} \cup UNION {Range(ov.patch) : ov \in Ovs}
Values == [kind : {"fresh", "time", "const"}, n : Nat] \cup UserValues

PartialFcns(S, T) == UNION {[D -> T] : D \in SUBSET S}
Bodies == PartialFcns(Leaves, Values)
AllCells == UNION {Cells(u) : u \in DOMAIN Instances}
Builts == PartialFcns(AllCells, Values)

Positions == {Position(root, l) : root \in DOMAIN Instances, l \in Leaves}
Records == {r \in [run : Nat, url : Targets, body : Bodies, pos : PartialFcns(Leaves, Positions)] :
              DOMAIN r.pos = DOMAIN r.body}
Entries == {e \in [url : DOMAIN Instances, sel : Nat] : e.sel \in DOMAIN Instances[e.url]}

Stages == {"idle", "match", "fixed", "expand", "save", "synth", "bump", "gen",
           "seq", "patch", "vibrate", "decode", "record", "mark",
           "answer", "refuse", "abort"}
Handlers == [pc : Stages, run : Nat, url : Targets \cup {None}, ov : Ovs,
             root : DOMAIN Instances \cup {None}, tmp : Nat, built : Builts,
             body : Bodies, vib : BOOLEAN, snap : Seq(Records) \cup Seq(Entries)]

(* What each stage of a handler may rely on.                                *)
Found == {"save", "synth", "bump", "gen", "seq", "patch", "vibrate", "decode", "record", "mark"}
Synthesizing == {"save", "synth", "bump", "gen"}
StageOK(h) ==
  /\ h.pc = "match" => h.url \in Urls
  /\ h.pc # "idle" => h.url \in Targets
  /\ h.pc \in Found => h.url \in DOMAIN Instances /\ h.root \in DOMAIN Instances
  /\ h.pc = "save" => Schema[h.root] = Schema[h.url]
  /\ h.pc \in {"bump", "gen"} => Unfinished(h) /\ Kind[Leaf(h)] \in {"fresh", "time"}
  /\ h.pc = "seq" => Selected(h.url, h.ov) # 0 /\ h.snap \in Seq(Entries)
  /\ h.pc = "record" => h.snap \in Seq(Records)

CacheOK == /\ DOMAIN cache \subseteq {Schema[u] : u \in DOMAIN Instances}
           /\ \A k \in DOMAIN cache : cache[k] \in DOMAIN Instances /\ Schema[cache[k]] = k

(* The inductive invariant behind TypeOK.                                   *)
TypeInv ==
  /\ overrides \in OverrideLists \cup {<<>>}
  /\ rnd \in [fresh : Nat, time : Nat]
  /\ records \in Seq(Records)
  /\ seqs \in Seq(Entries)
  /\ vibration \in Vibrations \cup {None}
  /\ vibrationRecord \in Records \cup {None}
  /\ CacheOK
  /\ run \in 0..MaxRuns /\ arrived \in 0..MaxRequests
  /\ answered \in Seq(Bodies)
  /\ hd \in [Slots -> Handlers]
  /\ \A s \in Slots : StageOK(hd[s]) /\ hd[s].run <= run

(* Extending, changing and reading a partial function keeps its type.       *)
LEMMA OverPartial ==
  ASSUME NEW S, NEW T, NEW f \in PartialFcns(S, T),
         NEW g, DOMAIN g \subseteq S, \A x \in DOMAIN g : g[x] \in T
  PROVE  Over(g, f) \in PartialFcns(S, T)
<1>1. PICK D \in SUBSET S : f \in [D -> T]
  BY DEF PartialFcns
<1>2. Over(g, f) \in [D \cup DOMAIN g -> T]
  BY <1>1 DEF Over
<1>3. D \cup DOMAIN g \in SUBSET S
  BY <1>1
<1>. QED
  BY <1>2, <1>3 DEF PartialFcns

LEMMA ChangedPartial ==
  ASSUME NEW S, NEW T, NEW f \in PartialFcns(S, T), NEW x, NEW t \in T
  PROVE  [f EXCEPT ![x] = t] \in PartialFcns(S, T)
<1>1. PICK D \in SUBSET S : f \in [D -> T]
  BY DEF PartialFcns
<1>2. [f EXCEPT ![x] = t] \in [D -> T]
  BY <1>1
<1>. QED
  BY <1>2 DEF PartialFcns

LEMMA SinglePartial ==
  ASSUME NEW S, NEW T, NEW x \in S, NEW t \in T
  PROVE  [c \in {x} |-> t] \in PartialFcns(S, T)
<1>1. [c \in {x} |-> t] \in [{x} -> T]
  OBVIOUS
<1>. QED
  BY <1>1 DEF PartialFcns

LEMMA EmptyPartial ==
  ASSUME NEW S, NEW T, NEW e
  PROVE  [c \in {} |-> e] \in PartialFcns(S, T)
<1>1. [c \in {} |-> e] \in [{} -> T]
  OBVIOUS
<1>2. {} \in SUBSET S
  OBVIOUS
<1>. QED
  BY <1>1, <1>2 DEF PartialFcns

LEMMA PartialIs ==
  ASSUME NEW S, NEW T, NEW f \in PartialFcns(S, T)
  PROVE  /\ f = [x \in DOMAIN f |-> f[x]]
         /\ DOMAIN f \subseteq S
         /\ \A x \in DOMAIN f : f[x] \in T
BY DEF PartialFcns

(* The selected response carries the values that were synthesized for it.   *)
LEMMA ResponseCarries ==
  ASSUME NEW u \in DOMAIN Instances, NEW built, NEW m \in DOMAIN Instances[u],
         NEW l \in DOMAIN Response(u, built, m)
  PROVE  /\ DOMAIN Response(u, built, m) = Range(Instances[u][m])
         /\ \E c \in Cells(u) : /\ c[1] = m /\ LeafAt(u, c) = l
                                /\ Response(u, built, m)[l] = built[c]
<1>1. DOMAIN Response(u, built, m) = Range(Instances[u][m])
  BY DEF Response
<1>2. PICK k \in DOMAIN Instances[u][m] : l = Instances[u][m][k]
  BY <1>1 DEF Range
<1>3. <<m, k>> \in Cells(u) /\ <<m, k>>[1] = m /\ LeafAt(u, <<m, k>>) = l
  BY <1>2 DEF Cells, LeafAt
<1>. DEFINE c == CHOOSE d \in Cells(u) : d[1] = m /\ LeafAt(u, d) = l
<1>4. c \in Cells(u) /\ c[1] = m /\ LeafAt(u, c) = l
  <2>1. \E d \in Cells(u) : d[1] = m /\ LeafAt(u, d) = l
    BY <1>3
  <2>. QED
    BY <2>1
<1>5. Response(u, built, m)[l] = built[c]
  BY <1>1 DEF Response
<1>. QED
  BY <1>1, <1>4, <1>5

LEMMA ResponseType ==
  ASSUME NEW u \in DOMAIN Instances, NEW built \in Builts, NEW m \in DOMAIN Instances[u],
         Cells(u) \subseteq DOMAIN built
  PROVE  Response(u, built, m) \in Bodies
<1>. DEFINE r == Response(u, built, m)
            D == Range(Instances[u][m])
<1>1. \A l \in DOMAIN r : r[l] \in Values
  BY ResponseCarries, PartialIs DEF Builts
<1>2. r = [l \in D |-> r[l]] /\ DOMAIN r = D
  BY DEF Response
<1>3. D \subseteq DOMAIN Kind
  <2>1. Instances[u][m] \in Seq(DOMAIN Kind)
    BY InstancesAssumption
  <2>. QED
    BY <2>1 DEF Range
<1>. HIDE DEF r, D
<1>4. r \in [D -> Values]
  BY <1>1, <1>2
<1>. QED
  BY <1>3, <1>4 DEF r, D, Bodies, PartialFcns, Leaves

LEMMA PatchedType ==
  ASSUME NEW ov \in Ovs, NEW body \in Bodies
  PROVE  Over(ov.patch, body) \in Bodies
<1>1. DOMAIN ov.patch \subseteq Leaves
  BY DEF Leaves
<1>2. \A l \in DOMAIN ov.patch : ov.patch[l] \in Values
  BY DEF Values, UserValues, Range
<1>. QED
  BY <1>1, <1>2, OverPartial DEF Bodies

(* With(h, v) synthesizes one more cell, of the leaf whose turn it is.      *)
LEMMA WithType ==
  ASSUME NEW h \in Handlers, h.url \in DOMAIN Instances, Unfinished(h), NEW v \in Values
  PROVE  /\ NextCell(h.url, h.built) \in Cells(h.url) \ DOMAIN h.built
         /\ Leaf(h) \in DOMAIN Kind
         /\ With(h, v) \in Builts
<1>. DEFINE c == NextCell(h.url, h.built)
<1>1. c \in Cells(h.url) \ DOMAIN h.built
  BY NextCellIsOpen DEF Unfinished
<1>2. Leaf(h) \in DOMAIN Kind
  BY <1>1, CellsArePairs DEF Leaf
<1>3. h.built \in Builts
  BY DEF Handlers
<1>4. c \in AllCells
  BY <1>1 DEF AllCells
<1>. HIDE DEF c
<1>5. DOMAIN [x \in {c} |-> v] \subseteq AllCells /\ \A x \in DOMAIN [y \in {c} |-> v] : [y \in {c} |-> v][x] \in Values
  BY <1>4
<1>6. Over([x \in {c} |-> v], h.built) \in Builts
  BY <1>3, <1>5, OverPartial DEF Builts
<1>. QED
  BY <1>1, <1>2, <1>6 DEF With, c

LEMMA RecordType ==
  ASSUME NEW h \in Handlers, h.url \in Targets, h.root \in DOMAIN Instances
  PROVE  RecordOf(h) \in Records
<1>1. h.run \in Nat /\ h.body \in Bodies
  BY DEF Handlers
<1>2. DOMAIN h.body \subseteq Leaves
  BY <1>1, PartialIs DEF Bodies
<1>3. [l \in DOMAIN h.body |-> Position(h.root, l)] \in [DOMAIN h.body -> Positions]
  BY <1>2 DEF Positions
<1>4. [l \in DOMAIN h.body |-> Position(h.root, l)] \in PartialFcns(Leaves, Positions)
  BY <1>2, <1>3 DEF PartialFcns
<1>. QED
  BY <1>1, <1>4 DEF RecordOf, Records

LEMMA IdleType == Idle \in Handlers /\ StageOK(Idle) /\ Idle.pc = "idle" /\ Idle.run = 0
<1>1. Idle.built \in Builts /\ Idle.body \in Bodies
  BY EmptyPartial DEF Idle, Builts, Bodies
<1>2. NoOverride \in Ovs
  BY DEF Ovs
<1>. QED
  BY <1>1, <1>2 DEF Idle, Handlers, Stages, StageOK, Found

-------------------------------------------------------------------------------
(* A step of one handler leaves the others alone.                           *)
LEMMA OneHandlerMoves ==
  ASSUME TypeInv, NEW s \in Slots,
         Handle(s) \/ Reply(s) \/ \E u \in Urls : Arrive(s, u)
  PROVE  /\ hd' = [hd EXCEPT ![s] = hd'[s]]
         /\ run' = run
<1>1. hd \in [Slots -> Handlers]
  BY DEF TypeInv
<1>. USE DEF shared, ghosts
<1>2. CASE MatchOverride(s) BY <1>1, <1>2 DEF MatchOverride
<1>3. CASE Expand(s) BY <1>1, <1>3 DEF Expand
<1>4. CASE CacheSave(s) BY <1>1, <1>4 DEF CacheSave
<1>5. CASE SynthConst(s) BY <1>1, <1>5 DEF SynthConst
<1>6. CASE SynthRead(s) BY <1>1, <1>6 DEF SynthRead
<1>7. CASE SynthBump(s) BY <1>1, <1>7 DEF SynthBump
<1>8. CASE SynthGen(s) BY <1>1, <1>8 DEF SynthGen
<1>9. CASE Select(s) BY <1>1, <1>9 DEF Select
<1>10. CASE AppendSeq(s) BY <1>1, <1>10 DEF AppendSeq
<1>11. CASE Patch(s) BY <1>1, <1>11 DEF Patch
<1>12. CASE Vibrate(s) BY <1>1, <1>12 DEF Vibrate
<1>13. CASE Decode(s) BY <1>1, <1>13 DEF Decode
<1>14. CASE AppendRecord(s) BY <1>1, <1>14 DEF AppendRecord
<1>15. CASE MarkVibration(s) BY <1>1, <1>15 DEF MarkVibration
<1>16. CASE Reply(s) BY <1>1, <1>16 DEF Reply, Answer, AnswerFixed, Refuse, Release
<1>17. CASE \E u \in Urls : Arrive(s, u) BY <1>1, <1>17 DEF Arrive
<1>. QED
  BY <1>2, <1>3, <1>4, <1>5, <1>6, <1>7, <1>8, <1>9, <1>10, <1>11, <1>12, <1>13, <1>14,
     <1>15, <1>16, <1>17 DEF Handle

(* The types of what handlers share.                                        *)
SharedOK ==
  /\ overrides \in OverrideLists \cup {<<>>}
  /\ rnd \in [fresh : Nat, time : Nat]
  /\ records \in Seq(Records)
  /\ seqs \in Seq(Entries)
  /\ vibration \in Vibrations \cup {None}
  /\ vibrationRecord \in Records \cup {None}
  /\ CacheOK

(* From one stage to a later one that relies on no more.                    *)
LEMMA StagePasses ==
  ASSUME NEW h, StageOK(h), h.pc # "idle", NEW g, g.url = h.url,
         \/ g.pc \in {"fixed", "refuse", "abort", "answer"}
         \/ /\ g.pc \in {"synth", "patch", "vibrate", "decode", "mark"}
            /\ h.pc \in Found /\ g.root = h.root
  PROVE  StageOK(g)
<1>1. g.url \in Targets
  BY DEF StageOK
<1>2. CASE g.pc \in {"fixed", "refuse", "abort", "answer"}
  BY <1>1, <1>2 DEF StageOK, Found
<1>3. CASE /\ g.pc \in {"synth", "patch", "vibrate", "decode", "mark"}
           /\ h.pc \in Found /\ g.root = h.root
  <2>1. g.url \in DOMAIN Instances /\ g.root \in DOMAIN Instances
    BY <1>3 DEF StageOK
  <2>. QED
    BY <1>1, <1>3, <2>1 DEF StageOK, Found
<1>. QED
  BY <1>2, <1>3

LEMMA HandleKeepsTypes ==
  ASSUME TypeInv, NEW s \in Slots, Handle(s)
  PROVE  /\ hd'[s] \in Handlers /\ StageOK(hd'[s]) /\ hd'[s].run = hd[s].run
         /\ SharedOK'
<1>. DEFINE h == hd[s]
<1>1. hd \in [Slots -> Handlers] /\ h \in Handlers /\ StageOK(h) /\ SharedOK
  BY DEF TypeInv, SharedOK
<1>. USE DEF shared, ghosts, At
<1>2. CASE MatchOverride(s)
  <2>1. h.pc = "match" /\ h.url \in Urls /\ h.url \in Targets
    BY <1>1, <1>2 DEF MatchOverride, StageOK
  <2>. DEFINE ov == Match(overrides, h.url.path)
  <2>2. ov \in Ovs /\ Modified(h.url, ov) \in Targets
    <3>1. overrides \in OverrideLists \/ overrides = <<>>
      BY <1>1 DEF SharedOK
    <3>2. DOMAIN overrides \subseteq Nat
      BY <3>1, OverridesAssumption
    <3>3. ov = NoOverride \/ ov \in Range(overrides)
      BY <3>2, MatchIsOverride
    <3>4. CASE ov = NoOverride
      BY <2>1, <3>4 DEF Ovs, Modified, NoOverride
    <3>5. CASE ov \in Range(overrides)
      <4>1. overrides \in OverrideLists
        BY <3>1, <3>5 DEF Range
      <4>2. PICK k \in DOMAIN overrides : ov = overrides[k]
        BY <3>5 DEF Range
      <4>3. ov.toPath \in Rewrites
        BY <4>1, <4>2 DEF Rewrites
      <4>4. ov \in Ovs
        BY <3>5, <4>1 DEF Ovs
      <4>. QED
        BY <2>1, <4>3, <4>4 DEF Modified, Targets
    <3>. QED
      BY <3>3, <3>4, <3>5
  <2>3. \/ hd' = [hd EXCEPT ![s].pc = "fixed"]
        \/ hd' = [hd EXCEPT ![s].pc = "expand", ![s].ov = ov, ![s].url = Modified(h.url, ov)]
    BY <1>2 DEF MatchOverride
  <2>. HIDE DEF ov
  <2>0. SharedOK'
    BY <1>1, <1>2 DEF MatchOverride, SharedOK, CacheOK
  <2>4. CASE hd' = [hd EXCEPT ![s].pc = "fixed"]
    <3>1. hd'[s] = [h EXCEPT !.pc = "fixed"]
      BY <1>1, <2>4
    <3>2. hd'[s] \in Handlers /\ hd'[s].run = h.run
      BY <1>1, <3>1 DEF Handlers, Stages
    <3>3. hd'[s].pc = "fixed" /\ hd'[s].url = h.url
      BY <1>1, <3>1 DEF Handlers
    <3>4. StageOK(hd'[s])
      BY <1>1, <2>1, <3>3, StagePasses
    <3>. QED
      BY <2>0, <3>2, <3>4
  <2>5. CASE hd' = [hd EXCEPT ![s].pc = "expand", ![s].ov = ov, ![s].url = Modified(h.url, ov)]
    <3>1. hd'[s] = [h EXCEPT !.pc = "expand", !.ov = ov, !.url = Modified(h.url, ov)]
      BY <1>1, <2>5
    <3>2. hd'[s] \in Handlers /\ hd'[s].run = h.run
      BY <1>1, <2>2, <3>1 DEF Handlers, Stages
    <3>3. hd'[s].pc = "expand" /\ hd'[s].url \in Targets
      BY <1>1, <2>2, <3>1 DEF Handlers
    <3>4. StageOK(hd'[s])
      BY <3>3 DEF StageOK, Found
    <3>. QED
      BY <2>0, <3>2, <3>4
  <2>. QED
    BY <2>3, <2>4, <2>5
<1>3. CASE Expand(s)
  <2>1. h.pc = "expand" /\ h.url \in Targets
    BY <1>1, <1>3 DEF Expand, StageOK
  <2>2. SharedOK'
    BY <1>1, <1>3 DEF Expand, SharedOK, CacheOK
  <2>3. CASE h.url \notin DOMAIN Instances
    <3>1. hd'[s] = [h EXCEPT !.pc = "refuse"]
      BY <1>1, <1>3, <2>3 DEF Expand
    <3>2. hd'[s] \in Handlers /\ hd'[s].run = h.run /\ hd'[s].pc = "refuse" /\ hd'[s].url = h.url
      BY <1>1, <3>1 DEF Handlers, Stages
    <3>3. StageOK(hd'[s])
      BY <1>1, <2>1, <3>2, StagePasses
    <3>. QED
      BY <2>2, <3>2, <3>3
  <2>4. CASE h.url \in DOMAIN Instances
    <3>1. PICK root \in DOMAIN Instances, pc \in {"save", "synth"} :
            /\ hd'[s] = [h EXCEPT !.pc = pc, !.root = root]
            /\ pc = "save" => root = h.url
      <4>1. CASE CacheHit(h)
        <5>1. cache[Schema[h.url]] \in DOMAIN Instances
          BY <1>1, <4>1 DEF CacheHit, SharedOK, CacheOK
        <5>2. hd'[s] = [h EXCEPT !.pc = "synth", !.root = cache[Schema[h.url]]]
          BY <1>1, <1>3, <2>4, <4>1 DEF Expand
        <5>. QED
          BY <5>1, <5>2
      <4>2. CASE ~CacheHit(h)
        <5>1. hd'[s] = [h EXCEPT !.pc = IF h.ov.cached THEN "save" ELSE "synth", !.root = h.url]
          BY <1>1, <1>3, <2>4, <4>2 DEF Expand
        <5>2. (IF h.ov.cached THEN "save" ELSE "synth") \in {"save", "synth"}
          OBVIOUS
        <5>. QED
          BY <2>4, <5>1, <5>2
      <4>. QED
        BY <4>1, <4>2
    <3>2. hd'[s] \in Handlers /\ hd'[s].run = h.run
      BY <1>1, <3>1 DEF Handlers, Stages
    <3>3. hd'[s].pc = pc /\ hd'[s].url = h.url /\ hd'[s].root = root
      BY <1>1, <3>1 DEF Handlers
    <3>4. StageOK(hd'[s])
      BY <2>1, <2>4, <3>1, <3>3 DEF StageOK, Found
    <3>. QED
      BY <2>2, <3>2, <3>4
  <2>. QED
    BY <2>3, <2>4
<1>4. CASE CacheSave(s)
  <2>1. /\ h.pc = "save" /\ h.url \in Targets /\ Schema[h.root] = Schema[h.url]
        /\ h.url \in DOMAIN Instances /\ h.root \in DOMAIN Instances
    BY <1>1, <1>4 DEF CacheSave, StageOK, Found
  <2>2. CacheOK'
    BY <1>1, <1>4, <2>1 DEF CacheSave, SharedOK, CacheOK, Over
  <2>3. hd'[s] \in Handlers /\ StageOK(hd'[s]) /\ hd'[s].run = hd[s].run
    BY <1>1, <1>4, <2>1 DEF CacheSave, Handlers, Stages, StageOK, Found
  <2>. QED
    BY <1>1, <1>4, <2>2, <2>3 DEF CacheSave, SharedOK
<1>5. CASE SynthConst(s)
  <2>1. /\ h.pc = "synth" /\ Unfinished(h) /\ h.url \in Targets
        /\ h.url \in DOMAIN Instances /\ h.root \in DOMAIN Instances
    BY <1>1, <1>5 DEF SynthConst, StageOK, Found
  <2>2. Value("const", 0) \in Values
    BY DEF Value, Values
  <2>3. With(h, Value("const", 0)) \in Builts
    BY <1>1, <2>1, <2>2, WithType
  <2>4. hd'[s] \in Handlers /\ StageOK(hd'[s]) /\ hd'[s].run = hd[s].run
    BY <1>1, <1>5, <2>1, <2>3 DEF SynthConst, Handlers, Stages, StageOK, Found
  <2>. QED
    BY <1>1, <1>5, <2>4 DEF SynthConst, SharedOK, CacheOK
<1>6. CASE SynthRead(s)
  <2>1. /\ h.pc = "synth" /\ Unfinished(h) /\ Kind[Leaf(h)] # "const" /\ h.url \in Targets
        /\ h.url \in DOMAIN Instances /\ h.root \in DOMAIN Instances
    BY <1>1, <1>6 DEF SynthRead, StageOK, Found
  <2>2. Value("const", 0) \in Values
    BY DEF Value, Values
  <2>3. Kind[Leaf(h)] \in {"fresh", "time"}
    BY <1>1, <2>1, <2>2, WithType, KindAssumption
  <2>4. rnd[Kind[Leaf(h)]] \in Nat
    BY <1>1, <2>3 DEF SharedOK
  <2>5. hd'[s] = [h EXCEPT !.pc = "bump", !.tmp = rnd[Kind[Leaf(h)]]]
    BY <1>1, <1>6 DEF SynthRead
  <2>6. Unfinished(hd'[s]) /\ Leaf(hd'[s]) = Leaf(h)
    BY <1>1, <2>1, <2>5 DEF Unfinished, Leaf, Handlers
  <2>7. hd'[s] \in Handlers /\ StageOK(hd'[s]) /\ hd'[s].run = hd[s].run
    BY <1>1, <2>1, <2>3, <2>4, <2>5, <2>6 DEF Handlers, Stages, StageOK, Found
  <2>. QED
    BY <1>1, <1>6, <2>7 DEF SynthRead, SharedOK, CacheOK
<1>7. CASE SynthBump(s)
  <2>1. /\ h.pc = "bump" /\ Unfinished(h) /\ Kind[Leaf(h)] \in {"fresh", "time"}
        /\ h.url \in Targets /\ h.url \in DOMAIN Instances /\ h.root \in DOMAIN Instances
    BY <1>1, <1>7 DEF SynthBump, StageOK, Found
  <2>2. hd'[s] = [h EXCEPT !.pc = "gen", !.tmp = 0]
    BY <1>1, <1>7 DEF SynthBump
  <2>3. Unfinished(hd'[s]) /\ Leaf(hd'[s]) = Leaf(h)
    BY <1>1, <2>1, <2>2 DEF Unfinished, Leaf, Handlers
  <2>4. hd'[s] \in Handlers /\ StageOK(hd'[s]) /\ hd'[s].run = hd[s].run
    <3>1. hd'[s] \in Handlers /\ hd'[s].run = h.run
      <4>1. "gen" \in Stages /\ 0 \in Nat
        BY DEF Stages
      <4>. QED
        BY <1>1, <2>2, <4>1 DEF Handlers
    <3>2. hd'[s].pc = "gen" /\ hd'[s].url = h.url /\ hd'[s].root = h.root
      BY <1>1, <2>2 DEF Handlers
    <3>3. StageOK(hd'[s])
      BY <2>1, <2>3, <3>2 DEF StageOK, Found
    <3>. QED
      BY <3>1, <3>3
  <2>5. h.tmp + 1 \in Nat
    BY <1>1 DEF Handlers
  <2>6. rnd' \in [fresh : Nat, time : Nat]
    BY <1>1, <1>7, <2>1, <2>5 DEF SynthBump, SharedOK
  <2>. QED
    BY <1>1, <1>7, <2>4, <2>6 DEF SynthBump, SharedOK, CacheOK
<1>8. CASE SynthGen(s)
  <2>1. /\ h.pc = "gen" /\ Unfinished(h) /\ Kind[Leaf(h)] \in {"fresh", "time"}
        /\ h.url \in Targets /\ h.url \in DOMAIN Instances /\ h.root \in DOMAIN Instances
    BY <1>1, <1>8 DEF SynthGen, StageOK, Found
  <2>. DEFINE v == Value(Kind[Leaf(h)], rnd[Kind[Leaf(h)]])
  <2>2. v \in Values
    BY <1>1, <2>1 DEF Value, Values, SharedOK
  <2>3. With(h, v) \in Builts
    BY <1>1, <2>1, <2>2, WithType
  <2>4. hd'[s] = [h EXCEPT !.pc = "synth", !.built = With(h, v)]
    BY <1>1, <1>8 DEF SynthGen
  <2>. HIDE DEF v
  <2>5. hd'[s] \in Handlers /\ StageOK(hd'[s]) /\ hd'[s].run = hd[s].run
    BY <1>1, <2>1, <2>3, <2>4 DEF Handlers, Stages, StageOK, Found
  <2>. QED
    BY <1>1, <1>8, <2>5 DEF SynthGen, SharedOK, CacheOK
<1>9. CASE Select(s)
  <2>1. /\ h.pc = "synth" /\ ~Unfinished(h) /\ h.url \in Targets
        /\ h.url \in DOMAIN Instances /\ h.root \in DOMAIN Instances
    BY <1>1, <1>9 DEF Select, StageOK, Found
  <2>. DEFINE m == Selected(h.url, h.ov)
  <2>2. CASE m = 0
    <3>1. hd'[s] = [h EXCEPT !.pc = "refuse"]
      BY <1>1, <1>9, <2>2 DEF Select
    <3>2. hd'[s] \in Handlers /\ hd'[s].run = h.run /\ hd'[s].pc = "refuse" /\ hd'[s].url = h.url
      BY <1>1, <3>1 DEF Handlers, Stages
    <3>3. StageOK(hd'[s])
      BY <1>1, <2>1, <3>2, StagePasses
    <3>. QED
      BY <1>1, <1>9, <3>2, <3>3 DEF Select, SharedOK, CacheOK
  <2>3. CASE m # 0
    <3>1. m \in DOMAIN Instances[h.url]
      BY <2>1, <2>3, SelectedIsInstance
    <3>2. Cells(h.url) \subseteq DOMAIN h.built
      BY <2>1 DEF Unfinished
    <3>3. Response(h.url, h.built, m) \in Bodies
      <4>1. h.built \in Builts
        BY <1>1 DEF Handlers
      <4>. QED
        BY <2>1, <3>1, <3>2, <4>1, ResponseType
    <3>4. hd'[s] = [h EXCEPT !.pc = "seq", !.snap = seqs, !.body = Response(h.url, h.built, m),
                             !.built = Idle.built]
      BY <1>1, <1>9, <2>3 DEF Select
    <3>5. Idle.built \in Builts
      BY IdleType DEF Handlers
    <3>6. seqs \in Seq(Entries)
      BY <1>1 DEF SharedOK
    <3>. HIDE DEF m
    <3>7. hd'[s] \in Handlers /\ hd'[s].run = hd[s].run
      BY <1>1, <3>3, <3>4, <3>5, <3>6 DEF Handlers, Stages
    <3>8. /\ hd'[s].pc = "seq" /\ hd'[s].url = h.url /\ hd'[s].ov = h.ov /\ hd'[s].root = h.root
          /\ hd'[s].snap = seqs
      BY <1>1, <3>4 DEF Handlers
    <3>9. StageOK(hd'[s])
      BY <2>1, <2>3, <3>6, <3>8 DEF StageOK, Found, m
    <3>. QED
      BY <1>1, <1>9, <3>7, <3>9 DEF Select, SharedOK, CacheOK
  <2>. QED
    BY <2>2, <2>3
<1>10. CASE AppendSeq(s)
  <2>1. /\ h.pc = "seq" /\ h.url \in Targets /\ Selected(h.url, h.ov) # 0 /\ h.snap \in Seq(Entries)
        /\ h.url \in DOMAIN Instances /\ h.root \in DOMAIN Instances
    BY <1>1, <1>10 DEF AppendSeq, StageOK, Found
  <2>2. SeqEntry(h) \in Entries
    <3>1. Selected(h.url, h.ov) \in DOMAIN Instances[h.url]
      BY <2>1, SelectedIsInstance
    <3>2. Instances[h.url] \in Seq(Seq(DOMAIN Kind))
      BY <2>1, InstancesAssumption
    <3>. QED
      BY <2>1, <3>1, <3>2 DEF SeqEntry, Entries
  <2>3. seqs' \in Seq(Entries)
    BY <1>10, <2>1, <2>2 DEF AppendSeq
  <2>4. hd'[s] \in Handlers /\ StageOK(hd'[s]) /\ hd'[s].run = hd[s].run
    <3>1. hd'[s] = [h EXCEPT !.pc = "patch", !.snap = <<>>]
      BY <1>1, <1>10 DEF AppendSeq
    <3>2. "patch" \in Stages /\ <<>> \in Seq(Records)
      BY DEF Stages
    <3>3. hd'[s] \in Handlers /\ hd'[s].run = h.run
      BY <1>1, <3>1, <3>2 DEF Handlers
    <3>4. hd'[s].pc = "patch" /\ hd'[s].url = h.url /\ hd'[s].root = h.root
      BY <1>1, <3>1 DEF Handlers
    <3>5. StageOK(hd'[s])
      BY <1>1, <2>1, <3>4, StagePasses DEF Found
    <3>. QED
      BY <3>3, <3>5
  <2>. QED
    BY <1>1, <1>10, <2>3, <2>4 DEF AppendSeq, SharedOK, CacheOK
<1>11. CASE Patch(s)
  <2>1. /\ h.pc = "patch" /\ h.url \in Targets
        /\ h.url \in DOMAIN Instances /\ h.root \in DOMAIN Instances
    BY <1>1, <1>11 DEF Patch, StageOK, Found
  <2>2. Over(h.ov.patch, h.body) \in Bodies
    BY <1>1, PatchedType DEF Handlers
  <2>3. \/ hd'[s] = [h EXCEPT !.pc = "refuse"]
        \/ \E pc \in {"vibrate", "decode"} :
             hd'[s] = [h EXCEPT !.pc = pc, !.body = Over(h.ov.patch, h.body)]
    <3>1. (IF Hits(vibration, h.url) THEN "vibrate" ELSE "decode") \in {"vibrate", "decode"}
      OBVIOUS
    <3>. QED
      BY <1>1, <1>11, <3>1 DEF Patch, Handlers
  <2>4. hd'[s] \in Handlers /\ hd'[s].run = h.run
    BY <1>1, <2>2, <2>3 DEF Handlers, Stages
  <2>5. hd'[s].pc \in {"refuse", "vibrate", "decode"} /\ hd'[s].url = h.url /\ hd'[s].root = h.root
    BY <1>1, <2>3 DEF Handlers
  <2>6. StageOK(hd'[s])
    BY <1>1, <2>1, <2>5, StagePasses DEF Found
  <2>. QED
    BY <1>1, <1>11, <2>4, <2>6 DEF Patch, SharedOK, CacheOK
<1>12. CASE Vibrate(s)
  <2>1. /\ h.pc = "vibrate" /\ h.url \in Targets
        /\ h.url \in DOMAIN Instances /\ h.root \in DOMAIN Instances
    BY <1>1, <1>12 DEF Vibrate, StageOK, Found
  <2>2. vibration # None => [h.body EXCEPT ![vibration.leaf] = vibration.value] \in Bodies
    <3>1. vibration # None => vibration.value \in Values
      BY <1>1 DEF SharedOK, Values, UserValues
    <3>. QED
      BY <1>1, <3>1, ChangedPartial DEF Bodies, Handlers
  <2>3. \/ hd'[s] = [h EXCEPT !.pc = "abort"]
        \/ hd'[s] = [h EXCEPT !.pc = "refuse"]
        \/ /\ vibration # None
           /\ hd'[s] = [h EXCEPT !.pc = "decode", !.vib = TRUE,
                                 !.body = [h.body EXCEPT ![vibration.leaf] = vibration.value]]
    BY <1>1, <1>12 DEF Vibrate, Handlers
  <2>4. hd'[s] \in Handlers /\ hd'[s].run = h.run
    BY <1>1, <2>2, <2>3 DEF Handlers, Stages
  <2>5. hd'[s].pc \in {"abort", "refuse", "decode"} /\ hd'[s].url = h.url /\ hd'[s].root = h.root
    BY <1>1, <2>3 DEF Handlers
  <2>6. StageOK(hd'[s])
    BY <1>1, <2>1, <2>5, StagePasses DEF Found
  <2>. QED
    BY <1>1, <1>12, <2>4, <2>6 DEF Vibrate, SharedOK, CacheOK
<1>13. CASE Decode(s)
  <2>1. /\ h.pc = "decode" /\ h.url \in Targets
        /\ h.url \in DOMAIN Instances /\ h.root \in DOMAIN Instances
    BY <1>1, <1>13 DEF Decode, StageOK, Found
  <2>2. records \in Seq(Records)
    BY <1>1 DEF SharedOK
  <2>3. \/ hd'[s] = [h EXCEPT !.pc = "refuse"]
        \/ hd'[s] = [h EXCEPT !.pc = "record", !.snap = records]
    BY <1>1, <1>13 DEF Decode
  <2>4. hd'[s] \in Handlers /\ hd'[s].run = h.run
    BY <1>1, <2>2, <2>3 DEF Handlers, Stages
  <2>5. /\ hd'[s].url = h.url /\ hd'[s].root = h.root
        /\ \/ hd'[s].pc = "refuse"
           \/ hd'[s].pc = "record" /\ hd'[s].snap = records
    BY <1>1, <2>3 DEF Handlers
  <2>6. StageOK(hd'[s])
    BY <2>1, <2>2, <2>5 DEF StageOK, Found
  <2>. QED
    BY <1>1, <1>13, <2>4, <2>6 DEF Decode, SharedOK, CacheOK
<1>14. CASE AppendRecord(s)
  <2>1. /\ h.pc = "record" /\ h.url \in Targets /\ h.snap \in Seq(Records)
        /\ h.url \in DOMAIN Instances /\ h.root \in DOMAIN Instances
    BY <1>1, <1>14 DEF AppendRecord, StageOK, Found
  <2>2. records' \in Seq(Records)
    BY <1>1, <1>14, <2>1, RecordType DEF AppendRecord
  <2>3. hd'[s] \in Handlers /\ StageOK(hd'[s]) /\ hd'[s].run = hd[s].run
    <3>1. PICK pc \in {"mark", "answer"} : hd'[s] = [h EXCEPT !.pc = pc, !.snap = <<>>]
      <4>1. (IF h.vib THEN "mark" ELSE "answer") \in {"mark", "answer"}
        OBVIOUS
      <4>. QED
        BY <1>1, <1>14, <4>1 DEF AppendRecord
    <3>2. pc \in Stages /\ <<>> \in Seq(Records)
      BY DEF Stages
    <3>3. hd'[s] \in Handlers /\ hd'[s].run = h.run
      BY <1>1, <3>1, <3>2 DEF Handlers
    <3>4. hd'[s].pc \in {"mark", "answer"} /\ hd'[s].url = h.url /\ hd'[s].root = h.root
      BY <1>1, <3>1 DEF Handlers
    <3>5. StageOK(hd'[s])
      BY <1>1, <2>1, <3>4, StagePasses DEF Found
    <3>. QED
      BY <3>3, <3>5
  <2>. QED
    BY <1>1, <1>14, <2>2, <2>3 DEF AppendRecord, SharedOK, CacheOK
<1>15. CASE MarkVibration(s)
  <2>1. h.pc = "mark" /\ h.url \in Targets /\ h.root \in DOMAIN Instances
    BY <1>1, <1>15 DEF MarkVibration, StageOK, Found
  <2>2. vibrationRecord' \in Records
    BY <1>1, <1>15, <2>1, RecordType DEF MarkVibration
  <2>3. hd'[s] \in Handlers /\ StageOK(hd'[s]) /\ hd'[s].run = hd[s].run
    BY <1>1, <1>15, <2>1 DEF MarkVibration, Handlers, Stages, StageOK, Found
  <2>. QED
    BY <1>1, <1>15, <2>2, <2>3 DEF MarkVibration, SharedOK, CacheOK
<1>. QED
  BY <1>2, <1>3, <1>4, <1>5, <1>6, <1>7, <1>8, <1>9, <1>10, <1>11, <1>12, <1>13, <1>14,
     <1>15 DEF Handle

LEMMA TypeInit == Init => TypeInv
<1>. SUFFICES ASSUME Init PROVE TypeInv
  OBVIOUS
<1>1. hd \in [Slots -> Handlers] /\ \A s \in Slots : StageOK(hd[s]) /\ hd[s].run <= run
  BY IdleType DEF Init
<1>2. CacheOK
  BY DEF Init, CacheOK
<1>. QED
  BY <1>1, <1>2, BoundsAssumption DEF Init, TypeInv, NoRnd

(* One handler changes, to one of the right type; the others stay.          *)
LEMMA HandlersTyped ==
  ASSUME TypeInv, NEW s \in Slots, hd' = [hd EXCEPT ![s] = hd'[s]], run' = run,
         hd'[s] \in Handlers, StageOK(hd'[s]), hd'[s].run <= run
  PROVE  /\ hd' \in [Slots -> Handlers]
         /\ \A t \in Slots : StageOK(hd'[t]) /\ hd'[t].run <= run'
<1>1. hd \in [Slots -> Handlers] /\ \A t \in Slots : StageOK(hd[t]) /\ hd[t].run <= run
  BY DEF TypeInv
<1>2. hd' \in [Slots -> Handlers]
  BY <1>1
<1>3. ASSUME NEW t \in Slots PROVE StageOK(hd'[t]) /\ hd'[t].run <= run'
  <2>1. CASE t = s
    BY <2>1
  <2>2. CASE t # s
    <3>1. hd'[t] = hd[t]
      BY <1>1, <2>2
    <3>. QED
      BY <1>1, <3>1
  <2>. QED
    BY <2>1, <2>2
<1>. QED
  BY <1>2, <1>3

LEMMA InitVibrationKeepsTypes ==
  ASSUME TypeInv, MayInit, NEW v \in Vibrations \cup {None}, InitVibration(v),
         overrides' \in OverrideLists \cup {<<>>}
  PROVE  TypeInv'
<1>1. rnd' \in [fresh : Nat, time : Nat]
  BY TimesAssumption DEF InitVibration
<1>2. run' \in 0..MaxRuns /\ arrived' \in 0..MaxRequests
  BY BoundsAssumption DEF InitVibration, TypeInv, MayInit
<1>3. hd' \in [Slots -> Handlers] /\ \A s \in Slots : StageOK(hd'[s]) /\ hd'[s].run <= run'
  <2>1. \A s \in Slots : hd[s].run \in Nat
    BY DEF TypeInv, Handlers
  <2>2. hd' = hd /\ run' = run + 1 /\ run \in Nat
    BY BoundsAssumption DEF InitVibration, TypeInv
  <2>3. \A s \in Slots : hd[s].run <= run + 1
    BY <2>1, <2>2 DEF TypeInv
  <2>. QED
    BY <2>2, <2>3 DEF TypeInv
<1>4. CacheOK'
  BY DEF TypeInv, CacheOK, InitVibration
<1>. QED
  BY <1>1, <1>2, <1>3, <1>4 DEF InitVibration, TypeInv

LEMMA TypeStep == TypeInv /\ [Next]_vars => TypeInv'
<1>. SUFFICES ASSUME TypeInv, [Next]_vars PROVE TypeInv'
  OBVIOUS
<1>1. CASE UNCHANGED vars
  BY <1>1 DEF TypeInv, CacheOK, vars, shared
<1>2. ASSUME NEW s \in Slots, Handle(s) PROVE TypeInv'
  <2>1. hd' = [hd EXCEPT ![s] = hd'[s]] /\ run' = run
    BY <1>2, OneHandlerMoves
  <2>2. /\ hd'[s] \in Handlers /\ StageOK(hd'[s]) /\ hd'[s].run = hd[s].run
        /\ SharedOK'
    BY <1>2, HandleKeepsTypes
  <2>3. arrived' = arrived /\ answered' = answered
    BY <1>2 DEF Handle, MatchOverride, Expand, CacheSave, SynthConst, SynthRead, SynthBump,
       SynthGen, Select, AppendSeq, Patch, Vibrate, Decode, AppendRecord, MarkVibration, ghosts
  <2>4. /\ hd' \in [Slots -> Handlers]
        /\ \A t \in Slots : StageOK(hd'[t]) /\ hd'[t].run <= run'
    BY <2>1, <2>2, HandlersTyped DEF TypeInv
  <2>. QED
    BY <2>1, <2>2, <2>3, <2>4 DEF TypeInv, SharedOK
<1>3. ASSUME NEW s \in Slots, Reply(s) PROVE TypeInv'
  <2>1. /\ hd' = [hd EXCEPT ![s] = Idle] /\ arrived' = arrived /\ UNCHANGED shared
        /\ run' = run
    BY <1>3 DEF Reply, Answer, AnswerFixed, Refuse, Release
  <2>2. hd'[s] = Idle
    BY <2>1 DEF TypeInv
  <2>3. 0 <= run
    BY BoundsAssumption DEF TypeInv
  <2>4. /\ hd' \in [Slots -> Handlers]
        /\ \A t \in Slots : StageOK(hd'[t]) /\ hd'[t].run <= run'
    BY <2>1, <2>2, <2>3, IdleType, HandlersTyped
  <2>5. answered' \in Seq(Bodies)
    <3>1. answered \in Seq(Bodies) /\ hd[s].body \in Bodies
      BY DEF TypeInv, Handlers
    <3>2. answered' = answered \/ answered' = Append(answered, hd[s].body)
      BY <1>3 DEF Reply, Answer, AnswerFixed, Refuse
    <3>. QED
      BY <3>1, <3>2
  <2>6. SharedOK'
    BY <2>1 DEF TypeInv, SharedOK, CacheOK, shared
  <2>. QED
    BY <2>1, <2>4, <2>5, <2>6 DEF TypeInv, SharedOK
<1>4. ASSUME NEW s \in Slots, NEW u \in Urls, MayArrive, Arrive(s, u) PROVE TypeInv'
  <2>. DEFINE h == [Idle EXCEPT !.pc = "match", !.run = run, !.url = u]
  <2>1. hd' = [hd EXCEPT ![s] = h] /\ UNCHANGED <<shared, run, answered>> /\ arrived' = arrived + 1
    BY <1>4 DEF Arrive
  <2>2. hd'[s] = h
    BY <2>1 DEF TypeInv
  <2>3. u \in Targets
    BY DEF Targets
  <2>4. run \in Nat
    BY BoundsAssumption DEF TypeInv
  <2>5. h \in Handlers /\ h.pc = "match" /\ h.url = u /\ h.run = run
    BY <2>3, <2>4, IdleType DEF Handlers, Stages
  <2>. HIDE DEF h
  <2>6. StageOK(h)
    BY <2>3, <2>5 DEF StageOK, Found
  <2>7. /\ hd' \in [Slots -> Handlers]
        /\ \A t \in Slots : StageOK(hd'[t]) /\ hd'[t].run <= run'
    <3>1. hd' = [hd EXCEPT ![s] = hd'[s]] /\ run' = run
      BY <2>1, <2>2
    <3>2. hd'[s] \in Handlers /\ StageOK(hd'[s])
      BY <2>2, <2>5, <2>6
    <3>3. hd'[s].run <= run
      BY <2>2, <2>4, <2>5
    <3>. QED
      BY <3>1, <3>2, <3>3, HandlersTyped
  <2>8. arrived' \in 0..MaxRequests
    BY <1>4, <2>1, BoundsAssumption DEF MayArrive, TypeInv
  <2>9. SharedOK'
    BY <2>1 DEF TypeInv, SharedOK, CacheOK, shared
  <2>. QED
    BY <2>1, <2>7, <2>8, <2>9 DEF TypeInv, SharedOK
<1>5. ASSUME NEW ovs \in OverrideLists, MayInit, InitExecution(ovs) PROVE TypeInv'
  BY <1>5, InitVibrationKeepsTypes DEF InitExecution
<1>6. ASSUME NEW v \in Vibrations, MayInit, InitVibration(v), UNCHANGED overrides PROVE TypeInv'
  BY <1>6, InitVibrationKeepsTypes DEF TypeInv
<1>. QED
  BY <1>1, <1>2, <1>3, <1>4, <1>5, <1>6 DEF Next, Environment

LEMMA TypeInvariant == Spec => []TypeInv
<1>. QED
  BY TypeInit, TypeStep, PTL DEF Spec

(* The types of the server's state, whatever the requests, responses and    *)
(* overrides, with any overlap of handlers and with stragglers: a handler   *)
(* reaches expansion only with an address of the index or a rewritten one,  *)
(* and the cache maps a schema only to an operation that has it.            *)
THEOREM TypeCorrect == Spec => []TypeOK
<1>1. TypeInv => TypeOK
  <2>. SUFFICES ASSUME TypeInv PROVE TypeOK
    OBVIOUS
  <2>1. \A k \in DOMAIN records : DOMAIN records[k].pos = DOMAIN records[k].body
    BY DEF TypeInv, Records
  <2>2. \A k \in DOMAIN seqs : seqs[k].sel \in DOMAIN Instances[seqs[k].url]
    BY DEF TypeInv, Entries
  <2>3. \A s \in Slots : /\ hd[s].pc \in Stages
                         /\ hd[s].run \in 0..run
                         /\ hd[s].url \in Targets \cup {None}
    BY BoundsAssumption DEF TypeInv, Handlers
  <2>. QED
    BY <2>1, <2>2, <2>3 DEF TypeInv, TypeOK, CacheOK, Stages
<1>. QED
  BY <1>1, TypeInvariant, PTL

-------------------------------------------------------------------------------
(* When no handler outlives the run of the program (~Stragglers).           *)

(* What is kept, and what a handler that is about to append has read, is of *)
(* this run: InitVibration finds every handler idle.                        *)
RunInv ==
  /\ \A s \in Slots : hd[s].pc # "idle" => hd[s].run = run
  /\ \A k \in DOMAIN records : records[k].run = run
  /\ \A s \in Slots : hd[s].pc = "record" =>
       \A k \in DOMAIN hd[s].snap : hd[s].snap[k].run = run
  /\ vibrationRecord # None => vibrationRecord.run = run

(* x, a handler or a record, answers a request that the vibration matches   *)
(* with a body that carries the vibrated value.                             *)
Vibrated(x) == /\ Hits(vibration, x.url)
               /\ vibration.leaf \in DOMAIN x.body
               /\ x.body[vibration.leaf] = vibration.value

(* The second look at srv.vibration finds what the first look found.        *)
VibrationInv ==
  /\ \A s \in Slots :
       /\ hd[s].pc = "vibrate" => Hits(vibration, hd[s].url)
       /\ hd[s].vib => /\ hd[s].pc \in {"decode", "record", "mark", "answer", "refuse"}
                       /\ Vibrated(hd[s])
       /\ hd[s].pc = "mark" => hd[s].vib
  /\ vibrationRecord # None => Vibrated(vibrationRecord)

(* Up to its append to srv.seqs a handler leaves the records alone.         *)
Early(s) ==
  \/ MatchOverride(s) \/ Expand(s) \/ CacheSave(s)
  \/ SynthConst(s) \/ SynthRead(s) \/ SynthBump(s) \/ SynthGen(s)
  \/ Select(s) \/ AppendSeq(s)
EarlyStages == {"match", "expand", "save", "synth", "bump", "gen", "seq"}

LEMMA EarlySteps ==
  ASSUME TypeInv, NEW s \in Slots, Early(s)
  PROVE  /\ hd[s].pc \in EarlyStages
         /\ hd'[s].pc \in EarlyStages \cup {"fixed", "refuse", "patch"}
         /\ hd'[s].vib = hd[s].vib
         /\ UNCHANGED <<records, vibration, vibrationRecord, run, arrived, answered>>
<1>1. hd \in [Slots -> Handlers]
  BY DEF TypeInv
<1>. USE DEF shared, ghosts, At, EarlyStages
<1>2. CASE MatchOverride(s) BY <1>1, <1>2 DEF MatchOverride, Handlers
<1>3. CASE Expand(s) BY <1>1, <1>3 DEF Expand, Handlers
<1>4. CASE CacheSave(s) BY <1>1, <1>4 DEF CacheSave, Handlers
<1>5. CASE SynthConst(s) BY <1>1, <1>5 DEF SynthConst, Handlers
<1>6. CASE SynthRead(s) BY <1>1, <1>6 DEF SynthRead, Handlers
<1>7. CASE SynthBump(s) BY <1>1, <1>7 DEF SynthBump, Handlers
<1>8. CASE SynthGen(s) BY <1>1, <1>8 DEF SynthGen, Handlers
<1>9. CASE Select(s) BY <1>1, <1>9 DEF Select, Handlers
<1>10. CASE AppendSeq(s) BY <1>1, <1>10 DEF AppendSeq, Handlers
<1>. QED
  BY <1>2, <1>3, <1>4, <1>5, <1>6, <1>7, <1>8, <1>9, <1>10 DEF Early

LEMMA HandleSplit ==
  ASSUME NEW s \in Slots, Handle(s)
  PROVE  Early(s) \/ Patch(s) \/ Vibrate(s) \/ Decode(s) \/ AppendRecord(s) \/ MarkVibration(s)
BY DEF Handle, Early

(* The later steps, one record of the changes each.                         *)
LEMMA PatchStep ==
  ASSUME TypeInv, NEW s \in Slots, Patch(s)
  PROVE  /\ hd[s].pc = "patch"
         /\ UNCHANGED <<rnd, seqs, records, vibration, vibrationRecord, run, arrived, answered>>
         /\ hd'[s].vib = hd[s].vib /\ hd'[s].url = hd[s].url /\ hd'[s].built = hd[s].built
         /\ \/ hd'[s].pc = "refuse" /\ hd'[s].body = hd[s].body
            \/ /\ hd'[s].pc = IF Hits(vibration, hd[s].url) THEN "vibrate" ELSE "decode"
               /\ hd'[s].body = Over(hd[s].ov.patch, hd[s].body)
<1>1. hd \in [Slots -> Handlers]
  BY DEF TypeInv
<1>. QED
  BY <1>1 DEF Patch, Handlers, shared, ghosts, At

LEMMA VibrateStep ==
  ASSUME TypeInv, NEW s \in Slots, Vibrate(s)
  PROVE  /\ hd[s].pc = "vibrate"
         /\ UNCHANGED <<rnd, seqs, records, vibration, vibrationRecord, run, arrived, answered>>
         /\ hd'[s].url = hd[s].url /\ hd'[s].built = hd[s].built
         /\ \/ /\ hd'[s].pc \in {"refuse", "abort"} /\ hd'[s].vib = hd[s].vib
               /\ hd'[s].body = hd[s].body
            \/ /\ hd'[s].pc = "decode" /\ hd'[s].vib = TRUE
               /\ vibration # None /\ vibration.leaf \in DOMAIN hd[s].body
               /\ hd'[s].body = [hd[s].body EXCEPT ![vibration.leaf] = vibration.value]
<1>1. hd \in [Slots -> Handlers]
  BY DEF TypeInv
<1>2. /\ hd[s].pc = "vibrate"
      /\ UNCHANGED <<rnd, seqs, records, vibration, vibrationRecord, run, arrived, answered>>
  BY DEF Vibrate, shared, ghosts, At
<1>3. CASE vibration = None
  BY <1>1, <1>2, <1>3 DEF Vibrate, Handlers
<1>4. CASE vibration # None /\ vibration.leaf \notin DOMAIN hd[s].body
  BY <1>1, <1>2, <1>4 DEF Vibrate, Handlers
<1>5. CASE vibration # None /\ vibration.leaf \in DOMAIN hd[s].body
  <2>. DEFINE b == [hd[s].body EXCEPT ![vibration.leaf] = vibration.value]
  <2>1. hd' = [hd EXCEPT ![s] = [hd[s] EXCEPT !.pc = "decode", !.vib = TRUE, !.body = b]]
    <3>1. hd' = [hd EXCEPT ![s].pc = "decode", ![s].vib = TRUE,
                           ![s].body[vibration.leaf] = vibration.value]
      BY <1>5 DEF Vibrate
    <3>2. DOMAIN hd = Slots /\ {"pc", "vib", "body"} \subseteq DOMAIN hd[s]
      BY <1>1 DEF Handlers
    <3>. QED
      BY <3>1, <3>2
  <2>. HIDE DEF b
  <2>2. hd'[s] = [hd[s] EXCEPT !.pc = "decode", !.vib = TRUE, !.body = b]
    BY <1>1, <2>1
  <2>3. /\ hd'[s].pc = "decode" /\ hd'[s].vib = TRUE /\ hd'[s].body = b
        /\ hd'[s].url = hd[s].url /\ hd'[s].built = hd[s].built
    BY <1>1, <2>2 DEF Handlers
  <2>. QED
    BY <1>2, <1>5, <2>3 DEF b
<1>. QED
  BY <1>3, <1>4, <1>5

LEMMA DecodeStep ==
  ASSUME TypeInv, NEW s \in Slots, Decode(s)
  PROVE  /\ hd[s].pc = "decode"
         /\ UNCHANGED <<rnd, seqs, records, vibration, vibrationRecord, run, arrived, answered>>
         /\ hd'[s].vib = hd[s].vib /\ hd'[s].url = hd[s].url /\ hd'[s].built = hd[s].built
         /\ hd'[s].body = hd[s].body
         /\ \/ hd'[s].pc = "refuse"
            \/ hd'[s].pc = "record" /\ hd'[s].snap = records
<1>1. hd \in [Slots -> Handlers]
  BY DEF TypeInv
<1>. QED
  BY <1>1 DEF Decode, Handlers, shared, ghosts, At

LEMMA AppendRecordStep ==
  ASSUME TypeInv, NEW s \in Slots, AppendRecord(s)
  PROVE  /\ hd[s].pc = "record" /\ hd[s].snap \in Seq(Records) /\ RecordOf(hd[s]) \in Records
         /\ records' = Append(hd[s].snap, RecordOf(hd[s]))
         /\ UNCHANGED <<rnd, seqs, vibration, vibrationRecord, run, arrived, answered>>
         /\ hd'[s].vib = hd[s].vib /\ hd'[s].url = hd[s].url /\ hd'[s].built = hd[s].built
         /\ hd'[s].body = hd[s].body /\ hd'[s].run = hd[s].run /\ hd'[s].root = hd[s].root
         /\ hd'[s].pc = IF hd[s].vib THEN "mark" ELSE "answer"
<1>1. hd \in [Slots -> Handlers] /\ StageOK(hd[s]) /\ hd[s].pc = "record"
  BY DEF TypeInv, AppendRecord, At
<1>2. hd[s].snap \in Seq(Records) /\ RecordOf(hd[s]) \in Records
  BY <1>1, RecordType DEF StageOK, Found
<1>. QED
  BY <1>1, <1>2 DEF AppendRecord, Handlers, ghosts

LEMMA MarkStep ==
  ASSUME TypeInv, NEW s \in Slots, MarkVibration(s)
  PROVE  /\ hd[s].pc = "mark"
         /\ vibrationRecord' = RecordOf(hd[s])
         /\ UNCHANGED <<rnd, seqs, records, vibration, run, arrived, answered>>
         /\ hd'[s].vib = hd[s].vib /\ hd'[s].url = hd[s].url /\ hd'[s].built = hd[s].built
         /\ hd'[s].body = hd[s].body /\ hd'[s].run = hd[s].run /\ hd'[s].root = hd[s].root
         /\ hd'[s].pc = "answer"
<1>1. hd \in [Slots -> Handlers]
  BY DEF TypeInv
<1>. QED
  BY <1>1 DEF MarkVibration, Handlers, ghosts, At

LEMMA ReplyStep ==
  ASSUME TypeInv, NEW s \in Slots, Reply(s)
  PROVE  /\ hd[s].pc \in {"answer", "fixed", "refuse", "abort"}
         /\ hd'[s] = Idle
         /\ UNCHANGED <<rnd, seqs, records, vibration, vibrationRecord, run, arrived>>
         /\ answered' = IF hd[s].pc = "answer" /\ hd[s].run = run THEN Append(answered, hd[s].body)
                        ELSE answered
<1>1. hd \in [Slots -> Handlers]
  BY DEF TypeInv
<1>. QED
  BY <1>1 DEF Reply, Answer, AnswerFixed, Refuse, Release, shared, At

LEMMA ArriveStep ==
  ASSUME TypeInv, NEW s \in Slots, NEW u \in Urls, Arrive(s, u)
  PROVE  /\ hd[s].pc = "idle"
         /\ hd'[s] = [Idle EXCEPT !.pc = "match", !.run = run, !.url = u]
         /\ hd'[s].pc = "match" /\ hd'[s].run = run /\ hd'[s].vib = FALSE
         /\ hd'[s].built = Idle.built /\ hd'[s].body = Idle.body
         /\ UNCHANGED <<rnd, seqs, records, vibration, vibrationRecord, run, answered>>
<1>1. hd \in [Slots -> Handlers]
  BY DEF TypeInv
<1>. QED
  BY <1>1 DEF Arrive, Idle, shared, At

LEMMA HandleStaysBusy ==
  ASSUME TypeInv, NEW s \in Slots, Handle(s)
  PROVE  /\ hd[s].pc # "idle" /\ hd'[s].pc # "idle"
         /\ UNCHANGED <<run, arrived, answered>>
<1>1. CASE Early(s)
  BY <1>1, EarlySteps DEF EarlyStages
<1>2. CASE Patch(s)
  BY <1>2, PatchStep
<1>3. CASE Vibrate(s)
  BY <1>3, VibrateStep
<1>4. CASE Decode(s)
  BY <1>4, DecodeStep
<1>5. CASE AppendRecord(s)
  BY <1>5, AppendRecordStep
<1>6. CASE MarkVibration(s)
  BY <1>6, MarkStep
<1>. QED
  BY <1>1, <1>2, <1>3, <1>4, <1>5, <1>6, HandleSplit

LEMMA OthersStay ==
  ASSUME TypeInv, NEW s \in Slots, hd' = [hd EXCEPT ![s] = hd'[s]]
  PROVE  \A t \in Slots : t = s \/ hd'[t] = hd[t]
BY DEF TypeInv

LEMMA RunStep ==
  ASSUME ~Stragglers, TypeInv, RunInv, [Next]_vars
  PROVE  RunInv'
<1>1. CASE UNCHANGED vars
  BY <1>1 DEF RunInv, vars, shared
<1>2. ASSUME NEW s \in Slots, Handle(s) PROVE RunInv'
  <2>1. hd' = [hd EXCEPT ![s] = hd'[s]] /\ run' = run /\ hd'[s].run = hd[s].run
    BY <1>2, OneHandlerMoves, HandleKeepsTypes
  <2>2. \A t \in Slots : t = s \/ hd'[t] = hd[t]
    BY <2>1, OthersStay
  <2>3. CASE Early(s)
    BY <2>1, <2>2, <2>3, EarlySteps DEF RunInv, EarlyStages
  <2>4. CASE Patch(s)
    BY <2>1, <2>2, <2>4, PatchStep DEF RunInv
  <2>5. CASE Vibrate(s)
    <3>1. /\ hd[s].pc = "vibrate" /\ hd'[s].pc \in {"refuse", "abort", "decode"}
          /\ UNCHANGED <<records, vibrationRecord>>
      BY <2>5, VibrateStep
    <3>. QED
      BY <2>1, <2>2, <3>1 DEF RunInv
  <2>6. CASE Decode(s)
    BY <2>1, <2>2, <2>6, DecodeStep DEF RunInv
  <2>7. CASE AppendRecord(s)
    <3>1. /\ hd[s].pc = "record" /\ hd[s].snap \in Seq(Records) /\ hd[s].run = run
          /\ records' = Append(hd[s].snap, RecordOf(hd[s])) /\ RecordOf(hd[s]) \in Records
          /\ vibrationRecord' = vibrationRecord /\ hd'[s].pc \in {"mark", "answer"}
      BY <2>7, AppendRecordStep DEF RunInv
    <3>2. \A k \in DOMAIN hd[s].snap : hd[s].snap[k].run = run
      BY <3>1 DEF RunInv
    <3>3. RecordOf(hd[s]).run = run
      BY <3>1 DEF RecordOf
    <3>4. \A k \in DOMAIN records' : records'[k].run = run
      BY <3>1, <3>2, <3>3
    <3>. QED
      BY <2>1, <2>2, <3>1, <3>4 DEF RunInv
  <2>8. CASE MarkVibration(s)
    <3>1. RecordOf(hd[s]).run = hd[s].run
      BY DEF RecordOf
    <3>. QED
      BY <2>1, <2>2, <2>8, <3>1, MarkStep DEF RunInv
  <2>. QED
    BY <1>2, <2>3, <2>4, <2>5, <2>6, <2>7, <2>8, HandleSplit
<1>3. ASSUME NEW s \in Slots, Reply(s) PROVE RunInv'
  <2>1. \A t \in Slots : t = s \/ hd'[t] = hd[t]
    BY <1>3, OneHandlerMoves, OthersStay
  <2>. QED
    BY <1>3, <2>1, ReplyStep, IdleType DEF RunInv
<1>4. ASSUME NEW s \in Slots, NEW u \in Urls, Arrive(s, u) PROVE RunInv'
  <2>1. \A t \in Slots : t = s \/ hd'[t] = hd[t]
    BY <1>4, OneHandlerMoves, OthersStay
  <2>2. /\ hd'[s].pc = "match" /\ hd'[s].run = run
        /\ UNCHANGED <<records, vibrationRecord, run>>
    BY <1>4, ArriveStep
  <2>. QED
    BY <2>1, <2>2 DEF RunInv
<1>5. ASSUME NEW v, InitVibration(v), MayInit PROVE RunInv'
  <2>1. \A s \in Slots : hd[s].pc = "idle"
    BY <1>5 DEF MayInit, Busy, At
  <2>. QED
    BY <1>5, <2>1 DEF InitVibration, RunInv
<1>. QED
  BY <1>1, <1>2, <1>3, <1>4, <1>5 DEF Next, Environment, InitExecution

LEMMA VibrationStep ==
  ASSUME ~Stragglers, TypeInv, VibrationInv, [Next]_vars
  PROVE  VibrationInv'
<1>. USE DEF VibrationInv, Vibrated
<1>1. CASE UNCHANGED vars
  BY <1>1 DEF vars, shared
<1>2. ASSUME NEW s \in Slots, Handle(s) PROVE VibrationInv'
  <2>1. \A t \in Slots : t = s \/ hd'[t] = hd[t]
    BY <1>2, OneHandlerMoves, OthersStay
  <2>2. CASE Early(s)
    BY <2>1, <2>2, EarlySteps DEF EarlyStages
  <2>3. CASE Patch(s)
    BY <2>1, <2>3, PatchStep
  <2>4. CASE Vibrate(s)
    <3>1. /\ hd[s].pc = "vibrate" /\ Hits(vibration, hd[s].url)
          /\ UNCHANGED <<vibration, vibrationRecord>>
          /\ hd'[s].url = hd[s].url
      BY <2>4, VibrateStep
    <3>2. CASE hd'[s].pc \in {"refuse", "abort"} /\ hd'[s].vib = hd[s].vib
      BY <2>1, <3>1, <3>2
    <3>3. CASE /\ hd'[s].pc = "decode" /\ hd'[s].vib = TRUE
               /\ vibration # None /\ vibration.leaf \in DOMAIN hd[s].body
               /\ hd'[s].body = [hd[s].body EXCEPT ![vibration.leaf] = vibration.value]
      <4>1. vibration.leaf \in DOMAIN hd'[s].body /\ hd'[s].body[vibration.leaf] = vibration.value
        BY <3>3
      <4>. QED
        BY <2>1, <3>1, <3>3, <4>1
    <3>. QED
      BY <2>4, <3>2, <3>3, VibrateStep
  <2>5. CASE Decode(s)
    BY <2>1, <2>5, DecodeStep
  <2>6. CASE AppendRecord(s)
    BY <2>1, <2>6, AppendRecordStep
  <2>7. CASE MarkVibration(s)
    <3>1. /\ hd[s].pc = "mark" /\ vibrationRecord' = RecordOf(hd[s]) /\ vibration' = vibration
          /\ hd'[s].pc = "answer" /\ hd'[s].url = hd[s].url /\ hd'[s].body = hd[s].body
          /\ hd'[s].vib = hd[s].vib
      BY <2>7, MarkStep
    <3>2. RecordOf(hd[s]).url = hd[s].url /\ RecordOf(hd[s]).body = hd[s].body
      BY DEF RecordOf
    <3>. QED
      BY <2>1, <3>1, <3>2
  <2>. QED
    BY <1>2, <2>2, <2>3, <2>4, <2>5, <2>6, <2>7, HandleSplit
<1>3. ASSUME NEW s \in Slots, Reply(s) PROVE VibrationInv'
  <2>1. \A t \in Slots : t = s \/ hd'[t] = hd[t]
    BY <1>3, OneHandlerMoves, OthersStay
  <2>2. Idle.vib = FALSE /\ Idle.pc = "idle"
    BY DEF Idle
  <2>. QED
    BY <1>3, <2>1, <2>2, ReplyStep
<1>4. ASSUME NEW s \in Slots, NEW u \in Urls, Arrive(s, u) PROVE VibrationInv'
  <2>1. \A t \in Slots : t = s \/ hd'[t] = hd[t]
    BY <1>4, OneHandlerMoves, OthersStay
  <2>2. /\ hd'[s].pc = "match" /\ hd'[s].vib = FALSE
        /\ UNCHANGED <<vibration, vibrationRecord>>
    BY <1>4, ArriveStep
  <2>. QED
    BY <2>1, <2>2
<1>5. ASSUME NEW v, InitVibration(v), MayInit PROVE VibrationInv'
  <2>1. \A s \in Slots : hd[s].pc = "idle"
    BY <1>5 DEF MayInit, Busy, At
  <2>2. hd' = hd /\ vibrationRecord' = None
    BY <1>5 DEF InitVibration
  <2>. QED
    BY <2>1, <2>2
<1>. QED
  BY <1>1, <1>2, <1>3, <1>4, <1>5 DEF Next, Environment, InitExecution

LEMMA RunInit == Init => RunInv /\ VibrationInv
<1>1. Idle.pc = "idle" /\ Idle.vib = FALSE
  BY DEF Idle
<1>. QED
  BY <1>1 DEF Init, RunInv, VibrationInv

LEMMA RunInvariant == ASSUME ~Stragglers PROVE Spec => [](RunInv /\ VibrationInv)
<1>1. TypeInv /\ RunInv /\ VibrationInv /\ [Next]_vars => (RunInv /\ VibrationInv)'
  BY RunStep, VibrationStep
<1>. QED
  BY <1>1, RunInit, TypeInvariant, PTL DEF Spec

(* server.go:34-44: the records and the vibration record hold nothing that  *)
(* a request of an earlier (sub-)execution left, although handlers read     *)
(* srv.records and append to what they read in two steps, and overlap.      *)
(* Stragglers are excluded: with them it is false (run ServerLeftover      *)
(* shows what becomes of it).                                               *)
THEOREM RecordsAreOfThisRun == ASSUME ~Stragglers PROVE Spec => []RecordsOfThisRun
<1>1. RunInv => RecordsOfThisRun
  BY DEF RunInv, RecordsOfThisRun
<1>. QED
  BY <1>1, RunInvariant, PTL

(* The record that JSONValueValueMap is given for a vibration carries the   *)
(* vibrated value, on a path that the vibration of this run matches,        *)
(* although the two looks at srv.vibration are steps apart.                 *)
THEOREM VibrationRecordCarries == ASSUME ~Stragglers PROVE Spec => []VibrationRecordIsVibrated
<1>1. RunInv /\ VibrationInv => VibrationRecordIsVibrated
  BY DEF RunInv, VibrationInv, Vibrated, Hits, VibrationRecordIsVibrated
<1>. QED
  BY <1>1, RunInvariant, PTL

(* What a handler answers is decided once it has matched an override.       *)
LEMMA KeepsRequest ==
  ASSUME TypeInv, NEW s \in Slots, Handle(s), hd[s].pc # "match"
  PROVE  /\ hd'[s].url = hd[s].url /\ hd'[s].ov = hd[s].ov
         /\ hd[s].pc # "expand" => hd'[s].root = hd[s].root
<1>1. hd \in [Slots -> Handlers]
  BY DEF TypeInv
<1>. USE DEF At
<1>2. CASE Expand(s) BY <1>1, <1>2 DEF Expand, Handlers
<1>3. CASE CacheSave(s) BY <1>1, <1>3 DEF CacheSave, Handlers
<1>4. CASE SynthConst(s) BY <1>1, <1>4 DEF SynthConst, Handlers
<1>5. CASE SynthRead(s) BY <1>1, <1>5 DEF SynthRead, Handlers
<1>6. CASE SynthBump(s) BY <1>1, <1>6 DEF SynthBump, Handlers
<1>7. CASE SynthGen(s) BY <1>1, <1>7 DEF SynthGen, Handlers
<1>8. CASE Select(s) BY <1>1, <1>8 DEF Select, Handlers
<1>9. CASE AppendSeq(s) BY <1>1, <1>9 DEF AppendSeq, Handlers
<1>10. CASE Patch(s) BY <1>1, <1>10 DEF Patch, Handlers
<1>11. CASE Vibrate(s) BY <1>1, <1>11 DEF Vibrate, Handlers
<1>12. CASE Decode(s) BY <1>1, <1>12 DEF Decode, Handlers
<1>13. CASE AppendRecord(s) BY <1>1, <1>13 DEF AppendRecord, Handlers
<1>14. CASE MarkVibration(s) BY <1>1, <1>14 DEF MarkVibration, Handlers
<1>. QED
  BY <1>2, <1>3, <1>4, <1>5, <1>6, <1>7, <1>8, <1>9, <1>10, <1>11, <1>12, <1>13, <1>14
     DEF Handle, MatchOverride


-------------------------------------------------------------------------------
(* When no two responses have their schema in common.                       *)
OwnSchemas == \A u, w \in DOMAIN Instances : Schema[u] = Schema[w] => u = w

(* The positions of a record are under the root model of its own request.   *)
OwnPositions(r) == \A l \in DOMAIN r.pos : r.pos[l] = Position(r.url, l)
RootInv ==
  /\ \A s \in Slots : hd[s].pc \in Found => hd[s].root = hd[s].url
  /\ \A k \in DOMAIN records : OwnPositions(records[k])
  /\ \A s \in Slots : hd[s].pc = "record" =>
       \A k \in DOMAIN hd[s].snap : OwnPositions(hd[s].snap[k])
  /\ vibrationRecord # None => OwnPositions(vibrationRecord)

LEMMA OwnRecord ==
  ASSUME NEW h, h.root = h.url PROVE OwnPositions(RecordOf(h))
BY DEF OwnPositions, RecordOf

LEMMA RootStep == ASSUME OwnSchemas, TypeInv, RootInv, [Next]_vars PROVE RootInv'
<1>1. CASE UNCHANGED vars
  BY <1>1 DEF RootInv, vars, shared
<1>2. ASSUME NEW s \in Slots, Handle(s) PROVE RootInv'
  <2>1. \A t \in Slots : t = s \/ hd'[t] = hd[t]
    BY <1>2, OneHandlerMoves, OthersStay
  <2>2. hd'[s].pc \in Found => hd'[s].root = hd'[s].url
    <3>1. hd \in [Slots -> Handlers] /\ StageOK(hd[s]) /\ CacheOK
      BY DEF TypeInv
    <3>2. CASE hd[s].pc \notin {"match", "expand"}
      <4>1. hd'[s].url = hd[s].url /\ hd'[s].root = hd[s].root
        BY <1>2, <3>2, KeepsRequest
      <4>2. hd[s].pc \in Found \/ hd'[s].pc \notin Found
        BY <1>2, <3>2, HandleSplit, EarlySteps, PatchStep, VibrateStep, DecodeStep,
           AppendRecordStep, MarkStep DEF EarlyStages, Found
      <4>. QED
        BY <4>1, <4>2 DEF RootInv
    <3>3. CASE MatchOverride(s)
      BY <3>1, <3>3 DEF MatchOverride, Handlers, Found
    <3>4. CASE Expand(s)
      <4>. DEFINE r == cache[Schema[hd[s].url]]
      <4>1. CacheHit(hd[s]) /\ hd[s].url \in DOMAIN Instances => r = hd[s].url
        BY <3>1 DEF CacheHit, CacheOK, OwnSchemas
      <4>. QED
        BY <3>1, <3>4, <4>1 DEF Expand, Handlers, Found
    <3>5. hd[s].pc = "match" => MatchOverride(s)
      BY <1>2 DEF Handle, Expand, CacheSave, SynthConst, SynthRead, SynthBump, SynthGen,
                  Select, AppendSeq, Patch, Vibrate, Decode, AppendRecord, MarkVibration, At
    <3>6. hd[s].pc = "expand" => Expand(s)
      BY <1>2 DEF Handle, MatchOverride, CacheSave, SynthConst, SynthRead, SynthBump, SynthGen,
                  Select, AppendSeq, Patch, Vibrate, Decode, AppendRecord, MarkVibration, At
    <3>. QED
      BY <3>2, <3>3, <3>4, <3>5, <3>6
  <2>3. CASE Early(s)
    <3>1. hd'[s].pc # "record" /\ UNCHANGED <<records, vibrationRecord>>
      BY <2>3, EarlySteps DEF EarlyStages
    <3>. QED
      BY <2>1, <2>2, <3>1 DEF RootInv
  <2>4. CASE Patch(s) \/ Vibrate(s)
    <3>1. hd'[s].pc # "record" /\ UNCHANGED <<records, vibrationRecord>>
      BY <2>4, PatchStep, VibrateStep
    <3>. QED
      BY <2>1, <2>2, <3>1 DEF RootInv
  <2>5. CASE Decode(s)
    <3>1. /\ UNCHANGED <<records, vibrationRecord>>
          /\ hd'[s].pc = "record" => hd'[s].snap = records
      BY <2>5, DecodeStep
    <3>. QED
      BY <2>1, <2>2, <3>1 DEF RootInv
  <2>6. CASE AppendRecord(s)
    <3>1. /\ hd[s].pc = "record" /\ hd[s].snap \in Seq(Records) /\ RecordOf(hd[s]) \in Records
          /\ records' = Append(hd[s].snap, RecordOf(hd[s]))
          /\ vibrationRecord' = vibrationRecord /\ hd'[s].pc # "record"
      BY <2>6, AppendRecordStep
    <3>2. OwnPositions(RecordOf(hd[s]))
      BY <3>1, OwnRecord DEF RootInv, Found
    <3>3. \A k \in DOMAIN hd[s].snap : OwnPositions(hd[s].snap[k])
      BY <3>1 DEF RootInv
    <3>4. \A k \in DOMAIN records' : OwnPositions(records'[k])
      BY <3>1, <3>2, <3>3
    <3>. QED
      BY <2>1, <2>2, <3>1, <3>4 DEF RootInv
  <2>7. CASE MarkVibration(s)
    <3>1. /\ hd[s].pc = "mark" /\ records' = records /\ vibrationRecord' = RecordOf(hd[s])
          /\ hd'[s].pc = "answer"
      BY <2>7, MarkStep
    <3>2. OwnPositions(RecordOf(hd[s]))
      BY <3>1, OwnRecord DEF RootInv, Found
    <3>. QED
      BY <2>1, <2>2, <3>1, <3>2 DEF RootInv
  <2>. QED
    BY <1>2, <2>3, <2>4, <2>5, <2>6, <2>7, HandleSplit
<1>3. ASSUME NEW s \in Slots, Reply(s) PROVE RootInv'
  <2>1. \A t \in Slots : t = s \/ hd'[t] = hd[t]
    BY <1>3, OneHandlerMoves, OthersStay
  <2>2. hd'[s].pc = "idle" /\ UNCHANGED <<records, vibrationRecord>>
    BY <1>3, ReplyStep, IdleType
  <2>. QED
    BY <2>1, <2>2 DEF RootInv, Found
<1>4. ASSUME NEW s \in Slots, NEW u \in Urls, Arrive(s, u) PROVE RootInv'
  <2>1. \A t \in Slots : t = s \/ hd'[t] = hd[t]
    BY <1>4, OneHandlerMoves, OthersStay
  <2>2. hd'[s].pc = "match" /\ UNCHANGED <<records, vibrationRecord>>
    BY <1>4, ArriveStep
  <2>. QED
    BY <2>1, <2>2 DEF RootInv, Found
<1>5. ASSUME NEW v, InitVibration(v) PROVE RootInv'
  BY <1>5 DEF InitVibration, RootInv
<1>. QED
  BY <1>1, <1>2, <1>3, <1>4, <1>5 DEF Next, Environment, InitExecution

LEMMA RootInit == Init => RootInv
<1>1. Idle.pc = "idle"
  BY DEF Idle
<1>. QED
  BY <1>1 DEF Init, RootInv, Found

(* property.go:54 holds when no two operations answer with one schema: it   *)
(* is the key of the cache that mixes them up, whatever overlaps and        *)
(* whichever handlers are late.                                             *)
THEOREM RootModelIsOwnUnlessShared == ASSUME OwnSchemas PROVE Spec => []RootModelIsOwn
<1>1. TypeInv /\ RootInv => RootModelIsOwn
  <2>. SUFFICES ASSUME TypeInv, RootInv, NEW k \in DOMAIN records, NEW l \in DOMAIN records[k].pos,
                       records[k].pos[l] # Undefined
                PROVE  records[k].pos[l].root = records[k].url
    BY DEF RootModelIsOwn
  <2>1. records[k].pos[l] = Position(records[k].url, l)
    BY DEF RootInv, OwnPositions
  <2>. QED
    BY <2>1 DEF Position
<1>2. TypeInv /\ RootInv /\ [Next]_vars => RootInv'
  BY RootStep
<1>. QED
  BY <1>1, <1>2, RootInit, TypeInvariant, PTL DEF Spec

-------------------------------------------------------------------------------
(* When the program waits for each answer as well (~Overlap).               *)

SerialInv ==
  /\ \A s \in Slots : hd[s].pc = "idle" => hd[s] = Idle
  /\ \A s, t \in Slots : hd[s].pc # "idle" /\ hd[t].pc # "idle" => s = t

(* Every record but the one of the handler that is about to answer has been *)
(* answered, and what a handler has read to append to is not stale.         *)
Recorded == {s \in Slots : hd[s].pc \in {"mark", "answer"}}
AnswerInv ==
  /\ \A s \in Slots : hd[s].pc = "record" => hd[s].snap = records
  /\ \A s \in Recorded : /\ Len(records) = Len(answered) + 1
                         /\ records[Len(records)] = RecordOf(hd[s])
  /\ Recorded = {} => Len(records) = Len(answered)
  /\ \A k \in DOMAIN answered : records[k].body = answered[k]

(* The vibration record is the last of the first n records that match.      *)
MatchedOf(n) == {k \in 1..n : Hits(vibration, records[k].url)}
MarkedUpTo(n) ==
  \/ MatchedOf(n) = {} /\ vibrationRecord = None
  \/ \E k \in MatchedOf(n) : /\ \A j \in MatchedOf(n) : j <= k
                             /\ vibrationRecord = records[k]
Marking == {s \in Slots : hd[s].pc = "mark"}
LastInv ==
  /\ \A s \in Slots :
       hd[s].pc \in {"decode", "record"} => (hd[s].vib <=> Hits(vibration, hd[s].url))
  /\ MarkedUpTo(IF Marking = {} THEN Len(records) ELSE Len(records) - 1)

(* Generated values are numbered by the generator r: those handed out so    *)
(* far are not above it, and between a bump and its value they are below.   *)
NotAbove(b, r) == \A x \in DOMAIN b : Generated(b[x]) => b[x].n <= r[b[x].kind]
Below(b, kind, r) == \A x \in DOMAIN b : b[x].kind = kind => b[x].n < r[kind]
Distinct(b) == \A x, y \in DOMAIN b : Generated(b[x]) /\ b[x] = b[y] => x = y
Apart(b, c) == \A x \in DOMAIN b, y \in DOMAIN c : Generated(b[x]) => b[x] # c[y]

(* What a handler has made and not recorded: nobody else has its values.    *)
Own(b, r, recs) == /\ Distinct(b) /\ NotAbove(b, r)
                   /\ \A k \in DOMAIN recs : Apart(b, recs[k].body)
Free(kind, b, r, recs) == /\ Below(b, kind, r)
                          /\ \A k \in DOMAIN recs : Below(recs[k].body, kind, r)

FreshOK(h, r, recs) ==
  /\ Own(h.built, r, recs)
  /\ h.pc \in {"seq", "patch", "vibrate", "decode", "record"} => DOMAIN h.built = {}
  /\ h.pc \notin {"mark", "answer"} => Own(h.body, r, recs)
  /\ h.pc = "bump" => h.tmp = r[Kind[Leaf(h)]]
  /\ h.pc = "gen" => Free(Kind[Leaf(h)], h.built, r, recs)

FreshInv ==
  /\ FreshValuesUnique
  /\ \A k \in DOMAIN records : NotAbove(records[k].body, rnd)
  /\ \A s \in Slots : FreshOK(hd[s], rnd, records)

(* Whoever moves, the other slots are idle and stay so.                     *)
LEMMA MovesAlone ==
  ASSUME ~Overlap, TypeInv, RunInv, SerialInv, NEW s \in Slots,
         \/ Handle(s) \/ Reply(s)
         \/ MayArrive /\ \E u \in Urls : Arrive(s, u)
  PROVE  \A t \in Slots : t = s \/ (hd[t] = Idle /\ hd'[t] = Idle)
<1>1. \A t \in Slots : t = s \/ hd'[t] = hd[t]
  BY OneHandlerMoves, OthersStay
<1>2. \A t \in Slots : t = s \/ hd[t].pc = "idle"
  <2>1. CASE Handle(s) \/ Reply(s)
    <3>1. hd[s].pc # "idle"
      <4>1. CASE Handle(s)
        BY <4>1, HandleSplit, EarlySteps, PatchStep, VibrateStep, DecodeStep,
           AppendRecordStep, MarkStep DEF EarlyStages
      <4>2. CASE Reply(s)
        BY <4>2, ReplyStep
      <4>. QED
        BY <2>1, <4>1, <4>2
    <3>. QED
      BY <3>1 DEF SerialInv
  <2>2. CASE MayArrive /\ \E u \in Urls : Arrive(s, u)
    <3>1. \A t \in Busy : hd[t].run # run
      BY <2>2 DEF MayArrive
    <3>2. \A t \in Slots : hd[t].pc = "idle"
      BY <3>1 DEF RunInv, Busy, At
    <3>. QED
      BY <3>2
  <2>. QED
    BY <2>1, <2>2
<1>. QED
  BY <1>1, <1>2 DEF SerialInv

LEMMA SerialStep ==
  ASSUME ~Overlap, ~Stragglers, TypeInv, RunInv, SerialInv, [Next]_vars
  PROVE  SerialInv'
<1>0. Idle.pc = "idle"
  BY DEF Idle
<1>1. CASE UNCHANGED vars
  BY <1>1 DEF SerialInv, vars
<1>2. ASSUME NEW s \in Slots, Handle(s) PROVE SerialInv'
  <2>1. hd'[s].pc # "idle"
    BY <1>2, HandleSplit, EarlySteps, PatchStep, VibrateStep, DecodeStep,
       AppendRecordStep, MarkStep DEF EarlyStages
  <2>2. \A t \in Slots : t = s \/ hd'[t] = Idle
    BY <1>2, MovesAlone
  <2>. QED
    BY <1>0, <2>1, <2>2 DEF SerialInv
<1>3. ASSUME NEW s \in Slots, Reply(s) PROVE SerialInv'
  <2>1. hd'[s] = Idle /\ \A t \in Slots : t = s \/ hd'[t] = Idle
    BY <1>3, MovesAlone, ReplyStep
  <2>. QED
    BY <1>0, <2>1 DEF SerialInv
<1>4. ASSUME NEW s \in Slots, NEW u \in Urls, MayArrive, Arrive(s, u) PROVE SerialInv'
  <2>1. hd'[s].pc = "match"
    BY <1>4, ArriveStep
  <2>2. \A t \in Slots : t = s \/ hd'[t] = Idle
    BY <1>4, MovesAlone
  <2>. QED
    BY <1>0, <2>1, <2>2 DEF SerialInv
<1>5. ASSUME NEW v, InitVibration(v) PROVE SerialInv'
  BY <1>5 DEF InitVibration, SerialInv
<1>. QED
  BY <1>1, <1>2, <1>3, <1>4, <1>5 DEF Next, Environment, InitExecution

LEMMA AnswerStep ==
  ASSUME ~Overlap, ~Stragglers, TypeInv, RunInv, SerialInv, AnswerInv, [Next]_vars
  PROVE  AnswerInv'
<1>0. /\ Idle.pc = "idle"
      /\ records \in Seq(Records) /\ answered \in Seq(Bodies) /\ hd \in [Slots -> Handlers]
  BY DEF Idle, TypeInv
<1>1. CASE UNCHANGED vars
  BY <1>1 DEF AnswerInv, Recorded, RecordOf, vars, shared
<1>2. ASSUME NEW s \in Slots, Handle(s) PROVE AnswerInv'
  <2>1. \A t \in Slots : t = s \/ (hd[t] = Idle /\ hd'[t] = Idle)
    BY <1>2, MovesAlone
  <2>2. CASE Early(s) \/ Patch(s) \/ Vibrate(s) \/ Decode(s)
    <3>1. /\ hd[s].pc \notin {"mark", "answer"} /\ hd'[s].pc \notin {"mark", "answer"}
          /\ hd'[s].pc = "record" => hd'[s].snap = records
          /\ UNCHANGED <<records, answered>>
      BY <2>2, EarlySteps, PatchStep, VibrateStep, DecodeStep DEF EarlyStages
    <3>2. Recorded = {} /\ Recorded' = {}
      BY <1>0, <2>1, <3>1 DEF Recorded
    <3>. QED
      BY <1>0, <2>1, <3>1, <3>2 DEF AnswerInv
  <2>3. CASE AppendRecord(s)
    <3>1. /\ hd[s].pc = "record" /\ hd'[s].pc \in {"mark", "answer"} /\ answered' = answered
          /\ records' = Append(hd[s].snap, RecordOf(hd[s])) /\ RecordOf(hd[s]) \in Records
          /\ RecordOf(hd'[s]) = RecordOf(hd[s])
      BY <2>3, AppendRecordStep DEF RecordOf
    <3>2. Recorded = {} /\ Recorded' = {s}
      BY <1>0, <2>1, <3>1 DEF Recorded
    <3>3. records' = Append(records, RecordOf(hd[s])) /\ Len(records) = Len(answered)
      BY <3>1, <3>2 DEF AnswerInv
    <3>4. /\ Len(records') = Len(answered') + 1
          /\ records'[Len(records')] = RecordOf(hd'[s])
          /\ \A k \in DOMAIN answered' : records'[k].body = answered'[k]
      BY <1>0, <3>1, <3>3 DEF AnswerInv
    <3>. QED
      BY <1>0, <2>1, <3>1, <3>2, <3>4 DEF AnswerInv
  <2>4. CASE MarkVibration(s)
    <3>1. /\ hd[s].pc = "mark" /\ hd'[s].pc = "answer" /\ UNCHANGED <<records, answered>>
          /\ RecordOf(hd'[s]) = RecordOf(hd[s])
      BY <2>4, MarkStep DEF RecordOf
    <3>2. Recorded = {s} /\ Recorded' = {s}
      BY <1>0, <2>1, <3>1 DEF Recorded
    <3>. QED
      BY <1>0, <2>1, <3>1, <3>2 DEF AnswerInv
  <2>. QED
    BY <1>2, <2>2, <2>3, <2>4, HandleSplit
<1>3. ASSUME NEW s \in Slots, Reply(s) PROVE AnswerInv'
  <2>1. hd'[s] = Idle /\ \A t \in Slots : t = s \/ (hd[t] = Idle /\ hd'[t] = Idle)
    BY <1>3, MovesAlone, ReplyStep
  <2>2. Recorded' = {}
    BY <1>0, <2>1 DEF Recorded
  <2>3. /\ records' = records /\ hd[s].pc \in {"answer", "fixed", "refuse", "abort"}
        /\ answered' = IF hd[s].pc = "answer" /\ hd[s].run = run THEN Append(answered, hd[s].body)
                       ELSE answered
        /\ hd[s].run = run
    BY <1>3, ReplyStep DEF RunInv
  <2>4. CASE hd[s].pc = "answer"
    <3>1. s \in Recorded
      BY <2>4 DEF Recorded
    <3>2. Len(records) = Len(answered) + 1 /\ records[Len(records)] = RecordOf(hd[s])
      BY <3>1 DEF AnswerInv
    <3>3. records[Len(records)].body = hd[s].body /\ hd[s].body \in Bodies
      BY <1>0, <3>2 DEF RecordOf, Handlers
    <3>4. answered' = Append(answered, hd[s].body)
      BY <2>3, <2>4
    <3>5. Len(answered') = Len(records) /\ \A k \in DOMAIN answered' : records[k].body = answered'[k]
      BY <1>0, <3>2, <3>3, <3>4 DEF AnswerInv
    <3>. QED
      BY <1>0, <2>1, <2>2, <2>3, <3>5 DEF AnswerInv
  <2>5. CASE hd[s].pc # "answer"
    <3>1. Recorded = {}
      BY <1>0, <2>1, <2>3, <2>5 DEF Recorded
    <3>. QED
      BY <1>0, <2>1, <2>2, <2>3, <2>5, <3>1 DEF AnswerInv
  <2>. QED
    BY <2>4, <2>5
<1>4. ASSUME NEW s \in Slots, NEW u \in Urls, MayArrive, Arrive(s, u) PROVE AnswerInv'
  <2>1. \A t \in Slots : t = s \/ (hd[t] = Idle /\ hd'[t] = Idle)
    BY <1>4, MovesAlone
  <2>2. hd[s].pc = "idle" /\ hd'[s].pc = "match" /\ UNCHANGED <<records, answered>>
    BY <1>4, ArriveStep
  <2>3. Recorded = {} /\ Recorded' = {}
    BY <1>0, <2>1, <2>2 DEF Recorded
  <2>. QED
    BY <1>0, <2>1, <2>2, <2>3 DEF AnswerInv
<1>5. ASSUME NEW v, InitVibration(v), MayInit PROVE AnswerInv'
  <2>1. \A s \in Slots : hd[s].pc = "idle"
    BY <1>5 DEF MayInit, Busy, At
  <2>2. hd' = hd /\ records' = <<>> /\ answered' = <<>>
    BY <1>5 DEF InitVibration
  <2>. QED
    BY <2>1, <2>2 DEF AnswerInv, Recorded
<1>. QED
  BY <1>1, <1>2, <1>3, <1>4, <1>5 DEF Next, Environment, InitExecution

(* A handler that does not mark leaves the vibration record where it is.    *)
LEMMA MarkedStays ==
  ASSUME TypeInv, UNCHANGED <<records, vibration, vibrationRecord>>, LastInv,
         Marking = {}, Marking' = {}
  PROVE  MarkedUpTo(Len(records))'
BY DEF LastInv, MarkedUpTo, MatchedOf

LEMMA LastStep ==
  ASSUME ~Overlap, ~Stragglers, TypeInv, RunInv, VibrationInv, SerialInv, AnswerInv, LastInv,
         [Next]_vars
  PROVE  LastInv'
<1>0. /\ Idle.pc = "idle"
      /\ records \in Seq(Records) /\ hd \in [Slots -> Handlers]
  BY DEF Idle, TypeInv
<1>1. CASE UNCHANGED vars
  BY <1>1 DEF LastInv, Marking, MarkedUpTo, MatchedOf, vars, shared
<1>2. ASSUME NEW s \in Slots, Handle(s) PROVE LastInv'
  <2>1. \A t \in Slots : t = s \/ (hd[t] = Idle /\ hd'[t] = Idle)
    BY <1>2, MovesAlone
  <2>2. CASE Early(s) \/ Patch(s) \/ Vibrate(s) \/ Decode(s)
    <3>1. /\ hd[s].pc # "mark" /\ hd'[s].pc # "mark"
          /\ UNCHANGED <<records, vibration, vibrationRecord>>
      BY <2>2, EarlySteps, PatchStep, VibrateStep, DecodeStep DEF EarlyStages
    <3>2. Marking = {} /\ Marking' = {}
      BY <1>0, <2>1, <3>1 DEF Marking
    <3>3. MarkedUpTo(Len(records))'
      BY <3>1, <3>2, MarkedStays
    <3>4. hd'[s].pc \in {"decode", "record"} => (hd'[s].vib <=> Hits(vibration', hd'[s].url))
      <4>1. CASE Early(s)
        BY <4>1, EarlySteps DEF EarlyStages
      <4>2. CASE Patch(s)
        <5>1. /\ hd'[s].vib = hd[s].vib /\ hd'[s].url = hd[s].url
              /\ hd'[s].pc = "decode" => ~Hits(vibration, hd[s].url)
              /\ hd[s].pc = "patch" /\ hd'[s].pc # "record"
          BY <4>2, PatchStep
        <5>2. ~hd[s].vib
          BY <5>1 DEF VibrationInv
        <5>. QED
          BY <3>1, <5>1, <5>2
      <4>3. CASE Vibrate(s)
        <5>1. /\ hd[s].pc = "vibrate" /\ hd'[s].url = hd[s].url /\ hd'[s].pc # "record"
              /\ hd'[s].pc = "decode" => hd'[s].vib
          BY <4>3, VibrateStep
        <5>2. Hits(vibration, hd[s].url)
          BY <5>1 DEF VibrationInv
        <5>. QED
          BY <3>1, <5>1, <5>2
      <4>4. CASE Decode(s)
        <5>1. /\ hd[s].pc = "decode" /\ hd'[s].vib = hd[s].vib /\ hd'[s].url = hd[s].url
          BY <4>4, DecodeStep
        <5>. QED
          BY <3>1, <5>1 DEF LastInv
      <4>. QED
        BY <2>2, <4>1, <4>2, <4>3, <4>4
    <3>. QED
      BY <1>0, <2>1, <3>2, <3>3, <3>4 DEF LastInv
  <2>3. CASE AppendRecord(s)
    <3>1. /\ hd[s].pc = "record"
          /\ records' = Append(hd[s].snap, RecordOf(hd[s])) /\ RecordOf(hd[s]) \in Records
          /\ UNCHANGED <<vibration, vibrationRecord>>
          /\ hd'[s].pc = IF hd[s].vib THEN "mark" ELSE "answer"
      BY <2>3, AppendRecordStep
    <3>2. records' = Append(records, RecordOf(hd[s])) /\ (hd[s].vib <=> Hits(vibration, hd[s].url))
      BY <3>1 DEF AnswerInv, LastInv
    <3>. PICK n \in Nat : n = Len(records)
      BY <1>0
    <3>3. /\ Len(records') = n + 1
          /\ \A k \in 1..n : records'[k] = records[k]
          /\ records'[n + 1].url = hd[s].url
      <4>1. RecordOf(hd[s]).url = hd[s].url
        BY DEF RecordOf
      <4>2. Len(records') = n + 1 /\ records'[n + 1] = RecordOf(hd[s])
        BY <1>0, <3>1, <3>2
      <4>3. \A k \in 1..n : records'[k] = records[k]
        BY <1>0, <3>1, <3>2
      <4>. QED
        BY <4>1, <4>2, <4>3
    <3>4. Marking = {}
      BY <1>0, <2>1, <3>1 DEF Marking
    <3>5. MarkedUpTo(n)
      BY <3>4 DEF LastInv
    <3>6. (MatchedOf(n))' = MatchedOf(n)
      BY <3>1, <3>3 DEF MatchedOf
    <3>7. CASE hd[s].vib
      <4>1. Marking' = {s}
        BY <1>0, <2>1, <3>1, <3>7 DEF Marking
      <4>2. MarkedUpTo(n)'
        BY <3>1, <3>3, <3>5, <3>6 DEF MarkedUpTo, MatchedOf
      <4>3. n = Len(records') - 1
        BY <3>3
      <4>4. hd'[s].pc = "mark"
        BY <3>1, <3>7
      <4>5. MarkedUpTo(Len(records) - 1)'
        BY <4>2, <4>3
      <4>. QED
        BY <1>0, <2>1, <4>1, <4>4, <4>5 DEF LastInv
    <3>8. CASE ~hd[s].vib
      <4>1. Marking' = {} /\ hd'[s].pc = "answer"
        BY <1>0, <2>1, <3>1, <3>8 DEF Marking
      <4>2. ~Hits(vibration', records'[n + 1].url)
        BY <3>1, <3>2, <3>3, <3>8
      <4>3. (MatchedOf(Len(records)))' = MatchedOf(n)
        BY <3>3, <3>6, <4>2 DEF MatchedOf
      <4>4. \A k \in MatchedOf(n) : records'[k] = records[k]
        BY <3>3 DEF MatchedOf
      <4>5. MarkedUpTo(Len(records))'
        BY <3>1, <3>5, <4>3, <4>4 DEF MarkedUpTo
      <4>. QED
        BY <1>0, <2>1, <4>1, <4>5 DEF LastInv
    <3>. QED
      BY <3>7, <3>8
  <2>4. CASE MarkVibration(s)
    <3>1. /\ hd[s].pc = "mark" /\ hd'[s].pc = "answer" /\ UNCHANGED <<records, vibration>>
          /\ vibrationRecord' = RecordOf(hd[s])
      BY <2>4, MarkStep
    <3>2. Marking' = {}
      BY <1>0, <2>1, <3>1 DEF Marking
    <3>3. s \in Recorded /\ Hits(vibration, hd[s].url)
      BY <3>1 DEF Recorded, VibrationInv, Vibrated
    <3>. DEFINE n == Len(records)
    <3>4. answered \in Seq(Bodies)
      BY DEF TypeInv
    <3>5. records[n] = RecordOf(hd[s]) /\ n = Len(answered) + 1
      BY <3>3 DEF AnswerInv
    <3>6. n \in 1..n /\ records[n].url = hd[s].url
      BY <3>4, <3>5 DEF RecordOf
    <3>7. n \in MatchedOf(n) /\ \A j \in MatchedOf(n) : j <= n
      BY <3>3, <3>6 DEF MatchedOf
    <3>8. MarkedUpTo(Len(records))'
      BY <3>1, <3>5, <3>7 DEF MarkedUpTo, MatchedOf
    <3>. QED
      BY <1>0, <2>1, <3>1, <3>2, <3>8 DEF LastInv
  <2>. QED
    BY <1>2, <2>2, <2>3, <2>4, HandleSplit
<1>3. ASSUME NEW s \in Slots,
             \A t \in Slots : t = s \/ (hd[t] = Idle /\ hd'[t] = Idle),
             hd[s].pc # "mark", hd'[s].pc \in {"idle", "match"},
             UNCHANGED <<records, vibration, vibrationRecord>>
      PROVE  LastInv'
  <2>1. Marking = {} /\ Marking' = {}
    BY <1>0, <1>3 DEF Marking
  <2>2. MarkedUpTo(Len(records))'
    BY <1>3, <2>1, MarkedStays
  <2>. QED
    BY <1>0, <1>3, <2>1, <2>2 DEF LastInv
<1>4. ASSUME NEW v, InitVibration(v), MayInit PROVE LastInv'
  <2>1. \A s \in Slots : hd[s].pc = "idle"
    BY <1>4 DEF MayInit, Busy, At
  <2>2. hd' = hd /\ records' = <<>> /\ vibrationRecord' = None
    BY <1>4 DEF InitVibration
  <2>3. Marking' = {}
    BY <2>1, <2>2 DEF Marking
  <2>4. MarkedUpTo(Len(records))'
    BY <2>2 DEF MarkedUpTo, MatchedOf
  <2>. QED
    BY <2>1, <2>2, <2>3, <2>4 DEF LastInv
<1>5. ASSUME NEW s \in Slots, NEW u \in Urls, MayArrive, Arrive(s, u) PROVE LastInv'
  <2>1. \A t \in Slots : t = s \/ (hd[t] = Idle /\ hd'[t] = Idle)
    BY <1>5, MovesAlone
  <2>2. /\ hd[s].pc # "mark" /\ hd'[s].pc \in {"idle", "match"}
        /\ UNCHANGED <<records, vibration, vibrationRecord>>
    BY <1>5, ArriveStep
  <2>. QED
    BY <1>3, <2>1, <2>2
<1>6. ASSUME NEW s \in Slots, Reply(s) PROVE LastInv'
  <2>1. \A t \in Slots : t = s \/ (hd[t] = Idle /\ hd'[t] = Idle)
    BY <1>6, MovesAlone
  <2>2. /\ hd[s].pc # "mark" /\ hd'[s].pc \in {"idle", "match"}
        /\ UNCHANGED <<records, vibration, vibrationRecord>>
    BY <1>0, <1>6, ReplyStep
  <2>. QED
    BY <1>3, <2>1, <2>2
<1>. QED
  BY <1>1, <1>2, <1>4, <1>5, <1>6 DEF Next, Environment, InitExecution

-------------------------------------------------------------------------------
(* Generated values are told apart by their numbers.                        *)

LEMMA GeneratedIsNumbered ==
  ASSUME NEW v \in Values, Generated(v)
  PROVE  v \in [kind : {"fresh", "time"}, n : Nat]
<1>1. ASSUME v \in UserValues PROVE FALSE
  <2>1. CASE \E w \in Vibrations : v = w.value
    BY <2>1, UserValuesAssumption DEF Generated
  <2>2. ASSUME NEW ov \in Ovs, v \in Range(ov.patch) PROVE FALSE
    <3>1. PICK l \in DOMAIN ov.patch : v = ov.patch[l]
      BY <2>2 DEF Range
    <3>2. CASE ov = NoOverride
      BY <3>1, <3>2 DEF NoOverride
    <3>3. ASSUME NEW ovs \in OverrideLists, ov \in Range(ovs) PROVE FALSE
      <4>1. PICK k \in DOMAIN ovs : ov = ovs[k]
        BY <3>3 DEF Range
      <4>. QED
        BY <3>1, <4>1, UserValuesAssumption DEF Generated
    <3>. QED
      BY <3>2, <3>3 DEF Ovs
  <2>. QED
    BY <1>1, <2>1, <2>2 DEF UserValues
<1>2. v \in [kind : {"fresh", "time", "const"}, n : Nat]
  BY <1>1 DEF Values
<1>. QED
  BY <1>2 DEF Generated

LEMMA EmptyIsOwn ==
  ASSUME NEW b, DOMAIN b = {}, NEW r, NEW recs
  PROVE  Own(b, r, recs)
BY DEF Own, Distinct, NotAbove, Apart

(* What carries only values of b, one place for each, is as distinct as b.  *)
LEMMA OwnIsInherited ==
  ASSUME NEW b, NEW r, NEW recs, Own(b, r, recs), NEW c, NEW f,
         \A x \in DOMAIN c : Generated(c[x]) => \E y \in DOMAIN b : c[x] = b[y] /\ x = f[y]
  PROVE  Own(c, r, recs)
<1>1. Distinct(c)
  <2>. SUFFICES ASSUME NEW x \in DOMAIN c, NEW y \in DOMAIN c, Generated(c[x]), c[x] = c[y]
                PROVE  x = y
    BY DEF Distinct
  <2>1. PICK v \in DOMAIN b : c[x] = b[v] /\ x = f[v]
    OBVIOUS
  <2>2. PICK w \in DOMAIN b : c[y] = b[w] /\ y = f[w]
    OBVIOUS
  <2>3. v = w
    BY <2>1, <2>2 DEF Own, Distinct
  <2>. QED
    BY <2>1, <2>2, <2>3
<1>2. NotAbove(c, r)
  BY DEF Own, NotAbove
<1>3. \A k \in DOMAIN recs : Apart(c, recs[k].body)
  BY DEF Own, Apart
<1>. QED
  BY <1>1, <1>2, <1>3 DEF Own

(* A value at the generator's number, which nobody has, can be added.       *)
LEMMA OwnIsExtended ==
  ASSUME NEW b \in Builts, NEW r \in [fresh : Nat, time : Nat], NEW recs \in Seq(Records),
         Own(b, r, recs), NEW kind \in {"fresh", "time"}, Free(kind, b, r, recs),
         NEW x, x \notin DOMAIN b
  PROVE  Own(Over([y \in {x} |-> Value(kind, r[kind])], b), r, recs)
<1>. DEFINE v == Value(kind, r[kind])
            c == Over([y \in {x} |-> v], b)
<1>1. /\ DOMAIN c = DOMAIN b \cup {x} /\ c[x] = v
      /\ \A y \in DOMAIN b : c[y] = b[y]
  BY DEF Over
<1>2. v.kind = kind /\ v.n = r[kind] /\ r[kind] \in Nat
  BY DEF Value
<1>. HIDE DEF c, v
<1>3. \A y \in DOMAIN b : b[y] # v
  BY <1>2 DEF Free, Below
<1>4. Distinct(c)
  BY <1>1, <1>3 DEF Own, Distinct
<1>5. NotAbove(c, r)
  BY <1>1, <1>2 DEF Own, NotAbove
<1>6. \A k \in DOMAIN recs : Apart(c, recs[k].body)
  <2>1. \A k \in DOMAIN recs : \A y \in DOMAIN recs[k].body : recs[k].body[y] # v
    BY <1>2 DEF Free, Below
  <2>. QED
    BY <1>1, <2>1 DEF Own, Apart
<1>. QED
  BY <1>4, <1>5, <1>6 DEF Own, c, v

(* A bump keeps what is not above the generator, and frees a number.        *)
LEMMA BumpFrees ==
  ASSUME NEW S, NEW b \in PartialFcns(S, Values), NEW r \in [fresh : Nat, time : Nat],
         NEW kind \in {"fresh", "time"}, NotAbove(b, r)
  PROVE  /\ NotAbove(b, [r EXCEPT ![kind] = r[kind] + 1])
         /\ Below(b, kind, [r EXCEPT ![kind] = r[kind] + 1])
<1>1. \A x \in DOMAIN b : Generated(b[x]) => /\ b[x].kind \in {"fresh", "time"} /\ b[x].n \in Nat
                                             /\ b[x].n <= r[b[x].kind]
  <2>1. \A x \in DOMAIN b : b[x] \in Values
    BY PartialIs
  <2>. QED
    BY <2>1, GeneratedIsNumbered DEF NotAbove
<1>2. r.fresh \in Nat /\ r.time \in Nat
  OBVIOUS
<1>. DEFINE q == [r EXCEPT ![kind] = r[kind] + 1]
<1>3. q[kind] = r[kind] + 1 /\ \A k \in {"fresh", "time"} : k # kind => q[k] = r[k]
  OBVIOUS
<1>. HIDE DEF q
<1>4. NotAbove(b, q)
  BY <1>1, <1>2, <1>3 DEF NotAbove
<1>5. Below(b, kind, q)
  BY <1>1, <1>2, <1>3 DEF Below, Generated
<1>. QED
  BY <1>4, <1>5 DEF q

LEMMA IdleIsFresh ==
  ASSUME NEW h, h \in {Idle} \/ (h.pc = "match" /\ h.built = Idle.built /\ h.body = Idle.body),
         NEW r, NEW recs
  PROVE  FreshOK(h, r, recs)
<1>1. DOMAIN h.built = {} /\ DOMAIN h.body = {} /\ h.pc \in {"idle", "match"}
  BY DEF Idle
<1>. QED
  BY <1>1, EmptyIsOwn DEF FreshOK

(* Other values, which the generator has not made, are of no account.       *)
LEMMA OwnBesides ==
  ASSUME NEW b, NEW r, NEW recs, Own(b, r, recs), NEW c,
         \A x \in DOMAIN c : Generated(c[x]) => x \in DOMAIN b /\ c[x] = b[x]
  PROVE  Own(c, r, recs)
<1>. DEFINE f == [x \in DOMAIN b |-> x]
<1>1. \A x \in DOMAIN c : Generated(c[x]) => \E y \in DOMAIN b : c[x] = b[y] /\ x = f[y]
  OBVIOUS
<1>. HIDE DEF f
<1>. QED
  BY <1>1, OwnIsInherited

LEMMA UserValueIsNotGenerated ==
  /\ \A v \in Vibrations : ~Generated(v.value)
  /\ \A ov \in Ovs : \A l \in DOMAIN ov.patch : ~Generated(ov.patch[l])
<1>1. \A v \in Vibrations : ~Generated(v.value)
  BY UserValuesAssumption DEF Generated
<1>2. ASSUME NEW ov \in Ovs, NEW l \in DOMAIN ov.patch PROVE ~Generated(ov.patch[l])
  <2>1. CASE ov = NoOverride
    BY <2>1 DEF NoOverride
  <2>2. ASSUME NEW ovs \in OverrideLists, ov \in Range(ovs) PROVE ~Generated(ov.patch[l])
    <3>1. PICK k \in DOMAIN ovs : ov = ovs[k]
      BY <2>2 DEF Range
    <3>. QED
      BY <3>1, UserValuesAssumption DEF Generated
  <2>. QED
    BY <2>1, <2>2 DEF Ovs
<1>. QED
  BY <1>1, <1>2

(* One step of a handler while the generator and the records stay.          *)
LEMMA FreshHandler ==
  ASSUME TypeInv, NEW s \in Slots, FreshOK(hd[s], rnd, records),
         Handle(s), ~SynthBump(s), ~AppendRecord(s)
  PROVE  FreshOK(hd'[s], rnd, records) /\ UNCHANGED <<rnd, records>>
<1>. DEFINE h == hd[s]
<1>0. hd \in [Slots -> Handlers] /\ h \in Handlers /\ StageOK(h)
  BY DEF TypeInv
<1>. USE DEF shared, At
<1>1. CASE MatchOverride(s) \/ Expand(s) \/ CacheSave(s) \/ AppendSeq(s)
  <2>1. /\ hd'[s].built = h.built /\ hd'[s].body = h.body
        /\ h.pc \notin {"mark", "answer", "bump", "gen"}
        /\ \/ hd'[s].pc \in {"fixed", "expand", "refuse", "save", "synth"}
           \/ h.pc = "seq" /\ hd'[s].pc = "patch"
        /\ UNCHANGED <<rnd, records>>
    <3>1. CASE MatchOverride(s) BY <1>0, <3>1 DEF MatchOverride, Handlers
    <3>2. CASE Expand(s) BY <1>0, <3>2 DEF Expand, Handlers
    <3>3. CASE CacheSave(s) BY <1>0, <3>3 DEF CacheSave, Handlers
    <3>4. CASE AppendSeq(s) BY <1>0, <3>4 DEF AppendSeq, Handlers
    <3>. QED
      BY <1>1, <3>1, <3>2, <3>3, <3>4
  <2>. QED
    BY <2>1 DEF FreshOK
<1>2. CASE SynthConst(s)
  <2>1. /\ h.pc = "synth" /\ Unfinished(h) /\ h.url \in DOMAIN Instances
        /\ hd'[s].built = With(h, Value("const", 0)) /\ hd'[s].body = h.body
        /\ hd'[s].pc = "synth" /\ UNCHANGED <<rnd, records>>
    BY <1>0, <1>2 DEF SynthConst, Handlers, StageOK, Found
  <2>2. ~Generated(Value("const", 0))
    BY DEF Generated, Value
  <2>3. \A x \in DOMAIN hd'[s].built : Generated(hd'[s].built[x]) =>
          x \in DOMAIN h.built /\ hd'[s].built[x] = h.built[x]
    BY <2>1, <2>2 DEF With, Over
  <2>4. Own(hd'[s].built, rnd, records)
    BY <2>3, OwnBesides DEF FreshOK
  <2>. QED
    BY <2>1, <2>4 DEF FreshOK
<1>3. CASE SynthRead(s)
  <2>1. /\ h.pc = "synth" /\ hd'[s] = [h EXCEPT !.pc = "bump", !.tmp = rnd[Kind[Leaf(h)]]]
        /\ UNCHANGED <<rnd, records>>
    BY <1>0, <1>3 DEF SynthRead
  <2>2. /\ hd'[s].built = h.built /\ hd'[s].body = h.body /\ hd'[s].pc = "bump"
        /\ hd'[s].url = h.url /\ hd'[s].tmp = rnd[Kind[Leaf(h)]]
    BY <1>0, <2>1 DEF Handlers
  <2>3. Leaf(hd'[s]) = Leaf(h)
    BY <2>2 DEF Leaf
  <2>. QED
    BY <2>1, <2>2, <2>3 DEF FreshOK
<1>4. CASE SynthGen(s)
  <2>. DEFINE kind == Kind[Leaf(h)]
              c == NextCell(h.url, h.built)
  <2>1. /\ h.pc = "gen" /\ Unfinished(h) /\ kind \in {"fresh", "time"} /\ h.url \in DOMAIN Instances
        /\ hd'[s].built = With(h, Value(kind, rnd[kind])) /\ hd'[s].body = h.body
        /\ hd'[s].pc = "synth" /\ UNCHANGED <<rnd, records>>
    BY <1>0, <1>4 DEF SynthGen, Handlers, StageOK, Found
  <2>2. c \notin DOMAIN h.built
    <3>1. Value("const", 0) \in Values
      BY DEF Value, Values
    <3>. QED
      BY <1>0, <2>1, <3>1, WithType
  <2>3. h.built \in Builts /\ rnd \in [fresh : Nat, time : Nat] /\ records \in Seq(Records)
    BY <1>0 DEF Handlers, TypeInv
  <2>4. Own(h.built, rnd, records) /\ Free(kind, h.built, rnd, records)
    BY <2>1 DEF FreshOK
  <2>. HIDE DEF c, kind
  <2>5. Own(Over([y \in {c} |-> Value(kind, rnd[kind])], h.built), rnd, records)
    BY <2>1, <2>2, <2>3, <2>4, OwnIsExtended
  <2>6. Own(hd'[s].built, rnd, records)
    BY <2>1, <2>5 DEF With, c
  <2>. QED
    BY <2>1, <2>6 DEF FreshOK
<1>5. CASE Select(s)
  <2>. DEFINE m == Selected(h.url, h.ov)
  <2>1. /\ h.pc = "synth" /\ ~Unfinished(h) /\ h.url \in DOMAIN Instances
        /\ UNCHANGED <<rnd, records>>
    BY <1>0, <1>5 DEF Select, StageOK, Found
  <2>2. CASE m = 0
    <3>1. hd'[s].built = h.built /\ hd'[s].body = h.body /\ hd'[s].pc = "refuse"
      BY <1>0, <1>5, <2>2 DEF Select, Handlers
    <3>. QED
      BY <2>1, <3>1 DEF FreshOK
  <2>3. CASE m # 0
    <3>1. /\ hd'[s].built = Idle.built /\ hd'[s].pc = "seq"
          /\ hd'[s].body = Response(h.url, h.built, m)
      BY <1>0, <1>5, <2>3 DEF Select, Handlers
    <3>2. m \in DOMAIN Instances[h.url]
      BY <2>1, <2>3, SelectedIsInstance
    <3>3. Cells(h.url) \subseteq DOMAIN h.built
      BY <2>1 DEF Unfinished
    <3>. DEFINE f == [c \in DOMAIN h.built |-> LeafAt(h.url, c)]
                b == Response(h.url, h.built, m)
    <3>. HIDE DEF m
    <3>4. \A x \in DOMAIN b : \E y \in DOMAIN h.built : b[x] = h.built[y] /\ x = f[y]
      BY <2>1, <3>2, <3>3, ResponseCarries
    <3>. HIDE DEF f, b
    <3>5. Own(b, rnd, records)
      BY <3>4, OwnIsInherited DEF FreshOK
    <3>6. DOMAIN Idle.built = {}
      BY DEF Idle
    <3>7. Own(Idle.built, rnd, records)
      BY <3>6, EmptyIsOwn
    <3>. QED
      BY <2>1, <3>1, <3>5, <3>6, <3>7 DEF FreshOK, b
  <2>. QED
    BY <2>2, <2>3
<1>6. CASE Patch(s)
  <2>1. /\ h.pc = "patch" /\ UNCHANGED <<rnd, records>>
        /\ hd'[s].built = h.built /\ hd'[s].pc \in {"refuse", "vibrate", "decode"}
        /\ hd'[s].body = h.body \/ hd'[s].body = Over(h.ov.patch, h.body)
    BY <1>6, PatchStep
  <2>2. \A l \in DOMAIN h.ov.patch : ~Generated(h.ov.patch[l])
    BY <1>0, UserValueIsNotGenerated DEF Handlers
  <2>3. \A x \in DOMAIN hd'[s].body : Generated(hd'[s].body[x]) =>
          x \in DOMAIN h.body /\ hd'[s].body[x] = h.body[x]
    BY <2>1, <2>2 DEF Over
  <2>4. Own(hd'[s].body, rnd, records)
    BY <2>1, <2>3, OwnBesides DEF FreshOK
  <2>. QED
    BY <2>1, <2>4 DEF FreshOK
<1>7. CASE Vibrate(s)
  <2>1. /\ h.pc = "vibrate" /\ UNCHANGED <<rnd, records>>
        /\ hd'[s].built = h.built /\ hd'[s].pc \in {"refuse", "abort", "decode"}
        /\ \/ hd'[s].body = h.body
           \/ /\ vibration # None
              /\ hd'[s].body = [h.body EXCEPT ![vibration.leaf] = vibration.value]
    BY <1>7, VibrateStep
  <2>2. vibration # None => ~Generated(vibration.value)
    BY UserValueIsNotGenerated DEF TypeInv
  <2>3. \A x \in DOMAIN hd'[s].body : Generated(hd'[s].body[x]) =>
          x \in DOMAIN h.body /\ hd'[s].body[x] = h.body[x]
    BY <2>1, <2>2
  <2>4. Own(hd'[s].body, rnd, records)
    BY <2>1, <2>3, OwnBesides DEF FreshOK
  <2>. QED
    BY <2>1, <2>4 DEF FreshOK
<1>8. CASE Decode(s)
  <2>1. /\ h.pc = "decode" /\ UNCHANGED <<rnd, records>>
        /\ hd'[s].built = h.built /\ hd'[s].body = h.body /\ hd'[s].pc \in {"refuse", "record"}
    BY <1>8, DecodeStep
  <2>. QED
    BY <2>1 DEF FreshOK
<1>9. CASE MarkVibration(s)
  <2>1. /\ h.pc = "mark" /\ UNCHANGED <<rnd, records>>
        /\ hd'[s].built = h.built /\ hd'[s].body = h.body /\ hd'[s].pc = "answer"
    BY <1>9, MarkStep
  <2>. QED
    BY <2>1 DEF FreshOK
<1>. QED
  BY <1>1, <1>2, <1>3, <1>4, <1>5, <1>6, <1>7, <1>8, <1>9 DEF Handle

LEMMA FreshStep ==
  ASSUME ~Overlap, ~Stragglers, TypeInv, RunInv, SerialInv, AnswerInv, FreshInv, [Next]_vars
  PROVE  FreshInv'
<1>0. /\ hd \in [Slots -> Handlers] /\ records \in Seq(Records)
      /\ rnd \in [fresh : Nat, time : Nat]
      /\ \A k \in DOMAIN records : records[k].body \in Bodies
  <2>1. hd \in [Slots -> Handlers] /\ records \in Seq(Records) /\ rnd \in [fresh : Nat, time : Nat]
    BY DEF TypeInv
  <2>2. \A k \in DOMAIN records : records[k] \in Records
    BY <2>1
  <2>. QED
    BY <2>1, <2>2 DEF Records
<1>1. CASE UNCHANGED vars
  BY <1>1 DEF FreshInv, FreshValuesUnique, vars, shared
<1>2. ASSUME NEW s \in Slots,
             \A t \in Slots : t = s \/ (hd[t] = Idle /\ hd'[t] = Idle),
             UNCHANGED <<rnd, records>>, FreshOK(hd'[s], rnd, records)
      PROVE  FreshInv'
  <2>1. \A t \in Slots : FreshOK(hd'[t], rnd, records)
    BY <1>2, IdleIsFresh
  <2>2. FreshValuesUnique'
    BY <1>2 DEF FreshInv, FreshValuesUnique
  <2>. QED
    BY <1>2, <2>1, <2>2 DEF FreshInv
<1>3. ASSUME NEW s \in Slots, Handle(s), ~SynthBump(s), ~AppendRecord(s) PROVE FreshInv'
  <2>1. \A t \in Slots : t = s \/ (hd[t] = Idle /\ hd'[t] = Idle)
    BY <1>3, MovesAlone
  <2>2. FreshOK(hd[s], rnd, records)
    BY DEF FreshInv
  <2>3. FreshOK(hd'[s], rnd, records) /\ UNCHANGED <<rnd, records>>
    BY <1>3, <2>2, FreshHandler
  <2>. QED
    BY <1>2, <2>1, <2>3
<1>4. ASSUME NEW s \in Slots, SynthBump(s) PROVE FreshInv'
  <2>. DEFINE h == hd[s]
              kind == Kind[Leaf(h)]
  <2>1. \A t \in Slots : t = s \/ (hd[t] = Idle /\ hd'[t] = Idle)
    BY <1>4, MovesAlone DEF Handle
  <2>2. /\ h.pc = "bump" /\ kind \in {"fresh", "time"} /\ records' = records
        /\ h.tmp = rnd[kind] /\ rnd' = [rnd EXCEPT ![kind] = rnd[kind] + 1]
        /\ Own(h.built, rnd, records) /\ Own(h.body, rnd, records)
    BY <1>4 DEF SynthBump, FreshInv, FreshOK, TypeInv, StageOK, At
  <2>3. /\ hd'[s].built = h.built /\ hd'[s].body = h.body /\ hd'[s].pc = "gen"
        /\ hd'[s].url = h.url
    BY <1>0, <1>4 DEF SynthBump, Handlers
  <2>4. Kind[Leaf(hd'[s])] = kind
    BY <2>3 DEF Leaf
  <2>5. h.built \in Builts /\ h.body \in Bodies
    BY <1>0 DEF Handlers
  <2>. HIDE DEF kind, h
  <2>6. NotAbove(h.built, rnd') /\ Below(h.built, kind, rnd') /\ NotAbove(h.body, rnd')
    <3>1. NotAbove(h.built, rnd') /\ Below(h.built, kind, rnd')
      <4>1. h.built \in PartialFcns(AllCells, Values) /\ NotAbove(h.built, rnd)
        BY <2>2, <2>5 DEF Own, Builts
      <4>2. /\ NotAbove(h.built, [rnd EXCEPT ![kind] = rnd[kind] + 1])
            /\ Below(h.built, kind, [rnd EXCEPT ![kind] = rnd[kind] + 1])
        BY <1>0, <2>2, <4>1, BumpFrees
      <4>. QED
        BY <2>2, <4>2
    <3>2. NotAbove(h.body, rnd')
      BY <1>0, <2>2, <2>5, BumpFrees DEF Own, Bodies
    <3>. QED
      BY <3>1, <3>2
  <2>7. \A k \in DOMAIN records : /\ NotAbove(records[k].body, rnd')
                                  /\ Below(records[k].body, kind, rnd')
    <3>1. \A k \in DOMAIN records : NotAbove(records[k].body, rnd)
      BY DEF FreshInv
    <3>. QED
      BY <1>0, <2>2, <3>1, BumpFrees DEF Bodies
  <2>8. FreshOK(hd'[s], rnd', records')
    BY <2>2, <2>3, <2>4, <2>6, <2>7 DEF FreshOK, Own, Free
  <2>9. \A t \in Slots : FreshOK(hd'[t], rnd', records')
    BY <2>1, <2>8, IdleIsFresh
  <2>10. FreshValuesUnique'
    BY <2>2 DEF FreshInv, FreshValuesUnique
  <2>. QED
    BY <2>2, <2>7, <2>9, <2>10 DEF FreshInv
<1>5. ASSUME NEW s \in Slots, AppendRecord(s) PROVE FreshInv'
  <2>. DEFINE h == hd[s]
  <2>1. \A t \in Slots : t = s \/ (hd[t] = Idle /\ hd'[t] = Idle)
    BY <1>5, MovesAlone DEF Handle
  <2>2. /\ h.pc = "record" /\ RecordOf(h) \in Records /\ rnd' = rnd
        /\ records' = Append(h.snap, RecordOf(h))
        /\ hd'[s].built = h.built /\ hd'[s].pc \in {"mark", "answer"}
    BY <1>5, AppendRecordStep
  <2>3. /\ h.snap = records
        /\ DOMAIN h.built = {} /\ Own(h.body, rnd, records)
    <3>1. FreshOK(h, rnd, records)
      BY DEF FreshInv
    <3>. QED
      BY <2>2, <3>1 DEF AnswerInv, FreshOK
  <2>. PICK n \in Nat : n = Len(records)
    BY <1>0
  <2>4. /\ DOMAIN records = 1..n /\ DOMAIN records' = 1..(n + 1)
        /\ \A k \in 1..n : records'[k] = records[k]
        /\ records'[n + 1].body = h.body
    <3>1. records' = Append(records, RecordOf(h)) /\ RecordOf(h).body = h.body
      BY <2>2, <2>3 DEF RecordOf
    <3>. QED
      BY <1>0, <2>2, <3>1
  <2>5. Distinct(h.body) /\ NotAbove(h.body, rnd) /\ \A k \in 1..n : Apart(h.body, records[k].body)
    BY <2>3, <2>4 DEF Own
  <2>6. \A k \in DOMAIN records' : NotAbove(records'[k].body, rnd')
    BY <2>2, <2>4, <2>5 DEF FreshInv
  <2>7. FreshValuesUnique'
    <3>. SUFFICES ASSUME NEW j \in 1..(n + 1), NEW k \in 1..(n + 1),
                         NEW l \in DOMAIN records'[j].body, NEW d \in DOMAIN records'[k].body,
                         Generated(records'[j].body[l]),
                         records'[j].body[l] = records'[k].body[d]
                  PROVE  j = k /\ l = d
      BY <2>4 DEF FreshValuesUnique
    <3>1. CASE j \in 1..n /\ k \in 1..n
      BY <2>4, <3>1 DEF FreshInv, FreshValuesUnique
    <3>2. CASE j = n + 1 /\ k = n + 1
      BY <2>4, <2>5, <3>2 DEF Distinct
    <3>3. CASE j = n + 1 /\ k \in 1..n
      BY <2>4, <2>5, <3>3 DEF Apart
    <3>4. CASE j \in 1..n /\ k = n + 1
      BY <2>4, <2>5, <3>4 DEF Apart
    <3>. QED
      BY <3>1, <3>2, <3>3, <3>4
  <2>8. FreshOK(hd'[s], rnd', records')
    BY <2>2, <2>3, EmptyIsOwn DEF FreshOK
  <2>9. \A t \in Slots : FreshOK(hd'[t], rnd', records')
    BY <2>1, <2>8, IdleIsFresh
  <2>. QED
    BY <2>6, <2>7, <2>9 DEF FreshInv
<1>6. ASSUME NEW s \in Slots, Reply(s) PROVE FreshInv'
  <2>1. \A t \in Slots : t = s \/ (hd[t] = Idle /\ hd'[t] = Idle)
    BY <1>6, MovesAlone
  <2>2. hd'[s] = Idle /\ UNCHANGED <<rnd, records>>
    BY <1>6, ReplyStep
  <2>. QED
    BY <1>2, <2>1, <2>2, IdleIsFresh
<1>7. ASSUME NEW s \in Slots, NEW u \in Urls, MayArrive, Arrive(s, u) PROVE FreshInv'
  <2>1. \A t \in Slots : t = s \/ (hd[t] = Idle /\ hd'[t] = Idle)
    BY <1>7, MovesAlone
  <2>2. /\ hd'[s].pc = "match" /\ hd'[s].built = Idle.built /\ hd'[s].body = Idle.body
        /\ UNCHANGED <<rnd, records>>
    BY <1>7, ArriveStep
  <2>. QED
    BY <1>2, <2>1, <2>2, IdleIsFresh
<1>8. ASSUME NEW v, InitVibration(v), MayInit PROVE FreshInv'
  <2>1. \A s \in Slots : hd[s].pc = "idle"
    BY <1>8 DEF MayInit, Busy, At
  <2>2. hd' = hd /\ records' = <<>>
    BY <1>8 DEF InitVibration
  <2>3. \A s \in Slots : hd'[s] = Idle
    BY <2>1, <2>2 DEF SerialInv
  <2>. QED
    BY <2>2, <2>3, IdleIsFresh DEF FreshInv, FreshValuesUnique
<1>. QED
  BY <1>1, <1>3, <1>4, <1>5, <1>6, <1>7, <1>8 DEF Next, Environment, InitExecution

-------------------------------------------------------------------------------
(* One request after the other.                                             *)
Serial == SerialInv /\ AnswerInv /\ LastInv /\ FreshInv

LEMMA SerialKept ==
  ASSUME ~Overlap, ~Stragglers, TypeInv, RunInv, VibrationInv, Serial, [Next]_vars
  PROVE  Serial'
BY SerialStep, AnswerStep, LastStep, FreshStep DEF Serial

LEMMA SerialInit == Init => Serial
<1>. SUFFICES ASSUME Init PROVE Serial
  OBVIOUS
<1>1. /\ \A s \in Slots : hd[s] = Idle
      /\ records = <<>> /\ answered = <<>> /\ vibrationRecord = None
  BY DEF Init
<1>2. Idle.pc = "idle"
  BY DEF Idle
<1>3. SerialInv /\ AnswerInv
  BY <1>1, <1>2 DEF SerialInv, AnswerInv, Recorded
<1>4. Marking = {}
  BY <1>1, <1>2 DEF Marking
<1>5. LastInv
  BY <1>1, <1>2, <1>4 DEF LastInv, MarkedUpTo, MatchedOf
<1>6. FreshInv
  BY <1>1, IdleIsFresh DEF FreshInv, FreshValuesUnique
<1>. QED
  BY <1>3, <1>5, <1>6 DEF Serial

LEMMA SerialInvariant == ASSUME ~Overlap, ~Stragglers PROVE Spec => []Serial
<1>1. TypeInv /\ RunInv /\ VibrationInv /\ Serial /\ [Next]_vars => Serial'
  BY SerialKept
<1>. QED
  BY <1>1, SerialInit, TypeInvariant, RunInvariant, PTL DEF Spec

(* Between requests srv.records is what the program was answered with, in   *)
(* order, when it waits for each answer: ctrl.go takes the last record for  *)
(* the response the program ended with.                                     *)
THEOREM AnswersAreRecorded ==
  ASSUME ~Overlap, ~Stragglers PROVE Spec => []AnsweredIsRecorded
<1>1. TypeInv /\ Serial => AnsweredIsRecorded
  <2>. SUFFICES ASSUME TypeInv, Serial, Quiet PROVE AnsweredIsRecorded
    BY DEF AnsweredIsRecorded
  <2>1. \A s \in Slots : hd[s].pc = "idle"
    BY DEF Quiet, Busy, At
  <2>2. Recorded = {}
    BY <2>1 DEF Recorded
  <2>3. records \in Seq(Records) /\ answered \in Seq(Bodies)
    BY DEF TypeInv
  <2>. QED
    BY <2>2, <2>3 DEF Serial, AnswerInv, AnsweredIsRecorded
<1>. QED
  BY <1>1, TypeInvariant, SerialInvariant, PTL

(* And srv.vibrationRecord is then the last record the vibration matches,   *)
(* or nil when none does: the request whose response ctrl.go compares.      *)
THEOREM VibrationRecordIsTheLast ==
  ASSUME ~Overlap, ~Stragglers PROVE Spec => []VibrationRecordIsLast
<1>1. TypeInv /\ Serial => VibrationRecordIsLast
  <2>. SUFFICES ASSUME TypeInv, Serial, Quiet PROVE VibrationRecordIsLast
    BY DEF VibrationRecordIsLast
  <2>1. \A s \in Slots : hd[s].pc = "idle"
    BY DEF Quiet, Busy, At
  <2>2. Marking = {}
    BY <2>1 DEF Marking
  <2>3. DOMAIN records = 1..Len(records)
    BY DEF TypeInv
  <2>4. MarkedUpTo(Len(records)) /\ MatchedOf(Len(records)) = MatchedRecords
    BY <2>2, <2>3 DEF Serial, LastInv, MatchedOf, MatchedRecords
  <2>. QED
    BY <2>4 DEF MarkedUpTo, VibrationRecordIsLast
<1>. QED
  BY <1>1, TypeInvariant, SerialInvariant, PTL

(* No two leaves of the recorded responses of a run hold the same generated *)
(* value, so that JSONValueValueMap can tell them all apart: the generator  *)
(* is read, bumped and read again in three steps (rnd.go), of one handler   *)
(* at a time only when the program waits for each answer.                   *)
THEOREM RecordedValuesDiffer ==
  ASSUME ~Overlap, ~Stragglers PROVE Spec => []FreshValuesUnique
<1>1. Serial => FreshValuesUnique
  BY DEF Serial, FreshInv
<1>. QED
  BY <1>1, SerialInvariant, PTL

-------------------------------------------------------------------------------
(* What the generator has handed out.                                       *)

(* A selector refuses only responses that hold no generated string.         *)
SelectorsFit == \A u \in DOMAIN Instances, ov \in Ovs : Selected(u, ov) = 0 => FreshCells(u) = {}

Unrefused == \A s \in Slots : hd[s].pc \notin {"refuse", "abort"}

(* What a handler has taken from the generator that srv.seqs does not yet   *)
(* account for.                                                             *)
Done(h) == FreshCells(h.url) \cap DOMAIN h.built
Account(h) ==
  CASE h.pc \in {"synth", "bump"} -> Cardinality(Done(h))
    [] h.pc = "gen" -> Cardinality(Done(h)) + (IF Kind[Leaf(h)] = "fresh" THEN 1 ELSE 0)
    [] h.pc = "seq" -> Cardinality(FreshCells(h.url))
    [] OTHER -> 0

SeqOK(h, q) ==
  /\ h.pc = "seq" => h.snap = q
  /\ h.pc \in {"match", "expand", "save"} => DOMAIN h.built = {}

SeqInv ==
  /\ \A s \in Slots : SeqOK(hd[s], seqs)
  /\ \A s \in Slots : hd[s].pc # "idle" =>
       rnd.fresh = Cardinality(HandedOut) + Account(hd[s])
  /\ Quiet => rnd.fresh = Cardinality(HandedOut)

LEMMA FiniteRange ==
  ASSUME NEW n \in Nat
  PROVE  IsFiniteSet(1..n)
<1>1. 1 \in Int /\ n \in Int
  OBVIOUS
<1>. QED
  BY <1>1, FS_Interval, Zenon

LEMMA FiniteUnion ==
  ASSUME NEW n \in Nat, NEW F, \A k \in 1..n : IsFiniteSet(F[k])
  PROVE  IsFiniteSet(UNION {F[k] : k \in 1..n})
<1>. DEFINE T == {F[k] : k \in 1..n}
            f == [k \in 1..n |-> F[k]]
<1>1. f \in Surjection(1..n, T)
  BY DEF Surjection
<1>2. IsFiniteSet(1..n)
  BY FiniteRange
<1>. HIDE DEF f
<1>3. IsFiniteSet(T)
  BY <1>1, <1>2, FS_Surjection
<1>4. \A S \in T : IsFiniteSet(S)
  OBVIOUS
<1>. HIDE DEF T
<1>5. IsFiniteSet(UNION T)
  BY <1>3, <1>4, FS_UNION
<1>. QED
  BY <1>5 DEF T

LEMMA FreshCellsFinite ==
  ASSUME NEW u \in DOMAIN Instances
  PROVE  /\ IsFiniteSet(FreshCells(u)) /\ Cardinality(FreshCells(u)) \in Nat
         /\ \A D : IsFiniteSet(FreshCells(u) \cap D) /\ Cardinality(FreshCells(u) \cap D) \in Nat
<1>1. Instances[u] \in Seq(Seq(DOMAIN Kind))
  BY InstancesAssumption
<1>2. PICK n \in Nat : DOMAIN Instances[u] = 1..n
  BY <1>1
<1>. DEFINE F == [m \in 1..n |-> {m} \X DOMAIN Instances[u][m]]
<1>3. ASSUME NEW m \in 1..n PROVE IsFiniteSet(F[m])
  <2>1. Instances[u][m] \in Seq(DOMAIN Kind)
    BY <1>1, <1>2
  <2>2. PICK l \in Nat : DOMAIN Instances[u][m] = 1..l
    BY <2>1
  <2>3. IsFiniteSet(1..l) /\ IsFiniteSet({m})
    BY FiniteRange, FS_Singleton, Zenon
  <2>4. IsFiniteSet({m} \X DOMAIN Instances[u][m])
    BY <2>2, <2>3, FS_Product
  <2>. QED
    BY <2>4
<1>4. \A m \in 1..n : F[m] = {<<m, k>> : k \in DOMAIN Instances[u][m]}
  OBVIOUS
<1>5. Cells(u) = UNION {F[m] : m \in 1..n}
  BY <1>2, <1>4 DEF Cells
<1>. HIDE DEF F
<1>6. IsFiniteSet(Cells(u))
  BY <1>3, <1>5, FiniteUnion
<1>7. FreshCells(u) \in SUBSET Cells(u)
  BY DEF FreshCells
<1>8. IsFiniteSet(FreshCells(u))
  BY <1>6, <1>7, FS_Subset
<1>9. \A D : IsFiniteSet(FreshCells(u) \cap D)
  BY <1>8, FS_Intersection
<1>. QED
  BY <1>8, <1>9, FS_CardinalityType

LEMMA HandedOutFinite ==
  ASSUME seqs \in Seq(Entries)
  PROVE  IsFiniteSet(HandedOut) /\ Cardinality(HandedOut) \in Nat
<1>1. PICK n \in Nat : DOMAIN seqs = 1..n
  OBVIOUS
<1>. DEFINE F == [k \in 1..n |-> {k} \X FreshCells(seqs[k].url)]
<1>2. ASSUME NEW k \in 1..n PROVE IsFiniteSet(F[k])
  <2>1. seqs[k].url \in DOMAIN Instances
    BY <1>1 DEF Entries
  <2>2. IsFiniteSet(FreshCells(seqs[k].url)) /\ IsFiniteSet({k})
    BY <2>1, FreshCellsFinite, FS_Singleton
  <2>3. IsFiniteSet({k} \X FreshCells(seqs[k].url))
    BY <2>2, FS_Product
  <2>. QED
    BY <2>3
<1>3. HandedOut = UNION {F[k] : k \in 1..n}
  BY <1>1 DEF HandedOut
<1>. HIDE DEF F
<1>. QED
  BY <1>2, <1>3, FiniteUnion, FS_CardinalityType

(* One more entry accounts for the strings of its response.                 *)
LEMMA EntryAccounts ==
  ASSUME seqs \in Seq(Entries), NEW e \in Entries, seqs' = Append(seqs, e)
  PROVE  Cardinality(HandedOut') = Cardinality(HandedOut) + Cardinality(FreshCells(e.url))
<1>1. PICK n \in Nat : n = Len(seqs)
  OBVIOUS
<1>. DEFINE F == FreshCells(e.url)
            N == {n + 1} \X F
<1>2. IsFiniteSet(F) /\ Cardinality(F) \in Nat
  BY FreshCellsFinite DEF Entries
<1>3. IsFiniteSet(HandedOut) /\ Cardinality(HandedOut) \in Nat
  BY HandedOutFinite
<1>4. IsFiniteSet(N) /\ Cardinality(N) = Cardinality(F)
  <2>. HIDE DEF F
  <2>1. IsFiniteSet({n + 1}) /\ Cardinality({n + 1}) = 1
    BY FS_Singleton
  <2>2. Cardinality(N) = 1 * Cardinality(F) /\ IsFiniteSet(N)
    BY <1>2, <2>1, FS_Product
  <2>. QED
    BY <1>2, <2>2
<1>5. /\ DOMAIN seqs = 1..n /\ DOMAIN seqs' = 1..(n + 1)
      /\ \A k \in 1..n : seqs'[k] = seqs[k]
      /\ seqs'[n + 1] = e
  BY <1>1
<1>6. HandedOut' = HandedOut \cup N
  <2>1. HandedOut' = UNION {{k} \X FreshCells(seqs'[k].url) : k \in 1..(n + 1)}
    BY <1>5 DEF HandedOut
  <2>2. HandedOut = UNION {{k} \X FreshCells(seqs[k].url) : k \in 1..n}
    BY <1>5 DEF HandedOut
  <2>. HIDE DEF HandedOut
  <2>3. \A x : x \in HandedOut' <=> \E k \in 1..(n + 1) : x \in {k} \X FreshCells(seqs'[k].url)
    BY <2>1
  <2>4. \A x : x \in HandedOut <=> \E k \in 1..n : x \in {k} \X FreshCells(seqs[k].url)
    BY <2>2
  <2>5. \A k \in 1..(n + 1) : k \in 1..n \/ k = n + 1
    OBVIOUS
  <2>6. n + 1 \in 1..(n + 1) /\ \A k \in 1..n : k \in 1..(n + 1)
    OBVIOUS
  <2>. QED
    BY <1>5, <2>3, <2>4, <2>5, <2>6
<1>7. HandedOut \cap N = {}
  <2>1. \A x \in HandedOut : x[1] \in 1..n
    BY <1>5 DEF HandedOut
  <2>2. \A x \in N : x[1] = n + 1
    OBVIOUS
  <2>. QED
    BY <2>1, <2>2
<1>. HIDE DEF N, F
<1>8. Cardinality(HandedOut \cap N) = 0
  BY <1>7, FS_EmptySet
<1>9. Cardinality(HandedOut \cup N) = Cardinality(HandedOut) + Cardinality(N) - 0
  BY <1>3, <1>4, <1>8, FS_Union
<1>. QED
  BY <1>2, <1>3, <1>4, <1>6, <1>9 DEF F

(* One step of a handler before its entry is in srv.seqs: only a selector   *)
(* that fits no instance loses account.                                     *)
LEMMA EarlyAccounts ==
  ASSUME TypeInv, NEW s \in Slots, FreshOK(hd[s], rnd, records),
         SeqOK(hd[s], seqs), Early(s),
         rnd.fresh = Cardinality(HandedOut) + Account(hd[s])
  PROVE  /\ SeqOK(hd'[s], seqs')
         /\ (hd'[s].pc = "refuse" /\ SelectorsFit) \/ hd'[s].pc # "refuse" =>
              rnd'.fresh = Cardinality(HandedOut') + Account(hd'[s])
<1>. DEFINE h == hd[s]
            g == hd'[s]
<1>0. /\ hd \in [Slots -> Handlers] /\ h \in Handlers /\ StageOK(h) /\ seqs \in Seq(Entries)
      /\ rnd \in [fresh : Nat, time : Nat]
      /\ Cardinality(HandedOut) \in Nat
  BY HandedOutFinite DEF TypeInv
<1>. USE DEF shared, At
<1>1. CASE MatchOverride(s)
  <2>1. /\ h.pc = "match" /\ g.pc \in {"fixed", "expand"} /\ g.built = h.built
        /\ rnd' = rnd /\ seqs' = seqs
    BY <1>0, <1>1 DEF MatchOverride, Handlers
  <2>. QED
    BY <2>1 DEF SeqOK, Account, HandedOut
<1>2. CASE Expand(s) \/ CacheSave(s)
  <2>1. /\ h.pc \in {"expand", "save"} /\ g.pc \in {"refuse", "save", "synth"} /\ g.built = h.built
        /\ rnd' = rnd /\ seqs' = seqs
    BY <1>0, <1>2 DEF Expand, CacheSave, Handlers
  <2>2. DOMAIN g.built = {} /\ Account(h) = 0
    BY <2>1 DEF SeqOK, Account
  <2>3. Done(g) = {}
    BY <2>2 DEF Done
  <2>4. Account(g) = 0
    BY <2>1, <2>3, FS_EmptySet DEF Account
  <2>. QED
    BY <2>1, <2>2, <2>4 DEF SeqOK, HandedOut
<1>3. CASE SynthConst(s)
  <2>. DEFINE c == NextCell(h.url, h.built)
  <2>1. /\ h.pc = "synth" /\ g.pc = "synth" /\ g.url = h.url
        /\ g.built = Over([x \in {c} |-> Value("const", 0)], h.built)
        /\ Kind[LeafAt(h.url, c)] = "const" /\ rnd' = rnd /\ seqs' = seqs
    BY <1>0, <1>3 DEF SynthConst, Handlers, With, Leaf
  <2>. HIDE DEF c
  <2>2. DOMAIN g.built = DOMAIN h.built \cup {c} /\ c \notin FreshCells(h.url)
    BY <2>1 DEF Over, FreshCells
  <2>3. Done(g) = Done(h)
    BY <2>1, <2>2 DEF Done
  <2>. QED
    BY <2>1, <2>3 DEF SeqOK, Account, HandedOut
<1>4. CASE SynthRead(s)
  <2>1. /\ h.pc = "synth" /\ g.pc = "bump" /\ g.url = h.url /\ g.built = h.built
        /\ rnd' = rnd /\ seqs' = seqs
    BY <1>0, <1>4 DEF SynthRead, Handlers
  <2>. QED
    BY <2>1 DEF SeqOK, Account, Done, HandedOut
<1>5. CASE SynthBump(s)
  <2>. DEFINE kind == Kind[Leaf(h)]
              d == IF kind = "fresh" THEN 1 ELSE 0
  <2>1. /\ h.pc = "bump" /\ g.pc = "gen" /\ g.url = h.url /\ g.built = h.built
        /\ kind \in {"fresh", "time"} /\ h.url \in DOMAIN Instances
        /\ rnd' = [rnd EXCEPT ![kind] = rnd[kind] + 1] /\ seqs' = seqs
    BY <1>0, <1>5 DEF SynthBump, Handlers, FreshOK, StageOK, Found
  <2>2. Done(g) = Done(h) /\ Kind[Leaf(g)] = kind
    BY <2>1 DEF Done, Leaf
  <2>. HIDE DEF kind
  <2>3. rnd'.fresh = rnd.fresh + d
    BY <1>0, <2>1
  <2>4. Account(h) = Cardinality(Done(h)) /\ Account(g) = Cardinality(Done(h)) + d
    BY <2>1, <2>2 DEF Account
  <2>5. Cardinality(Done(h)) \in Nat /\ d \in Nat
    BY <2>1, FreshCellsFinite DEF Done
  <2>6. HandedOut' = HandedOut
    BY <2>1 DEF HandedOut
  <2>7. rnd'.fresh = Cardinality(HandedOut') + Account(g)
    BY <1>0, <2>3, <2>4, <2>5, <2>6
  <2>. QED
    BY <2>1, <2>7 DEF SeqOK
<1>6. CASE SynthGen(s)
  <2>. DEFINE kind == Kind[Leaf(h)]
              c == NextCell(h.url, h.built)
              d == IF kind = "fresh" THEN 1 ELSE 0
  <2>1. /\ h.pc = "gen" /\ g.pc = "synth" /\ g.url = h.url /\ h.url \in DOMAIN Instances
        /\ Unfinished(h) /\ g.built = Over([x \in {c} |-> Value(kind, rnd[kind])], h.built)
        /\ rnd' = rnd /\ seqs' = seqs
    BY <1>0, <1>6 DEF SynthGen, Handlers, StageOK, Found, With
  <2>2. c \in Cells(h.url) \ DOMAIN h.built /\ kind = Kind[LeafAt(h.url, c)]
    BY <2>1, NextCellIsOpen DEF Unfinished, Leaf
  <2>. HIDE DEF c, kind
  <2>3. DOMAIN g.built = DOMAIN h.built \cup {c}
    BY <2>1 DEF Over
  <2>4. IsFiniteSet(Done(h)) /\ Cardinality(Done(h)) \in Nat
    BY <2>1, FreshCellsFinite DEF Done
  <2>5. Cardinality(Done(g)) = Cardinality(Done(h)) + d
    <3>1. CASE kind = "fresh"
      <4>1. Done(g) = Done(h) \cup {c} /\ c \notin Done(h)
        BY <2>1, <2>2, <2>3, <3>1 DEF Done, FreshCells
      <4>. QED
        BY <2>4, <3>1, <4>1, FS_AddElement
    <3>2. CASE kind # "fresh"
      <4>1. Done(g) = Done(h)
        BY <2>1, <2>2, <2>3, <3>2 DEF Done, FreshCells
      <4>. QED
        BY <2>4, <3>2, <4>1
    <3>. QED
      BY <3>1, <3>2
  <2>6. Account(h) = Cardinality(Done(h)) + d /\ Account(g) = Cardinality(Done(g))
    BY <2>1 DEF Account, kind
  <2>. QED
    BY <2>1, <2>5, <2>6 DEF SeqOK, HandedOut
<1>7. CASE Select(s)
  <2>1. /\ h.pc = "synth" /\ h.url \in DOMAIN Instances /\ ~Unfinished(h) /\ g.url = h.url
        /\ \/ g.pc = "refuse" /\ Selected(h.url, h.ov) = 0
           \/ g.pc = "seq" /\ g.snap = seqs
        /\ rnd' = rnd /\ seqs' = seqs
    BY <1>0, <1>7 DEF Select, Handlers, StageOK, Found
  <2>2. Cells(h.url) \subseteq DOMAIN h.built
    BY <2>1 DEF Unfinished
  <2>3. Done(h) = FreshCells(h.url)
    BY <2>2 DEF Done, FreshCells
  <2>4. Account(h) = Cardinality(FreshCells(h.url))
    BY <2>1, <2>3 DEF Account
  <2>5. CASE g.pc = "refuse" /\ Selected(h.url, h.ov) = 0
    <3>1. SelectorsFit => FreshCells(h.url) = {}
      BY <1>0, <2>1, <2>5 DEF SelectorsFit, Handlers
    <3>2. SelectorsFit => Account(h) = 0 /\ Account(g) = 0
      BY <2>4, <2>5, <3>1, FS_EmptySet DEF Account
    <3>. QED
      BY <2>1, <2>5, <3>2 DEF SeqOK, HandedOut
  <2>6. CASE g.pc = "seq" /\ g.snap = seqs
    BY <2>1, <2>4, <2>6 DEF SeqOK, Account, HandedOut
  <2>. QED
    BY <2>1, <2>5, <2>6
<1>8. CASE AppendSeq(s)
  <2>1. /\ h.pc = "seq" /\ g.pc = "patch" /\ h.url \in DOMAIN Instances
        /\ Selected(h.url, h.ov) # 0
        /\ rnd' = rnd /\ seqs' = Append(h.snap, SeqEntry(h)) /\ h.snap = seqs
    BY <1>0, <1>8 DEF AppendSeq, Handlers, StageOK, Found, SeqOK
  <2>2. SeqEntry(h) \in Entries /\ SeqEntry(h).url = h.url
    <3>1. Selected(h.url, h.ov) \in DOMAIN Instances[h.url]
      BY <2>1, SelectedIsInstance
    <3>2. Instances[h.url] \in Seq(Seq(DOMAIN Kind))
      BY <2>1, InstancesAssumption
    <3>. QED
      BY <2>1, <3>1, <3>2 DEF SeqEntry, Entries
  <2>3. Cardinality(HandedOut') = Cardinality(HandedOut) + Cardinality(FreshCells(h.url))
    <3>1. seqs' = Append(seqs, SeqEntry(h))
      BY <2>1
    <3>. QED
      BY <1>0, <2>2, <3>1, EntryAccounts
  <2>4. Account(h) = Cardinality(FreshCells(h.url)) /\ Account(g) = 0
    BY <2>1 DEF Account
  <2>5. Cardinality(FreshCells(h.url)) \in Nat
    BY <2>1, FreshCellsFinite
  <2>. QED
    BY <1>0, <2>1, <2>3, <2>4, <2>5 DEF SeqOK
<1>. QED
  BY <1>1, <1>2, <1>3, <1>4, <1>5, <1>6, <1>7, <1>8 DEF Early

LEMMA SeqStep ==
  ASSUME ~Overlap, ~Stragglers, SelectorsFit \/ Unrefused', TypeInv, RunInv, SerialInv,
         FreshInv, SeqInv, [Next]_vars
  PROVE  SeqInv'
<1>0. /\ Idle.pc = "idle" /\ \A q : SeqOK(Idle, q)
      /\ seqs \in Seq(Entries) /\ hd \in [Slots -> Handlers]
  BY DEF Idle, SeqOK, TypeInv
<1>1. CASE UNCHANGED vars
  BY <1>1 DEF SeqInv, Quiet, Busy, At, HandedOut, vars, shared
<1>2. ASSUME NEW s \in Slots,
             \A t \in Slots : t = s \/ (hd[t] = Idle /\ hd'[t] = Idle),
             hd'[s].pc # "idle", SeqOK(hd'[s], seqs'),
             rnd'.fresh = Cardinality(HandedOut') + Account(hd'[s])
      PROVE  SeqInv'
  <2>1. ~Quiet'
    BY <1>2 DEF Quiet, Busy, At
  <2>. QED
    BY <1>0, <1>2, <2>1 DEF SeqInv
<1>3. ASSUME NEW s \in Slots, Handle(s) PROVE SeqInv'
  <2>1. \A t \in Slots : t = s \/ (hd[t] = Idle /\ hd'[t] = Idle)
    BY <1>3, MovesAlone
  <2>2. hd[s].pc # "idle" /\ hd'[s].pc # "idle"
    BY <1>3, HandleSplit, EarlySteps, PatchStep, VibrateStep, DecodeStep,
       AppendRecordStep, MarkStep DEF EarlyStages
  <2>3. /\ rnd.fresh = Cardinality(HandedOut) + Account(hd[s])
        /\ SeqOK(hd[s], seqs) /\ FreshOK(hd[s], rnd, records)
    BY <2>2 DEF SeqInv, FreshInv
  <2>4. CASE Early(s)
    <3>1. SeqOK(hd'[s], seqs') /\ rnd'.fresh = Cardinality(HandedOut') + Account(hd'[s])
      BY <2>3, <2>4, EarlyAccounts DEF Unrefused
    <3>. QED
      BY <1>2, <2>1, <2>2, <3>1
  <2>5. CASE ~Early(s)
    <3>1. /\ hd[s].pc \in {"patch", "vibrate", "decode", "record", "mark"}
          /\ hd'[s].pc \in {"refuse", "abort", "vibrate", "decode", "record", "mark", "answer"}
          /\ rnd' = rnd /\ seqs' = seqs
      BY <1>3, <2>5, HandleSplit, PatchStep, VibrateStep, DecodeStep, AppendRecordStep, MarkStep
    <3>2. Account(hd[s]) = 0 /\ Account(hd'[s]) = 0 /\ SeqOK(hd'[s], seqs')
      BY <3>1 DEF Account, SeqOK
    <3>3. HandedOut' = HandedOut
      BY <3>1 DEF HandedOut
    <3>4. rnd'.fresh = Cardinality(HandedOut') + Account(hd'[s])
      BY <2>3, <3>1, <3>2, <3>3
    <3>. QED
      BY <1>2, <2>1, <2>2, <3>2, <3>4
  <2>. QED
    BY <2>4, <2>5
<1>4. ASSUME NEW s \in Slots, Reply(s) PROVE SeqInv'
  <2>1. \A t \in Slots : t = s \/ (hd[t] = Idle /\ hd'[t] = Idle)
    BY <1>4, MovesAlone
  <2>2. /\ hd[s].pc \in {"answer", "fixed", "refuse", "abort"} /\ hd'[s] = Idle
        /\ rnd' = rnd /\ seqs' = seqs
    BY <1>4, ReplyStep
  <2>3. Account(hd[s]) = 0
    BY <2>2 DEF Account
  <2>4. HandedOut' = HandedOut
    BY <2>2 DEF HandedOut
  <2>5. rnd.fresh = Cardinality(HandedOut) + 0
    BY <2>2, <2>3 DEF SeqInv
  <2>6. Cardinality(HandedOut) \in Nat
    BY <1>0, HandedOutFinite
  <2>7. rnd'.fresh = Cardinality(HandedOut')
    BY <2>2, <2>4, <2>5, <2>6
  <2>. QED
    BY <1>0, <2>1, <2>2, <2>7 DEF SeqInv
<1>5. ASSUME NEW s \in Slots, NEW u \in Urls, MayArrive, Arrive(s, u) PROVE SeqInv'
  <2>1. \A t \in Slots : t = s \/ (hd[t] = Idle /\ hd'[t] = Idle)
    BY <1>5, MovesAlone
  <2>2. /\ hd[s].pc = "idle" /\ hd'[s].pc = "match" /\ hd'[s].built = Idle.built
        /\ rnd' = rnd /\ seqs' = seqs
    BY <1>5, ArriveStep
  <2>3. Quiet
    BY <1>0, <2>1, <2>2 DEF Quiet, Busy, At
  <2>4. DOMAIN Idle.built = {}
    BY DEF Idle
  <2>5. SeqOK(hd'[s], seqs') /\ Account(hd'[s]) = 0
    BY <2>2, <2>4 DEF SeqOK, Account
  <2>6. HandedOut' = HandedOut /\ Cardinality(HandedOut) \in Nat
    BY <1>0, <2>2, HandedOutFinite DEF HandedOut
  <2>7. rnd'.fresh = Cardinality(HandedOut') + Account(hd'[s])
    BY <2>2, <2>3, <2>5, <2>6 DEF SeqInv
  <2>. QED
    BY <1>2, <2>1, <2>2, <2>5, <2>7
<1>6. ASSUME NEW v, InitVibration(v), MayInit PROVE SeqInv'
  <2>1. \A s \in Slots : hd[s].pc = "idle"
    BY <1>6 DEF MayInit, Busy, At
  <2>2. hd' = hd /\ seqs' = <<>> /\ rnd'.fresh = 0
    BY <1>6 DEF InitVibration
  <2>3. HandedOut' = {}
    BY <2>2 DEF HandedOut
  <2>4. Cardinality(HandedOut') = 0
    BY <2>3, FS_EmptySet
  <2>5. \A s \in Slots : hd'[s] = Idle
    BY <2>1, <2>2 DEF SerialInv
  <2>. QED
    BY <1>0, <2>2, <2>4, <2>5 DEF SeqInv
<1>. QED
  BY <1>1, <1>3, <1>4, <1>5, <1>6 DEF Next, Environment, InitExecution

(* What the generator has handed out follows from the sequence of           *)
(* invocations alone, when selectors fit: vibrate (ctrl.go) concludes from  *)
(* equal sequences of two runs that their responses carry the same values.  *)
(* A selector that fits no instance refuses the request after it has used   *)
(* up strings, and the sequence does not tell.                              *)
THEOREM SequenceExplainsValues ==
  ASSUME ~Overlap, ~Stragglers, SelectorsFit PROVE Spec => []SeqExplainsValues
<1>1. Init => SeqInv
  <2>. SUFFICES ASSUME Init PROVE SeqInv
    OBVIOUS
  <2>1. \A s \in Slots : hd[s] = Idle
    BY DEF Init
  <2>2. Idle.pc = "idle" /\ \A q : SeqOK(Idle, q)
    BY DEF Idle, SeqOK
  <2>3. HandedOut = {} /\ rnd.fresh = 0
    BY DEF Init, HandedOut, NoRnd
  <2>4. Cardinality(HandedOut) = 0
    BY <2>3, FS_EmptySet
  <2>. QED
    BY <2>1, <2>2, <2>3, <2>4 DEF SeqInv
<1>2. TypeInv /\ RunInv /\ Serial /\ SeqInv /\ [Next]_vars => SeqInv'
  BY SeqStep DEF Serial
<1>3. SeqInv => SeqExplainsValues
  BY DEF SeqInv, SeqExplainsValues
<1>. QED
  BY <1>1, <1>2, <1>3, TypeInvariant, RunInvariant, SerialInvariant, PTL DEF Spec

-------------------------------------------------------------------------------
(* What a response holds follows from its entry in srv.seqs and the strings *)
(* handed out before it, as long as no request has been refused.            *)

(* The strings of the entries of q before entry k, and those of the         *)
(* response of u up to cell c.                                              *)
HandedBefore(q, k) == UNION {{j} \X FreshCells(q[j].url) : j \in {x \in DOMAIN q : x < k}}
UpTo(u, c) == {d \in FreshCells(u) : Before(d, c)}

(* A value that is synthesized at cell c after n strings.                   *)
ValueAt(u, c, n, v) ==
  /\ Kind[LeafAt(u, c)] = "const" => v = Value("const", 0)
  /\ Kind[LeafAt(u, c)] = "fresh" => v = Value("fresh", n + Cardinality(UpTo(u, c)))
  /\ Kind[LeafAt(u, c)] = "time" => v.kind = "time"
BuiltAt(u, n, built) ==
  /\ DOMAIN built \subseteq Cells(u)
  /\ \A c \in DOMAIN built : ValueAt(u, c, n, built[c])
  /\ \A c \in DOMAIN built, d \in Cells(u) : Before(d, c) => d \in DOMAIN built

(* A body that instance m of the response of u gives after n strings, with  *)
(* the patch and, where it hits, the vibration w.                           *)
LeafValue(u, m, n, l, v) ==
  \E c \in Cells(u) : c[1] = m /\ LeafAt(u, c) = l /\ ValueAt(u, c, n, v)
BodyAt(u, m, n, patch, w, body) ==
  /\ DOMAIN body = Range(Instances[u][m]) \cup DOMAIN patch
  /\ \A l \in DOMAIN body :
       \/ Hits(w, u) /\ l = w.leaf
       \/ l \in DOMAIN patch /\ body[l] = patch[l]
       \/ l \notin DOMAIN patch /\ LeafValue(u, m, n, l, body[l])

(* A body of the k-th entry of q.                                           *)
Explains(q, k, patch, w, body) ==
  /\ k \in DOMAIN q
  /\ BodyAt(q[k].url, q[k].sel, Cardinality(HandedBefore(q, k)), patch, w, body)

Sequenced == {"patch", "vibrate", "decode", "record", "mark", "answer"}
HandlerExplained(h, q, n, w) ==
  /\ h.pc \in {"synth", "bump", "gen"} => BuiltAt(h.url, n, h.built)
  /\ h.pc = "seq" => BodyAt(h.url, Selected(h.url, h.ov), n, NoOverride.patch, None, h.body)
  /\ h.pc \in Sequenced =>
       /\ Len(q) > 0 /\ q[Len(q)] = SeqEntry(h)
       /\ IF h.pc = "patch" THEN Explains(q, Len(q), NoOverride.patch, None, h.body)
          ELSE Explains(q, Len(q), h.ov.patch, w, h.body)

ExplainedInv ==
  /\ SeqInv
  /\ \A s \in Slots : HandlerExplained(hd[s], seqs, Cardinality(HandedOut), vibration)

LEMMA HandedOutIs ==
  ASSUME seqs \in Seq(Entries)
  PROVE  HandedOut = HandedBefore(seqs, Len(seqs) + 1)
<1>1. {x \in DOMAIN seqs : x < Len(seqs) + 1} = DOMAIN seqs
  OBVIOUS
<1>. QED
  BY <1>1 DEF HandedOut, HandedBefore

LEMMA HandedBeforeStays ==
  ASSUME NEW q \in Seq(Entries), NEW e \in Entries, NEW k \in 1..(Len(q) + 1)
  PROVE  HandedBefore(Append(q, e), k) = HandedBefore(q, k)
<1>1. {x \in DOMAIN Append(q, e) : x < k} = {x \in DOMAIN q : x < k}
  OBVIOUS
<1>2. \A x \in DOMAIN q : Append(q, e)[x] = q[x]
  OBVIOUS
<1>. QED
  BY <1>1, <1>2 DEF HandedBefore

(* An entry explains its body whatever is appended after it.                *)
LEMMA ExplainsStays ==
  ASSUME NEW q \in Seq(Entries), NEW e \in Entries, NEW k, NEW patch, NEW w, NEW body,
         Explains(q, k, patch, w, body)
  PROVE  Explains(Append(q, e), k, patch, w, body)
<1>1. k \in 1..Len(q) /\ k \in 1..(Len(q) + 1) /\ k \in DOMAIN Append(q, e)
      /\ Append(q, e)[k] = q[k]
  BY DEF Explains
<1>2. HandedBefore(Append(q, e), k) = HandedBefore(q, k)
  BY <1>1, HandedBeforeStays
<1>. QED
  BY <1>1, <1>2 DEF Explains

(* In the order of the cells, the first that is not synthesized follows     *)
(* those that are.                                                          *)
LEMMA BuiltThenNext ==
  ASSUME NEW u \in DOMAIN Instances, NEW n, NEW built, BuiltAt(u, n, built),
         Cells(u) \ DOMAIN built # {}, NEW c, c = NextCell(u, built)
  PROVE  /\ c \in Cells(u) /\ c \notin DOMAIN built
         /\ \A d \in Cells(u) : Before(d, c) <=> d \in DOMAIN built \/ d = c
<1>1. c \in Cells(u) \ DOMAIN built /\ \A d \in Cells(u) \ DOMAIN built : Before(c, d)
  BY NextCellIsOpen
<1>2. \A d \in Cells(u) : d[1] \in Nat /\ d[2] \in Nat /\ d = <<d[1], d[2]>>
  BY CellsArePairs
<1>3. ASSUME NEW d \in Cells(u), Before(d, c), d \notin DOMAIN built PROVE d = c
  <2>1. Before(c, d)
    BY <1>1, <1>3
  <2>2. d[1] = c[1] /\ d[2] = c[2]
    BY <1>1, <1>2, <1>3, <2>1 DEF Before
  <2>. QED
    BY <1>1, <1>2, <2>2
<1>4. Before(c, c)
  BY <1>1, <1>2 DEF Before
<1>5. ASSUME NEW d \in DOMAIN built PROVE Before(d, c)
  <2>1. d \in Cells(u) /\ ~Before(c, d)
    BY <1>1 DEF BuiltAt
  <2>. QED
    BY <1>1, <1>2, <2>1 DEF Before
<1>. QED
  BY <1>1, <1>3, <1>4, <1>5

LEMMA BuiltGrows ==
  ASSUME NEW u \in DOMAIN Instances, NEW n, NEW built, BuiltAt(u, n, built),
         Cells(u) \ DOMAIN built # {}, NEW v, ValueAt(u, NextCell(u, built), n, v)
  PROVE  BuiltAt(u, n, Over([c \in {NextCell(u, built)} |-> v], built))
<1>. DEFINE c == NextCell(u, built)
            b == Over([x \in {c} |-> v], built)
<1>1. /\ c \in Cells(u) /\ c \notin DOMAIN built
      /\ \A d \in Cells(u) : Before(d, c) <=> d \in DOMAIN built \/ d = c
  BY BuiltThenNext
<1>2. ValueAt(u, c, n, v)
  OBVIOUS
<1>. HIDE DEF c
<1>3. /\ DOMAIN b = DOMAIN built \cup {c} /\ b[c] = v
      /\ \A d \in DOMAIN built : b[d] = built[d]
  BY <1>1 DEF Over
<1>. HIDE DEF b
<1>4. BuiltAt(u, n, b)
  BY <1>1, <1>2, <1>3 DEF BuiltAt
<1>. QED
  BY <1>4 DEF b, c

(* The response that is selected from what was synthesized.                 *)
LEMMA ResponseIsBody ==
  ASSUME NEW u \in DOMAIN Instances, NEW n, NEW built, BuiltAt(u, n, built),
         Cells(u) \subseteq DOMAIN built, NEW m \in DOMAIN Instances[u]
  PROVE  BodyAt(u, m, n, NoOverride.patch, None, Response(u, built, m))
<1>. DEFINE r == Response(u, built, m)
<1>1. DOMAIN NoOverride.patch = {} /\ ~Hits(None, u)
  BY DEF NoOverride, Hits
<1>2. DOMAIN r = Range(Instances[u][m])
  BY DEF Response
<1>3. ASSUME NEW l \in DOMAIN r PROVE LeafValue(u, m, n, l, r[l])
  <2>1. PICK c \in Cells(u) : c[1] = m /\ LeafAt(u, c) = l /\ r[l] = built[c]
    BY <1>3, ResponseCarries
  <2>2. ValueAt(u, c, n, built[c])
    BY <2>1 DEF BuiltAt
  <2>. QED
    BY <2>1, <2>2 DEF LeafValue
<1>. HIDE DEF r
<1>4. BodyAt(u, m, n, NoOverride.patch, None, r)
  BY <1>1, <1>2, <1>3 DEF BodyAt
<1>. QED
  BY <1>4 DEF r

(* A patch puts its values over a body, whatever is vibrated.               *)
LEMMA PatchedBody ==
  ASSUME NEW u, NEW m, NEW n, NEW body, BodyAt(u, m, n, NoOverride.patch, None, body),
         NEW patch, NEW w
  PROVE  BodyAt(u, m, n, patch, w, Over(patch, body))
<1>. DEFINE b == Over(patch, body)
<1>1. DOMAIN NoOverride.patch = {} /\ ~Hits(None, u)
  BY DEF NoOverride, Hits
<1>2. /\ DOMAIN body = Range(Instances[u][m])
      /\ \A l \in DOMAIN body : LeafValue(u, m, n, l, body[l])
  BY <1>1 DEF BodyAt
<1>3. /\ DOMAIN b = DOMAIN body \cup DOMAIN patch
      /\ \A l \in DOMAIN b : b[l] = IF l \in DOMAIN patch THEN patch[l] ELSE body[l]
  BY DEF Over
<1>. HIDE DEF b
<1>4. BodyAt(u, m, n, patch, w, b)
  BY <1>2, <1>3 DEF BodyAt
<1>. QED
  BY <1>4 DEF b

LEMMA VibratedBody ==
  ASSUME NEW u, NEW m, NEW n, NEW patch, NEW w, NEW body, BodyAt(u, m, n, patch, w, body),
         Hits(w, u), w.leaf \in DOMAIN body
  PROVE  BodyAt(u, m, n, patch, w, [body EXCEPT ![w.leaf] = w.value])
<1>. DEFINE b == [body EXCEPT ![w.leaf] = w.value]
<1>1. DOMAIN b = DOMAIN body /\ \A l \in DOMAIN body : l # w.leaf => b[l] = body[l]
  OBVIOUS
<1>. HIDE DEF b
<1>2. BodyAt(u, m, n, patch, w, b)
  BY <1>1 DEF BodyAt
<1>. QED
  BY <1>2 DEF b

(* One step of a handler up to its append to srv.seqs.                      *)
LEMMA EarlyExplained ==
  ASSUME TypeInv, NEW s \in Slots, Early(s), SeqOK(hd[s], seqs),
         rnd.fresh = Cardinality(HandedOut) + Account(hd[s]),
         HandlerExplained(hd[s], seqs, Cardinality(HandedOut), vibration)
  PROVE  HandlerExplained(hd'[s], seqs', Cardinality(HandedOut'), vibration')
<1>. DEFINE h == hd[s]
            g == hd'[s]
            n == Cardinality(HandedOut)
<1>0. /\ hd \in [Slots -> Handlers] /\ h \in Handlers /\ StageOK(h) /\ seqs \in Seq(Entries)
      /\ rnd \in [fresh : Nat, time : Nat] /\ n \in Nat
  BY HandedOutFinite DEF TypeInv
<1>. USE DEF shared, At, Sequenced
<1>1. ASSUME seqs' = seqs, g.pc \notin {"synth", "bump", "gen", "seq"} \cup Sequenced
      PROVE  HandlerExplained(g, seqs', Cardinality(HandedOut'), vibration')
  BY <1>1 DEF HandlerExplained
<1>2. ASSUME seqs' = seqs, g.pc \in {"synth", "bump", "gen"}, BuiltAt(g.url, n, g.built)
      PROVE  HandlerExplained(g, seqs', Cardinality(HandedOut'), vibration')
  <2>1. HandedOut' = HandedOut
    BY <1>2 DEF HandedOut
  <2>. QED
    BY <1>2, <2>1 DEF HandlerExplained
<1>3. CASE MatchOverride(s)
  <2>1. g.pc \in {"fixed", "expand"} /\ seqs' = seqs
    BY <1>0, <1>3 DEF MatchOverride, Handlers
  <2>. QED
    BY <1>1, <2>1
<1>4. CASE Expand(s) \/ CacheSave(s)
  <2>1. /\ h.pc \in {"expand", "save"} /\ g.pc \in {"refuse", "save", "synth"} /\ g.built = h.built
        /\ seqs' = seqs
    BY <1>0, <1>4 DEF Expand, CacheSave, Handlers
  <2>2. DOMAIN g.built = {}
    BY <2>1 DEF SeqOK
  <2>3. BuiltAt(g.url, n, g.built)
    BY <2>2 DEF BuiltAt
  <2>. QED
    BY <1>1, <1>2, <2>1, <2>3
<1>5. CASE SynthConst(s)
  <2>. DEFINE c == NextCell(h.url, h.built)
              v == Value("const", 0)
  <2>1. /\ h.pc = "synth" /\ g.pc = "synth" /\ g.url = h.url /\ h.url \in DOMAIN Instances
        /\ g.built = Over([x \in {c} |-> v], h.built)
        /\ Kind[LeafAt(h.url, c)] = "const" /\ Unfinished(h) /\ seqs' = seqs
    BY <1>0, <1>5 DEF SynthConst, Handlers, With, Leaf, StageOK, Found
  <2>2. ValueAt(h.url, c, n, v) /\ BuiltAt(h.url, n, h.built)
    BY <2>1 DEF ValueAt, HandlerExplained
  <2>. HIDE DEF v
  <2>. HIDE DEF c
  <2>3. BuiltAt(h.url, n, Over([x \in {c} |-> v], h.built))
    <3>1. Cells(h.url) \ DOMAIN h.built # {} /\ h.url \in DOMAIN Instances
      BY <2>1 DEF Unfinished
    <3>2. ValueAt(h.url, NextCell(h.url, h.built), n, v) /\ BuiltAt(h.url, n, h.built)
      BY <2>2 DEF c
    <3>. QED
      BY <3>1, <3>2, BuiltGrows DEF c
  <2>4. BuiltAt(g.url, n, g.built)
    BY <2>1, <2>3
  <2>. QED
    BY <1>2, <2>1, <2>4
<1>6. CASE SynthRead(s)
  <2>1. /\ h.pc = "synth" /\ g.pc = "bump" /\ g.url = h.url /\ g.built = h.built /\ seqs' = seqs
    BY <1>0, <1>6 DEF SynthRead, Handlers
  <2>. QED
    BY <1>2, <2>1 DEF HandlerExplained
<1>7. CASE SynthBump(s)
  <2>1. /\ h.pc = "bump" /\ g.pc = "gen" /\ g.url = h.url /\ g.built = h.built /\ seqs' = seqs
    BY <1>0, <1>7 DEF SynthBump, Handlers
  <2>. QED
    BY <1>2, <2>1 DEF HandlerExplained
<1>8. CASE SynthGen(s)
  <2>. DEFINE kind == Kind[Leaf(h)]
              c == NextCell(h.url, h.built)
              v == Value(kind, rnd[kind])
  <2>1. /\ h.pc = "gen" /\ g.pc = "synth" /\ g.url = h.url /\ h.url \in DOMAIN Instances
        /\ Unfinished(h) /\ g.built = Over([x \in {c} |-> v], h.built)
        /\ kind \in {"fresh", "time"} /\ seqs' = seqs
    BY <1>0, <1>8 DEF SynthGen, Handlers, StageOK, Found, With
  <2>2. BuiltAt(h.url, n, h.built)
    BY <2>1 DEF HandlerExplained
  <2>3. /\ c \in Cells(h.url) /\ c \notin DOMAIN h.built
        /\ \A d \in Cells(h.url) : Before(d, c) <=> d \in DOMAIN h.built \/ d = c
    BY <2>1, <2>2, BuiltThenNext DEF Unfinished
  <2>4. kind = Kind[LeafAt(h.url, c)]
    BY DEF Leaf
  <2>. HIDE DEF c, kind
  <2>5. kind = "fresh" => rnd.fresh = n + Cardinality(UpTo(h.url, c))
    <3>. SUFFICES ASSUME kind = "fresh" PROVE rnd.fresh = n + Cardinality(UpTo(h.url, c))
      OBVIOUS
    <3>1. c \in FreshCells(h.url)
      BY <2>3, <2>4 DEF FreshCells
    <3>2. UpTo(h.url, c) = Done(h) \cup {c} /\ c \notin Done(h)
      <4>1. FreshCells(h.url) \subseteq Cells(h.url)
        BY DEF FreshCells
      <4>. QED
        BY <2>3, <3>1, <4>1 DEF UpTo, Done
    <3>3. IsFiniteSet(Done(h)) /\ Cardinality(Done(h)) \in Nat
      BY <2>1, FreshCellsFinite DEF Done
    <3>4. Cardinality(UpTo(h.url, c)) = Cardinality(Done(h)) + 1
      BY <3>2, <3>3, FS_AddElement
    <3>5. Account(h) = Cardinality(Done(h)) + 1
      BY <2>1 DEF Account, kind
    <3>. QED
      BY <1>0, <3>3, <3>4, <3>5
  <2>6. ValueAt(h.url, c, n, v)
    BY <2>1, <2>4, <2>5 DEF ValueAt, Value
  <2>. HIDE DEF v
  <2>7. BuiltAt(h.url, n, Over([x \in {c} |-> v], h.built))
    <3>1. Cells(h.url) \ DOMAIN h.built # {} /\ h.url \in DOMAIN Instances
      BY <2>1 DEF Unfinished
    <3>2. ValueAt(h.url, NextCell(h.url, h.built), n, v) /\ BuiltAt(h.url, n, h.built)
      BY <2>2, <2>6 DEF c
    <3>. QED
      BY <3>1, <3>2, BuiltGrows DEF c
  <2>8. BuiltAt(g.url, n, g.built)
    BY <2>1, <2>7
  <2>. QED
    BY <1>2, <2>1, <2>8
<1>9. CASE Select(s)
  <2>. DEFINE m == Selected(h.url, h.ov)
  <2>1. /\ h.pc = "synth" /\ h.url \in DOMAIN Instances /\ ~Unfinished(h)
        /\ g.url = h.url /\ g.ov = h.ov
        /\ \/ g.pc = "refuse"
           \/ g.pc = "seq" /\ m # 0 /\ g.body = Response(h.url, h.built, m)
        /\ seqs' = seqs
    BY <1>0, <1>9 DEF Select, Handlers, StageOK, Found
  <2>2. CASE g.pc = "refuse"
    BY <1>1, <2>1, <2>2
  <2>3. CASE g.pc = "seq" /\ m # 0 /\ g.body = Response(h.url, h.built, m)
    <3>1. Cells(h.url) \subseteq DOMAIN h.built
      BY <2>1 DEF Unfinished
    <3>2. BuiltAt(h.url, n, h.built)
      BY <2>1 DEF HandlerExplained
    <3>3. m \in DOMAIN Instances[h.url]
      BY <2>1, <2>3, SelectedIsInstance
    <3>. HIDE DEF m
    <3>4. BodyAt(h.url, m, n, NoOverride.patch, None, g.body)
      BY <2>1, <2>3, <3>1, <3>2, <3>3, ResponseIsBody
    <3>5. HandedOut' = HandedOut
      BY <2>1 DEF HandedOut
    <3>. QED
      BY <2>1, <2>3, <3>4, <3>5 DEF HandlerExplained, m
  <2>. QED
    BY <2>1, <2>2, <2>3
<1>10. CASE AppendSeq(s)
  <2>. DEFINE e == SeqEntry(h)
              p == NoOverride.patch
  <2>1. /\ h.pc = "seq" /\ g.pc = "patch" /\ h.url \in DOMAIN Instances
        /\ g.url = h.url /\ g.ov = h.ov /\ g.body = h.body
        /\ Selected(h.url, h.ov) # 0
        /\ seqs' = Append(seqs, e)
    BY <1>0, <1>10 DEF AppendSeq, Handlers, StageOK, Found, SeqOK
  <2>2. e \in Entries
    <3>1. Selected(h.url, h.ov) \in DOMAIN Instances[h.url]
      BY <2>1, SelectedIsInstance
    <3>2. Instances[h.url] \in Seq(Seq(DOMAIN Kind))
      BY <2>1, InstancesAssumption
    <3>. QED
      BY <2>1, <3>1, <3>2 DEF SeqEntry, Entries
  <2>3. BodyAt(e.url, e.sel, n, p, None, h.body)
    BY <2>1 DEF HandlerExplained, SeqEntry
  <2>4. e = SeqEntry(g)
    BY <2>1 DEF SeqEntry
  <2>. HIDE DEF e, p
  <2>5. /\ Len(seqs') = Len(seqs) + 1 /\ Len(seqs') \in DOMAIN seqs'
        /\ seqs'[Len(seqs')] = e /\ Len(seqs') > 0
    BY <1>0, <2>1, <2>2
  <2>6. HandedBefore(seqs', Len(seqs')) = HandedOut
    <3>1. Len(seqs) + 1 \in 1..(Len(seqs) + 1)
      BY <1>0
    <3>. QED
      BY <1>0, <2>1, <2>2, <2>5, <3>1, HandedBeforeStays, HandedOutIs
  <2>7. Explains(seqs', Len(seqs'), p, None, g.body)
    BY <2>1, <2>3, <2>5, <2>6 DEF Explains
  <2>. QED
    BY <2>1, <2>4, <2>5, <2>7 DEF HandlerExplained, p
<1>. QED
  BY <1>3, <1>4, <1>5, <1>6, <1>7, <1>8, <1>9, <1>10 DEF Early

(* And after it.                                                            *)
LEMMA LateExplained ==
  ASSUME TypeInv, VibrationInv, NEW s \in Slots, Handle(s), ~Early(s), NEW n,
         HandlerExplained(hd[s], seqs, n, vibration)
  PROVE  /\ HandlerExplained(hd'[s], seqs', n, vibration')
         /\ hd[s].pc \in Sequenced /\ UNCHANGED <<seqs, rnd>>
<1>. DEFINE h == hd[s]
            g == hd'[s]
            e == SeqEntry(h)
            k == Len(seqs)
<1>. USE DEF Sequenced
<1>1. /\ h.pc \in Sequenced /\ UNCHANGED <<seqs, rnd, vibration>>
      /\ g.pc \in {"refuse", "abort", "vibrate", "decode", "record", "mark", "answer"}
  BY HandleSplit, PatchStep, VibrateStep, DecodeStep, AppendRecordStep, MarkStep
<1>2. g.url = h.url /\ g.ov = h.ov
  BY <1>1, KeepsRequest
<1>3. /\ k > 0 /\ seqs[k] = e /\ e.url = h.url /\ SeqEntry(g) = e
  BY <1>1, <1>2 DEF HandlerExplained, SeqEntry
<1>4. ASSUME g.pc \notin {"refuse", "abort"} PROVE Explains(seqs, k, h.ov.patch, vibration, g.body)
  <2>1. CASE Patch(s)
    <3>1. h.pc = "patch" /\ g.body = Over(h.ov.patch, h.body)
      BY <1>4, <2>1, PatchStep
    <3>2. Explains(seqs, k, NoOverride.patch, None, h.body)
      BY <3>1 DEF HandlerExplained
    <3>. QED
      BY <3>1, <3>2, PatchedBody DEF Explains
  <2>2. ASSUME h.pc # "patch" PROVE Explains(seqs, k, h.ov.patch, vibration, h.body)
    BY <1>1, <2>2 DEF HandlerExplained
  <2>3. CASE Vibrate(s)
    <3>1. /\ h.pc = "vibrate" /\ vibration.leaf \in DOMAIN h.body
          /\ g.body = [h.body EXCEPT ![vibration.leaf] = vibration.value]
      BY <1>4, <2>3, VibrateStep
    <3>2. Hits(vibration, h.url)
      BY <3>1 DEF VibrationInv
    <3>3. Explains(seqs, k, h.ov.patch, vibration, h.body)
      BY <2>2, <3>1
    <3>. QED
      BY <1>3, <3>1, <3>2, <3>3, VibratedBody DEF Explains
  <2>4. CASE Decode(s) \/ AppendRecord(s) \/ MarkVibration(s)
    <3>1. h.pc # "patch" /\ g.body = h.body
      BY <2>4, DecodeStep, AppendRecordStep, MarkStep
    <3>. QED
      BY <2>2, <3>1
  <2>. QED
    BY <2>1, <2>3, <2>4, HandleSplit
<1>. QED
  BY <1>1, <1>2, <1>3, <1>4 DEF HandlerExplained

LEMMA IdleExplained ==
  ASSUME NEW q, NEW n, NEW w, NEW h, h.pc \in {"idle", "match", "fixed", "refuse", "abort"}
  PROVE  HandlerExplained(h, q, n, w)
BY DEF HandlerExplained, Sequenced

(* The requests of a run, one by one.                                       *)
LEMMA ExplainedStep ==
  ASSUME ~Overlap, ~Stragglers, SelectorsFit \/ Unrefused', TypeInv, RunInv, VibrationInv,
         Serial, ExplainedInv,
         \/ UNCHANGED vars
         \/ \E s \in Slots : Handle(s) \/ Reply(s)
         \/ MayArrive /\ \E s \in Slots, u \in Urls : Arrive(s, u)
  PROVE  ExplainedInv'
<1>0. SerialInv /\ FreshInv /\ SeqInv /\ Idle.pc = "idle"
  BY DEF Serial, ExplainedInv, Idle
<1>1. SeqInv'
  <2>1. [Next]_vars
    BY DEF Next, Environment
  <2>. QED
    BY <1>0, <2>1, SeqStep
<1>2. CASE UNCHANGED vars
  <2>1. UNCHANGED <<hd, seqs, vibration>> /\ HandedOut' = HandedOut
    BY <1>2 DEF vars, shared, HandedOut
  <2>. QED
    BY <1>1, <2>1 DEF ExplainedInv
<1>3. ASSUME NEW s \in Slots,
             \A t \in Slots : t = s \/ (hd[t] = Idle /\ hd'[t] = Idle),
             HandlerExplained(hd'[s], seqs', Cardinality(HandedOut'), vibration')
      PROVE  ExplainedInv'
  BY <1>0, <1>1, <1>3, IdleExplained DEF ExplainedInv
<1>4. ASSUME NEW s \in Slots, Handle(s) PROVE ExplainedInv'
  <2>1. \A t \in Slots : t = s \/ (hd[t] = Idle /\ hd'[t] = Idle)
    BY <1>0, <1>4, MovesAlone
  <2>2. HandlerExplained(hd[s], seqs, Cardinality(HandedOut), vibration)
    BY DEF ExplainedInv
  <2>3. CASE Early(s)
    <3>1. hd[s].pc # "idle"
      BY <2>3, EarlySteps DEF EarlyStages
    <3>2. SeqOK(hd[s], seqs) /\ rnd.fresh = Cardinality(HandedOut) + Account(hd[s])
      BY <1>0, <3>1 DEF SeqInv
    <3>. QED
      BY <1>3, <2>1, <2>2, <2>3, <3>2, EarlyExplained
  <2>4. CASE ~Early(s)
    <3>1. /\ HandlerExplained(hd'[s], seqs', Cardinality(HandedOut), vibration')
          /\ seqs' = seqs
      BY <1>4, <2>2, <2>4, LateExplained
    <3>2. HandedOut' = HandedOut
      BY <3>1 DEF HandedOut
    <3>. QED
      BY <1>3, <2>1, <3>1, <3>2
  <2>. QED
    BY <2>3, <2>4
<1>5. ASSUME NEW s \in Slots, Reply(s) PROVE ExplainedInv'
  <2>1. \A t \in Slots : t = s \/ (hd[t] = Idle /\ hd'[t] = Idle)
    BY <1>0, <1>5, MovesAlone
  <2>2. hd'[s].pc = "idle"
    BY <1>0, <1>5, ReplyStep
  <2>. QED
    BY <1>3, <2>1, <2>2, IdleExplained
<1>6. ASSUME NEW s \in Slots, NEW u \in Urls, MayArrive, Arrive(s, u) PROVE ExplainedInv'
  <2>1. \A t \in Slots : t = s \/ (hd[t] = Idle /\ hd'[t] = Idle)
    BY <1>0, <1>6, MovesAlone
  <2>2. hd'[s].pc = "match"
    BY <1>6, ArriveStep
  <2>. QED
    BY <1>3, <2>1, <2>2, IdleExplained
<1>. QED
  BY <1>2, <1>4, <1>5, <1>6

(* A new run starts with an empty sequence.                                 *)
LEMMA ExplainedStart ==
  ASSUME SerialInv, \A s \in Slots : hd[s].pc = "idle", NEW v, InitVibration(v)
  PROVE  ExplainedInv'
<1>1. /\ \A s \in Slots : hd'[s] = Idle
      /\ seqs' = <<>> /\ rnd'.fresh = 0
  BY DEF InitVibration, SerialInv
<1>2. Idle.pc = "idle" /\ \A q : SeqOK(Idle, q)
  BY DEF Idle, SeqOK
<1>3. HandedOut' = {}
  BY <1>1 DEF HandedOut
<1>4. Cardinality(HandedOut') = 0
  BY <1>3, FS_EmptySet
<1>5. SeqInv'
  BY <1>1, <1>2, <1>4 DEF SeqInv
<1>. QED
  BY <1>1, <1>2, <1>5, IdleExplained DEF ExplainedInv

(* srv.seqs grows by the request and the instance of the handler that moves.*)
LEMMA SequenceGrows ==
  ASSUME TypeInv, SeqInv, NEW s \in Slots, Handle(s)
  PROVE  \/ UNCHANGED seqs
         \/ /\ hd[s].pc = "seq" /\ seqs' = Append(seqs, SeqEntry(hd[s]))
            /\ SeqEntry(hd[s]) \in Entries /\ SeqEntry(hd[s]).url = hd[s].url
<1>. DEFINE h == hd[s]
<1>1. CASE AppendSeq(s)
  <2>1. /\ h.pc = "seq" /\ h.url \in DOMAIN Instances /\ Selected(h.url, h.ov) # 0
        /\ seqs' = Append(h.snap, SeqEntry(h)) /\ h.snap = seqs
    BY <1>1 DEF AppendSeq, At, TypeInv, StageOK, Found, SeqInv, SeqOK
  <2>2. Selected(h.url, h.ov) \in DOMAIN Instances[h.url]
    BY <2>1, SelectedIsInstance
  <2>3. Instances[h.url] \in Seq(Seq(DOMAIN Kind))
    BY <2>1, InstancesAssumption
  <2>4. SeqEntry(h) \in Entries /\ SeqEntry(h).url = h.url
    BY <2>1, <2>2, <2>3 DEF SeqEntry, Entries
  <2>. QED
    BY <2>1, <2>4
<1>2. CASE ~AppendSeq(s)
  BY <1>2 DEF Handle, shared, MatchOverride, Expand, CacheSave, SynthConst, SynthRead, SynthBump,
     SynthGen, Select, Patch, Vibrate, Decode, AppendRecord, MarkVibration
<1>. QED
  BY <1>1, <1>2

(* Two bodies of one entry, one of them not vibrated, differ at the         *)
(* vibrated leaf and where they tell the time.                              *)
LEMMA ExplainedAlike ==
  ASSUME NEW q \in Seq(Entries), NEW k, NEW patch, NEW w, NEW body, NEW plain,
         Explains(q, k, patch, w, body), Explains(q, k, patch, None, plain)
  PROVE  /\ DOMAIN body = DOMAIN plain
         /\ \A l \in DOMAIN body :
              \/ body[l] = plain[l]
              \/ Hits(w, q[k].url) /\ l = w.leaf
              \/ l \in DOMAIN Kind /\ Kind[l] = "time" /\ plain[l].kind = "time"
<1>. DEFINE u == q[k].url
            m == q[k].sel
<1>1. PICK n : BodyAt(u, m, n, patch, w, body) /\ BodyAt(u, m, n, patch, None, plain)
  BY DEF Explains
<1>2. u \in DOMAIN Instances /\ m \in DOMAIN Instances[u]
  BY DEF Explains, Entries
<1>3. Instances[u][m] \in Seq(DOMAIN Kind) /\ IsInjective(Instances[u][m])
  BY <1>2, InstancesAssumption
<1>. HIDE DEF u, m
<1>4. ~Hits(None, u)
  BY DEF Hits
<1>5. ASSUME NEW l, NEW v, NEW x, LeafValue(u, m, n, l, v), LeafValue(u, m, n, l, x)
      PROVE  v = x \/ (l \in DOMAIN Kind /\ Kind[l] = "time" /\ x.kind = "time")
  <2>1. PICK c \in Cells(u) : c[1] = m /\ LeafAt(u, c) = l /\ ValueAt(u, c, n, v)
    BY <1>5 DEF LeafValue
  <2>2. PICK d \in Cells(u) : d[1] = m /\ LeafAt(u, d) = l /\ ValueAt(u, d, n, x)
    BY <1>5 DEF LeafValue
  <2>3. /\ c = <<c[1], c[2]>> /\ d = <<d[1], d[2]>>
        /\ c[2] \in DOMAIN Instances[u][m] /\ d[2] \in DOMAIN Instances[u][m]
    BY <2>1, <2>2 DEF Cells
  <2>4. c = d
    BY <1>3, <2>1, <2>2, <2>3 DEF LeafAt, IsInjective
  <2>5. l \in DOMAIN Kind /\ Kind[l] \in {"fresh", "time", "const"}
    BY <1>3, <2>1, <2>3, KindAssumption DEF LeafAt
  <2>. QED
    BY <2>1, <2>2, <2>4, <2>5 DEF ValueAt
<1>6. ASSUME NEW l \in DOMAIN body
      PROVE  \/ body[l] = plain[l]
             \/ Hits(w, u) /\ l = w.leaf
             \/ l \in DOMAIN Kind /\ Kind[l] = "time" /\ plain[l].kind = "time"
  BY <1>1, <1>4, <1>5 DEF BodyAt
<1>. QED
  BY <1>1, <1>6 DEF BodyAt, u
===============================================================================
