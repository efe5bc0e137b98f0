----------------------------- MODULE BridgeProofs -----------------------------
(***************************************************************************)
(* Proofs about Bridge, for any executions, programs, responses and options *)
(* and any number of handlers: it implements CtrlRun and is an environment  *)
(* that MockServer allows, so that what is proved of these two holds in it. *)
(***************************************************************************)
EXTENDS Bridge, TLAPS

(* What is proved of the mock server.                                       *)
MP == INSTANCE MockServerProofs WITH Undefined <- Nil

-------------------------------------------------------------------------------
(* M and MP are the same server.                                            *)

LEMMA SameInit == M!Init => MP!Init
BY Zenon DEF M!Init, MP!Init, M!NoRnd, MP!NoRnd, M!Idle, MP!Idle, M!NoOverride, MP!NoOverride

LEMMA SameArrive == ASSUME NEW s, NEW u, M!Arrive(s, u) PROVE MP!Arrive(s, u)
BY Zenon DEF M!Arrive, MP!Arrive, M!Idle, MP!Idle, M!NoOverride, MP!NoOverride, M!At, MP!At,
             M!shared, MP!shared

LEMMA SameInitVibration == ASSUME NEW v, M!InitVibration(v) PROVE MP!InitVibration(v)
BY Zenon DEF M!InitVibration, MP!InitVibration

LEMMA SameReply ==
  ASSUME NEW s
  PROVE  /\ M!Answer(s) => MP!Answer(s)
         /\ M!AnswerFixed(s) => MP!AnswerFixed(s)
         /\ M!Refuse(s) => MP!Refuse(s)
BY Zenon DEF M!Answer, MP!Answer, M!AnswerFixed, MP!AnswerFixed, M!Refuse, MP!Refuse,
             M!Release, MP!Release, M!Idle, MP!Idle, M!NoOverride, MP!NoOverride, M!At, MP!At,
             M!shared, MP!shared
LEMMA SameEarly ==
  ASSUME NEW s
  PROVE  /\ M!MatchOverride(s) => MP!MatchOverride(s)
         /\ M!Expand(s) => MP!Expand(s)
         /\ M!CacheSave(s) => MP!CacheSave(s)
<1>1. M!MatchOverride(s) => MP!MatchOverride(s)
  BY Zenon DEF M!MatchOverride, MP!MatchOverride, M!Match, MP!Match, M!Modified, MP!Modified,
               M!NoOverride, MP!NoOverride, M!At, MP!At, M!shared, MP!shared, M!ghosts, MP!ghosts
<1>2. M!Expand(s) => MP!Expand(s)
  BY Zenon DEF M!Expand, MP!Expand, M!CacheHit, MP!CacheHit, M!At, MP!At, M!shared, MP!shared,
               M!ghosts, MP!ghosts
<1>3. M!CacheSave(s) => MP!CacheSave(s)
  BY Zenon DEF M!CacheSave, MP!CacheSave, M!Over, MP!Over, M!At, MP!At, M!ghosts, MP!ghosts
<1>. QED
  BY <1>1, <1>2, <1>3

LEMMA SameSynth ==
  ASSUME NEW s
  PROVE  /\ M!SynthConst(s) => MP!SynthConst(s)
         /\ M!SynthRead(s) => MP!SynthRead(s)
         /\ M!SynthBump(s) => MP!SynthBump(s)
         /\ M!SynthGen(s) => MP!SynthGen(s)
<1>. USE DEF M!Unfinished, MP!Unfinished, M!Leaf, MP!Leaf, M!Cells, MP!Cells,
             M!NextCell, MP!NextCell, M!LeafAt, MP!LeafAt, M!Before, MP!Before,
             M!At, MP!At, M!shared, MP!shared, M!ghosts, MP!ghosts
<1>1. M!SynthConst(s) => MP!SynthConst(s)
  BY Zenon DEF M!SynthConst, MP!SynthConst, M!With, MP!With, M!Over, MP!Over, M!Value, MP!Value
<1>2. M!SynthRead(s) => MP!SynthRead(s)
  BY Zenon DEF M!SynthRead, MP!SynthRead
<1>3. M!SynthBump(s) => MP!SynthBump(s)
  BY Zenon DEF M!SynthBump, MP!SynthBump
<1>4. M!SynthGen(s) => MP!SynthGen(s)
  BY Zenon DEF M!SynthGen, MP!SynthGen, M!With, MP!With, M!Over, MP!Over, M!Value, MP!Value
<1>. QED
  BY <1>1, <1>2, <1>3, <1>4

LEMMA SameSelected == ASSUME NEW u, NEW ov PROVE M!Selected(u, ov) = MP!Selected(u, ov)
BY Zenon DEF M!Selected, MP!Selected, M!Cardinality, MP!Cardinality, M!IsFiniteSet, MP!IsFiniteSet

LEMMA SameResponse ==
  ASSUME NEW u, NEW built, NEW m PROVE M!Response(u, built, m) = MP!Response(u, built, m)
BY Zenon DEF M!Response, MP!Response, M!Range, MP!Range, M!Cells, MP!Cells, M!LeafAt, MP!LeafAt

LEMMA SameLate ==
  ASSUME NEW s
  PROVE  /\ M!Select(s) => MP!Select(s)
         /\ M!AppendSeq(s) => MP!AppendSeq(s)
         /\ M!Patch(s) => MP!Patch(s)
         /\ M!Vibrate(s) => MP!Vibrate(s)
         /\ M!Decode(s) => MP!Decode(s)
         /\ M!AppendRecord(s) => MP!AppendRecord(s)
         /\ M!MarkVibration(s) => MP!MarkVibration(s)
<1>. USE DEF M!At, MP!At, M!shared, MP!shared, M!ghosts, MP!ghosts
<1>1. M!Select(s) => MP!Select(s)
  BY SameSelected, SameResponse, Zenon
     DEF M!Select, MP!Select, M!Unfinished, MP!Unfinished, M!Cells, MP!Cells,
         M!Idle, MP!Idle, M!NoOverride, MP!NoOverride
<1>2. M!AppendSeq(s) => MP!AppendSeq(s)
  BY SameSelected, Zenon DEF M!AppendSeq, MP!AppendSeq, M!SeqEntry, MP!SeqEntry
<1>3. M!Patch(s) => MP!Patch(s)
  BY Zenon DEF M!Patch, MP!Patch, M!Hits, MP!Hits, M!Over, MP!Over
<1>4. M!Vibrate(s) => MP!Vibrate(s)
  BY Zenon DEF M!Vibrate, MP!Vibrate
<1>5. M!Decode(s) => MP!Decode(s)
  BY Zenon DEF M!Decode, MP!Decode
<1>6. M!AppendRecord(s) => MP!AppendRecord(s)
  BY Zenon DEF M!AppendRecord, MP!AppendRecord, M!RecordOf, MP!RecordOf, M!Position, MP!Position
<1>7. M!MarkVibration(s) => MP!MarkVibration(s)
  BY Zenon DEF M!MarkVibration, MP!MarkVibration, M!RecordOf, MP!RecordOf, M!Position, MP!Position
<1>. QED
  BY <1>1, <1>2, <1>3, <1>4, <1>5, <1>6, <1>7

LEMMA SameHandle == ASSUME NEW s, M!Handle(s) PROVE MP!Handle(s)
BY SameEarly, SameSynth, SameLate, Zenon DEF M!Handle, MP!Handle
-------------------------------------------------------------------------------
(* The types of the server's state, kept by its actions.                    *)

LEMMA ServerConstants ==
  /\ MP!BooleanAssumption /\ MP!InstancesAssumption /\ MP!KindAssumption
  /\ MP!OverridesAssumption /\ MP!UserValuesAssumption /\ MP!TimesAssumption
  /\ MP!BoundsAssumption
BY ServerAssumption, Zenon DEF M!IsInjective, MP!IsInjective

LEMMA SameNext == M!Next => MP!Next
<1>. SUFFICES ASSUME M!Next PROVE MP!Next
  OBVIOUS
<1>1. ASSUME NEW s \in Slots, M!Handle(s) PROVE MP!Next
  BY <1>1, SameHandle DEF MP!Next
<1>2. ASSUME NEW s \in Slots, M!Reply(s) PROVE MP!Next
  BY <1>2, SameReply DEF MP!Next, M!Reply, MP!Reply
<1>3. ASSUME M!MayArrive, NEW s \in Slots, NEW u \in Urls, M!Arrive(s, u) PROVE MP!Next
  <2>1. MP!MayArrive
    BY <1>3 DEF M!MayArrive, MP!MayArrive, M!Busy, MP!Busy, M!At, MP!At
  <2>. QED
    BY <1>3, <2>1, SameArrive DEF MP!Next, MP!Environment
<1>4. M!MayInit => MP!MayInit
  BY DEF M!MayInit, MP!MayInit, M!Busy, MP!Busy, M!At, MP!At
<1>5. ASSUME M!MayInit, NEW ovs \in OverrideLists, M!InitExecution(ovs) PROVE MP!Next
  <2>1. MP!InitExecution(ovs)
    BY <1>5, SameInitVibration DEF M!InitExecution, MP!InitExecution
  <2>. QED
    BY <1>4, <1>5, <2>1 DEF MP!Next, MP!Environment
<1>6. ASSUME M!MayInit, run > 0, NEW v \in Vibrations, M!InitVibration(v), UNCHANGED overrides
      PROVE  MP!Next
  BY <1>4, <1>6, SameInitVibration DEF MP!Next, MP!Environment
<1>. QED
  BY <1>1, <1>2, <1>3, <1>5, <1>6 DEF M!Next, M!Environment

LEMMA ServerTypeInit == M!Init => MP!TypeInv
BY SameInit, MP!TypeInit, ServerConstants, Zenon

LEMMA ServerTypeStep == ASSUME MP!TypeInv, [M!Next]_(M!vars) PROVE MP!TypeInv'
<1>1. [MP!Next]_(MP!vars)
  BY SameNext DEF M!vars, MP!vars, M!shared, MP!shared
<1>. QED
  BY <1>1, MP!TypeStep, ServerConstants, Zenon

-------------------------------------------------------------------------------
(* The program's side.  c.waits: no two slots hold the same request, and    *)
(* none a request that has been answered.                                   *)
PartialFcns(S, T) == UNION {[D -> T] : D \in SUBSET S}
ChildTypes == [sent : Nat, waits : PartialFcns(Slots, Nat),
               bodies : PartialFcns(Nat, MP!Bodies), failed : BOOLEAN]
ChildOK(c) ==
  /\ c \in ChildTypes
  /\ \A s \in DOMAIN c.waits : /\ c.waits[s] \in 1..c.sent
                              /\ c.waits[s] \notin DOMAIN c.bodies
  /\ \A s, t \in DOMAIN c.waits : c.waits[s] = c.waits[t] => s = t
  /\ DOMAIN c.bodies \subseteq 1..c.sent

LEMMA AddPartial ==
  ASSUME NEW S, NEW T, NEW f \in PartialFcns(S, T), NEW x \in S, NEW v \in T
  PROVE  Add(f, x, v) \in PartialFcns(S, T)
<1>1. PICK D \in SUBSET S : f \in [D -> T]
  BY DEF PartialFcns
<1>2. Add(f, x, v) \in [D \cup {x} -> T] /\ D \cup {x} \in SUBSET S
  BY <1>1 DEF Add
<1>. QED
  BY <1>2 DEF PartialFcns

LEMMA RemovePartial ==
  ASSUME NEW S, NEW T, NEW f \in PartialFcns(S, T), NEW x
  PROVE  Remove(f, x) \in PartialFcns(S, T)
<1>1. PICK D \in SUBSET S : f \in [D -> T]
  BY DEF PartialFcns
<1>2. Remove(f, x) \in [D \ {x} -> T] /\ D \ {x} \in SUBSET S
  BY <1>1 DEF Remove
<1>. QED
  BY <1>2 DEF PartialFcns

LEMMA PartialIs ==
  ASSUME NEW S, NEW T, NEW f \in PartialFcns(S, T)
  PROVE  DOMAIN f \subseteq S /\ \A x \in DOMAIN f : f[x] \in T
BY DEF PartialFcns

LEMMA NoFunctionPartial == ASSUME NEW S, NEW T PROVE NoFunction \in PartialFcns(S, T)
<1>1. NoFunction \in [{} -> T] /\ {} \in SUBSET S
  BY DEF NoFunction
<1>. QED
  BY <1>1 DEF PartialFcns

LEMMA NewChildOK == ChildOK(NewChild) /\ DOMAIN NewChild.waits = {} /\ NewChild.sent = 0
<1>1. NewChild \in ChildTypes
  BY NoFunctionPartial DEF NewChild, ChildTypes
<1>. QED
  BY <1>1 DEF ChildOK, NewChild, NoFunction

(* A request is sent in a free slot.                                        *)
LEMMA SendKeepsChild ==
  ASSUME NEW c, ChildOK(c), NEW s \in Slots, s \notin DOMAIN c.waits,
         NEW d, d = [c EXCEPT !.sent = @ + 1, !.waits = Add(@, s, c.sent + 1)]
  PROVE  /\ ChildOK(d) /\ d.sent = c.sent + 1 /\ DOMAIN d.waits = DOMAIN c.waits \cup {s}
         /\ d.bodies = c.bodies /\ d.failed = c.failed
<1>1. /\ c \in ChildTypes /\ c.sent \in Nat
      /\ c.waits \in PartialFcns(Slots, Nat)
  BY DEF ChildOK, ChildTypes
<1>2. /\ d.sent = c.sent + 1 /\ d.waits = Add(c.waits, s, c.sent + 1)
      /\ d.bodies = c.bodies /\ d.failed = c.failed
  BY <1>1 DEF ChildTypes
<1>a. c.sent + 1 \in Nat
  BY <1>1
<1>b. Add(c.waits, s, c.sent + 1) \in PartialFcns(Slots, Nat)
  BY <1>1, <1>a, AddPartial
<1>c. /\ DOMAIN Add(c.waits, s, c.sent + 1) = DOMAIN c.waits \cup {s}
      /\ Add(c.waits, s, c.sent + 1)[s] = c.sent + 1
      /\ \A t \in DOMAIN c.waits : t # s => Add(c.waits, s, c.sent + 1)[t] = c.waits[t]
  BY DEF Add
<1>3. /\ d.waits \in PartialFcns(Slots, Nat)
      /\ DOMAIN d.waits = DOMAIN c.waits \cup {s}
      /\ d.waits[s] = c.sent + 1
      /\ \A t \in DOMAIN c.waits : t # s => d.waits[t] = c.waits[t]
  BY <1>2, <1>b, <1>c, Zenon
<1>4. d \in ChildTypes
  <2>. DEFINE W == Add(c.waits, s, c.sent + 1)
  <2>1. d = [c EXCEPT !.sent = c.sent + 1, !.waits = W]
    BY <1>1 DEF ChildTypes
  <2>2. W \in PartialFcns(Slots, Nat)
    BY <1>b
  <2>. HIDE DEF W
  <2>. QED
    BY <1>1, <1>a, <2>1, <2>2 DEF ChildTypes
<1>5. \A t \in DOMAIN d.waits : t = s \/ (t \in DOMAIN c.waits /\ d.waits[t] = c.waits[t])
  BY <1>3
<1>6. \A t \in DOMAIN c.waits : c.waits[t] \in 1..c.sent /\ c.waits[t] \notin DOMAIN c.bodies
  BY DEF ChildOK
<1>7. DOMAIN c.bodies \subseteq 1..c.sent
  BY DEF ChildOK
<1>8. \A t \in DOMAIN d.waits : d.waits[t] \in 1..d.sent /\ d.waits[t] \notin DOMAIN d.bodies
  BY <1>1, <1>2, <1>3, <1>5, <1>6, <1>7
<1>9. \A t, r \in DOMAIN d.waits : d.waits[t] = d.waits[r] => t = r
  BY <1>1, <1>3, <1>5, <1>6 DEF ChildOK
<1>10. DOMAIN d.bodies \subseteq 1..d.sent
  BY <1>1, <1>2, <1>7
<1>. QED
  BY <1>2, <1>3, <1>4, <1>8, <1>9, <1>10 DEF ChildOK

(* The slot s is free again: with an answer, without, or for a retry.       *)
LEMMA DropKeepsChild ==
  ASSUME NEW c, ChildOK(c), NEW s \in DOMAIN c.waits, NEW d,
         DOMAIN d = DOMAIN c,
         d \in [sent : Nat, waits : {Remove(c.waits, s)}, bodies : PartialFcns(Nat, MP!Bodies),
                failed : BOOLEAN],
         \/ d.sent = c.sent /\ DOMAIN d.bodies \subseteq DOMAIN c.bodies \cup {c.waits[s]}
         \/ c.waits[s] = c.sent /\ d.sent = c.sent - 1 /\ DOMAIN d.bodies = DOMAIN c.bodies
  PROVE  ChildOK(d) /\ DOMAIN d.waits = DOMAIN c.waits \ {s}
<1>1. /\ c \in ChildTypes /\ c.sent \in Nat /\ d.sent \in Nat
      /\ c.waits \in PartialFcns(Slots, Nat)
      /\ d.waits = Remove(c.waits, s)
  BY DEF ChildOK, ChildTypes
<1>2. /\ d.waits \in PartialFcns(Slots, Nat)
      /\ DOMAIN d.waits = DOMAIN c.waits \ {s}
      /\ \A t \in DOMAIN d.waits : d.waits[t] = c.waits[t]
  <2>1. Remove(c.waits, s) \in PartialFcns(Slots, Nat)
    BY <1>1, RemovePartial
  <2>2. /\ DOMAIN Remove(c.waits, s) = DOMAIN c.waits \ {s}
        /\ \A y \in DOMAIN c.waits : y # s => Remove(c.waits, s)[y] = c.waits[y]
    BY DEF Remove
  <2>. QED
    BY <1>1, <2>1, <2>2
<1>3. d \in ChildTypes
  BY <1>2 DEF ChildTypes
<1>4. /\ \A t \in DOMAIN c.waits : c.waits[t] \in 1..c.sent /\ c.waits[t] \notin DOMAIN c.bodies
      /\ DOMAIN c.bodies \subseteq 1..c.sent
      /\ \A t, r \in DOMAIN c.waits : c.waits[t] = c.waits[r] => t = r
  BY DEF ChildOK
<1>5. \A t \in DOMAIN d.waits : t # s /\ t \in DOMAIN c.waits /\ c.waits[t] # c.waits[s]
  BY <1>2, <1>4
<1>6. \A t, r \in DOMAIN d.waits : d.waits[t] = d.waits[r] => t = r
  BY <1>2, <1>4, <1>5
<1>7. \A t \in DOMAIN d.waits : d.waits[t] \in 1..d.sent /\ d.waits[t] \notin DOMAIN d.bodies
  BY <1>1, <1>2, <1>4, <1>5
<1>8. DOMAIN d.bodies \subseteq 1..d.sent
  BY <1>1, <1>4
<1>. QED
  BY <1>2, <1>3, <1>6, <1>7, <1>8 DEF ChildOK

(* A program that has every answer waits for none.                          *)
LEMMA CompleteWaitsForNone ==
  ASSUME NEW c, ChildOK(c), NEW n \in Nat, c.sent <= n, DOMAIN c.bodies = 1..n
  PROVE  DOMAIN c.waits = {}
<1>1. c.sent \in Nat
  BY DEF ChildOK, ChildTypes
<1>. QED
  BY <1>1 DEF ChildOK

-------------------------------------------------------------------------------
(* The inductive invariant.                                                 *)

(* How the stage of execute goes with the place of Run and the vibrations.  *)
Asks == stage \in {"run", "vrun"}
Places ==
  /\ pc \in {"start", "loop", "exec", "shutdown", "await", "exit"}
  /\ i \in 1..(N + 1)
  /\ pc = "exec" => i \in 1..N
  /\ stage \in {"idle", "init", "run", "vinit", "vrun", "link"}
  /\ stage # "idle" <=> pc = "exec"
  /\ stage \in {"idle", "init", "run"} => vi = 0
  /\ stage \in {"vinit", "vrun"} => vi \in 1..Len(Exec[i].vibs)
  /\ stage = "link" => vi = Len(Exec[i].vibs) + 1
  /\ lost \in 0..MaxLost

(* A slot the program waits for is busy; without stragglers, it waits for   *)
(* every busy one.                                                          *)
ChildInv ==
  /\ ChildOK(child)
  /\ \A s \in DOMAIN child.waits : hd[s].pc # "idle"
  /\ ~Stragglers => \A s \in Slots : hd[s].pc # "idle" => s \in DOMAIN child.waits
  /\ Asks => child.sent <= Len(Reqs)
  /\ ~Asks => DOMAIN child.waits = {}

(* The map holds properties the program prints and positions of the server. *)
MapInv ==
  /\ stage = "idle" => mm = NoFunction
  /\ stage # "idle" =>
       mm \in PartialFcns(DOMAIN Exec[i].app, (SUBSET (Pos \cup {Nil})) \ {{}})

-------------------------------------------------------------------------------
(* The steps, by what they do to execute.                                   *)
Ends ==
  /\ R!Fail \/ R!Crash \/ (R!Succeed(mm) /\ stage = "link" /\ ~R!HasNil(mm))
  /\ Stragglers \/ DOMAIN child.waits = {}
  /\ Ended /\ UNCHANGED <<srvVars, lost>>

StartBase ==
  /\ stage = "init" /\ stage' = "run" /\ child' = NewChild
  /\ M!InitExecution(Exec[i].ovs)
  /\ UNCHANGED <<ctrlVars, base, mm, vi, lost>>

StartVibrated ==
  /\ stage = "vinit" /\ stage' = "vrun" /\ child' = NewChild
  /\ M!InitVibration(Exec[i].vibs[vi])
  /\ UNCHANGED <<overrides, ctrlVars, base, mm, vi, lost>>

MapsBase ==
  /\ stage = "run" /\ Complete /\ DOMAIN child.waits = {}
  /\ mm' = MapByValue(AppModel(child.bodies))
  /\ base' = [app |-> AppModel(child.bodies), seq |-> seqs, bodies |-> child.bodies]
  /\ vi' = 1 /\ stage' = NextVibration(1)
  /\ UNCHANGED <<ctrlVars, srvVars, child, lost>>

(* What a comparison finds.                                                 *)
Found(m) ==
  \/ m = R!EmptyMap
  \/ /\ vibrationRecord # None /\ ~UnfitRecord /\ VibratedPosition # {}
     /\ seqs = base.seq /\ DOMAIN base.app = DOMAIN AppModel(child.bodies)
     /\ Cardinality(R!Differing(base.app, AppModel(child.bodies))) = 1
     /\ m = [a \in R!Differing(base.app, AppModel(child.bodies)) |-> VibratedPosition]
Adds(m) ==
  /\ stage = "vrun" /\ Complete /\ DOMAIN child.waits = {}
  /\ Found(m) /\ ~R!AddPanics(mm, m) /\ AddMap(m)

LEMMA CompleteIsDone ==
  ASSUME Places, ChildInv, Asks, Complete
  PROVE  DOMAIN child.waits = {}
<1>1. i \in 1..N
  BY DEF Places, Asks
<1>2. Reqs \in Seq(Urls)
  BY <1>1, ExecAssumption DEF Reqs
<1>3. Len(Reqs) \in Nat /\ DOMAIN child.bodies = 1..Len(Reqs)
  BY <1>2 DEF Complete
<1>4. ChildOK(child) /\ child.sent <= Len(Reqs)
  BY DEF ChildInv
<1>. HIDE DEF Reqs
<1>. QED
  BY <1>3, <1>4, CompleteWaitsForNone

LEMMA FailsEnds ==
  ASSUME Stragglers \/ DOMAIN child.waits = {}, Fails \/ Crashes PROVE Ends
BY DEF Fails, Crashes, Ends

LEMMA ExecuteSplit ==
  ASSUME Places, ChildInv, Execute
  PROVE  Ends \/ StartBase \/ StartVibrated \/ MapsBase \/ \E m : Adds(m)
<1>1. CASE Configure
  <2>1. stage = "init" /\ DOMAIN child.waits = {}
    BY <1>1 DEF Configure, ChildInv, Asks
  <2>. QED
    BY <1>1, <2>1, FailsEnds DEF Configure, StartBase
<1>2. CASE VibrateInit
  <2>1. stage = "vinit" /\ DOMAIN child.waits = {}
    BY <1>2 DEF VibrateInit, ChildInv, Asks
  <2>. QED
    BY <1>2, <2>1, FailsEnds DEF VibrateInit, StartVibrated
<1>3. CASE MapModels
  <2>1. stage = "run" /\ Complete /\ DOMAIN child.waits = {}
    BY <1>3, CompleteIsDone DEF MapModels, Asks
  <2>. QED
    BY <1>3, <2>1, FailsEnds DEF MapModels, MapsBase
<1>4. CASE Link
  <2>1. stage = "link" /\ DOMAIN child.waits = {}
    BY <1>4 DEF Link, ChildInv, Asks
  <2>2. CASE R!AddLinkFails(mm)
    BY <1>4, <2>1, <2>2, FailsEnds DEF Link
  <2>3. CASE ~R!AddLinkFails(mm)
    BY <1>4, <2>1, <2>3 DEF Link, Ends, R!AddLinkFails
  <2>. QED
    BY <2>2, <2>3
<1>5. CASE Compare
  <2>1. stage = "vrun" /\ Complete /\ DOMAIN child.waits = {}
    BY <1>5, CompleteIsDone DEF Compare, Asks
  <2>2. ASSUME NEW m, Found(m), AddOrPanic(m) PROVE Ends \/ Adds(m)
    BY <2>1, <2>2, FailsEnds DEF AddOrPanic, Adds
  <2>3. \/ Fails \/ Crashes
        \/ \E m : Found(m) /\ AddOrPanic(m)
    <3>. DEFINE app == AppModel(child.bodies)
                diff == R!Differing(base.app, app)
    <3>. HIDE DEF app
    <3>1. CASE seqs # base.seq \/ DOMAIN base.app # DOMAIN app
      BY <1>5, <3>1 DEF Compare, app
    <3>2. CASE seqs = base.seq /\ DOMAIN base.app = DOMAIN app /\ Cardinality(diff) # 1
      <4>1. AddOrPanic(R!EmptyMap)
        BY <1>5, <3>2 DEF Compare, app
      <4>. QED
        BY <4>1 DEF Found
    <3>3. CASE seqs = base.seq /\ DOMAIN base.app = DOMAIN app /\ Cardinality(diff) = 1
      <4>1. CASE vibrationRecord = None
        BY <1>5, <3>3, <4>1 DEF Compare, app
      <4>2. CASE vibrationRecord # None /\ UnfitRecord
        BY <1>5, <3>3, <4>2 DEF Compare, app
      <4>3. CASE vibrationRecord # None /\ ~UnfitRecord /\ VibratedPosition = {}
        BY <1>5, <3>3, <4>3 DEF Compare, app
      <4>4. CASE vibrationRecord # None /\ ~UnfitRecord /\ VibratedPosition # {}
        <5>1. AddOrPanic([a \in diff |-> VibratedPosition])
          BY <1>5, <3>3, <4>4 DEF Compare, app
        <5>2. Found([a \in diff |-> VibratedPosition])
          BY <3>3, <4>4 DEF Found, app
        <5>. QED
          BY <5>1, <5>2
      <4>. QED
        BY <4>1, <4>2, <4>3, <4>4
    <3>. QED
      BY <3>1, <3>2, <3>3
  <2>. QED
    BY <2>1, <2>2, <2>3, FailsEnds
<1>. QED
  BY <1>1, <1>2, <1>3, <1>4, <1>5 DEF Execute

LEMMA NextSplit ==
  ASSUME Places, ChildInv, [Next]_vars
  PROVE  \/ UNCHANGED vars
         \/ Ctrl \/ Launch \/ Serve
         \/ Ends \/ StartBase \/ StartVibrated \/ MapsBase
         \/ \E m : Adds(m)
         \/ Send \/ Abandon \/ Server
<1>1. CASE Execute
  BY <1>1, ExecuteSplit
<1>2. CASE GiveUp
  BY <1>2, FailsEnds DEF GiveUp
<1>. QED
  BY <1>1, <1>2 DEF Next, Program

-------------------------------------------------------------------------------
(* Places.                                                                  *)

LEMMA NextVibrationIs ==
  ASSUME Places, pc = "exec", NEW n \in 1..(Len(Exec[i].vibs) + 1)
  PROVE  /\ Len(Exec[i].vibs) \in Nat
         /\ \/ NextVibration(n) = "vinit" /\ n \in 1..Len(Exec[i].vibs)
            \/ NextVibration(n) = "link" /\ n = Len(Exec[i].vibs) + 1
<1>1. i \in 1..N
  BY DEF Places
<1>2. Exec[i].vibs \in Seq(Range(Exec[i].vibs))
  BY <1>1, ExecAssumption
<1>3. Len(Exec[i].vibs) \in Nat
  BY <1>2
<1>. QED
  BY <1>3 DEF NextVibration

LEMMA NextPlaces == ASSUME Places, ChildInv, [Next]_vars PROVE Places'
<1>. USE DEF ctrlVars, srvVars, exeVars
<1>0. N \in Nat /\ MaxLost \in Nat
  BY RunAssumption, LostAssumption
<1>1. CASE UNCHANGED vars
  BY <1>1 DEF Places, vars
<1>2. CASE Ctrl
  <2>1. /\ pc # "exec" /\ pc' # "exec"
        /\ pc' \in {"start", "loop", "exec", "shutdown", "await", "exit"}
        /\ \/ i' = i
           \/ i \in 1..N /\ i' = i + 1
    BY <1>2 DEF Ctrl, R!Start, R!SkipByWindow, R!SkipMarked, R!WriteResult, R!Shutdown,
                R!Finish, R!loopVars, R!Execs
  <2>2. i' \in 1..(N + 1)
    BY <1>0, <2>1 DEF Places
  <2>3. UNCHANGED <<stage, vi, lost>>
    BY <1>2 DEF Ctrl
  <2>. QED
    BY <2>1, <2>2, <2>3 DEF Places
<1>3. CASE Launch
  BY <1>3 DEF Launch, R!Launch, R!Execs, Places
<1>4. CASE Serve
  BY <1>4 DEF Serve, R!Serve, R!Bind, R!ServeReturns, R!CloseChannel, R!loopVars, Places
<1>5. CASE Ends
  <2>1. /\ pc = "exec" /\ pc' # "exec"
        /\ pc' \in {"start", "loop", "exec", "shutdown", "await", "exit"}
        /\ i' \in {i, i + 1}
    BY <1>5 DEF Ends, R!Fail, R!Crash, R!Succeed, R!loopVars
  <2>2. i' \in 1..(N + 1)
    BY <1>0, <2>1 DEF Places
  <2>3. stage' = "idle" /\ vi' = 0 /\ lost' = lost
    BY <1>5 DEF Ends, Ended
  <2>. QED
    BY <2>1, <2>2, <2>3 DEF Places
<1>6. CASE StartBase
  BY <1>6 DEF StartBase, Places
<1>7. CASE StartVibrated
  BY <1>7 DEF StartVibrated, Places
<1>8. CASE MapsBase
  <2>1. pc = "exec"
    BY <1>8 DEF MapsBase, Places
  <2>2. Len(Exec[i].vibs) \in Nat
    BY <2>1, ExecAssumption DEF Places
  <2>3. 1 \in 1..(Len(Exec[i].vibs) + 1)
    BY <2>2
  <2>4. \/ stage' = "vinit" /\ 1 \in 1..Len(Exec[i].vibs)
        \/ stage' = "link" /\ 1 = Len(Exec[i].vibs) + 1
    BY <1>8, <2>1, <2>3, NextVibrationIs DEF MapsBase
  <2>5. vi' = 1 /\ UNCHANGED <<pc, i, lost>>
    BY <1>8 DEF MapsBase
  <2>. QED
    BY <2>1, <2>4, <2>5 DEF Places
<1>9. ASSUME NEW m, Adds(m) PROVE Places'
  <2>1. pc = "exec" /\ vi \in 1..Len(Exec[i].vibs)
    BY <1>9 DEF Adds, Places
  <2>2. Len(Exec[i].vibs) \in Nat
    BY <2>1, ExecAssumption DEF Places
  <2>3. vi + 1 \in 1..(Len(Exec[i].vibs) + 1)
    BY <2>1, <2>2
  <2>4. \/ stage' = "vinit" /\ vi + 1 \in 1..Len(Exec[i].vibs)
        \/ stage' = "link" /\ vi + 1 = Len(Exec[i].vibs) + 1
    BY <1>9, <2>1, <2>3, NextVibrationIs DEF Adds, AddMap
  <2>5. vi' = vi + 1 /\ UNCHANGED <<pc, i, lost>>
    BY <1>9 DEF Adds, AddMap
  <2>. QED
    BY <2>1, <2>4, <2>5 DEF Places
<1>10. CASE Send \/ Abandon \/ Server
  <2>1. UNCHANGED <<stage, vi, pc, i>>
    BY <1>10 DEF Send, Abandon, Server
  <2>2. lost' = lost \/ (lost < MaxLost /\ lost' = lost + 1)
    BY <1>10 DEF Send, Abandon, Server, Answer, AnswerFixed, LoseAnswer, Error
  <2>3. lost' \in 0..MaxLost
    BY <1>0, <2>2 DEF Places
  <2>. QED
    BY <2>1, <2>3 DEF Places
<1>. QED
  BY <1>1, <1>2, <1>3, <1>4, <1>5, <1>6, <1>7, <1>8, <1>9, <1>10, NextSplit

-------------------------------------------------------------------------------
(* The program and the handlers.                                            *)

LEMMA HandlerMoves ==
  ASSUME MP!TypeInv, NEW s \in Slots, M!Handle(s)
  PROVE  /\ hd[s].pc # "idle" /\ hd'[s].pc # "idle" /\ UNCHANGED <<run, arrived>>
         /\ \A t \in Slots : t = s \/ hd'[t] = hd[t]
<1>1. MP!Handle(s)
  BY SameHandle
<1>2. hd' = [hd EXCEPT ![s] = hd'[s]]
  BY <1>1, MP!OneHandlerMoves, ServerConstants, Zenon
<1>3. hd[s].pc # "idle" /\ hd'[s].pc # "idle" /\ UNCHANGED <<run, arrived>>
  BY <1>1, MP!HandleStaysBusy, ServerConstants, Zenon
<1>4. \A t \in Slots : t = s \/ hd'[t] = hd[t]
  BY <1>2, MP!OthersStay, ServerConstants, Zenon
<1>. QED
  BY <1>3, <1>4

LEMMA ReplyMoves ==
  ASSUME MP!TypeInv, NEW s \in Slots, M!Answer(s) \/ M!AnswerFixed(s) \/ M!Refuse(s)
  PROVE  /\ hd'[s].pc = "idle" /\ UNCHANGED <<run, arrived>>
         /\ \A t \in Slots : t = s \/ hd'[t] = hd[t]
<1>1. MP!Reply(s)
  BY SameReply DEF MP!Reply
<1>2. hd' = [hd EXCEPT ![s] = hd'[s]]
  BY <1>1, MP!OneHandlerMoves, ServerConstants, Zenon
<1>3. hd'[s] = MP!Idle /\ UNCHANGED <<run, arrived>>
  BY <1>1, MP!ReplyStep, ServerConstants, Zenon
<1>4. \A t \in Slots : t = s \/ hd'[t] = hd[t]
  BY <1>2, MP!OthersStay, ServerConstants, Zenon
<1>. QED
  BY <1>3, <1>4 DEF MP!Idle

LEMMA ArriveMoves ==
  ASSUME MP!TypeInv, NEW s \in Slots, NEW u \in Urls, M!Arrive(s, u)
  PROVE  /\ hd[s].pc = "idle" /\ hd'[s].pc # "idle" /\ run' = run /\ arrived' = arrived + 1
         /\ \A t \in Slots : t = s \/ hd'[t] = hd[t]
<1>1. MP!Arrive(s, u)
  BY SameArrive
<1>2. hd[s].pc = "idle" /\ hd'[s].pc = "match" /\ run' = run
  BY <1>1, MP!ArriveStep, ServerConstants, Zenon
<1>3. hd' = [hd EXCEPT ![s] = hd'[s]]
  BY <1>1, MP!OneHandlerMoves, ServerConstants, Zenon
<1>4. \A t \in Slots : t = s \/ hd'[t] = hd[t]
  BY <1>3, MP!OthersStay, ServerConstants, Zenon
<1>5. arrived' = arrived + 1
  BY DEF M!Arrive
<1>. QED
  BY <1>2, <1>4, <1>5

(* What a reply makes of the program's side.                                *)
LEMMA BodyOfHandler ==
  ASSUME MP!TypeInv, NEW s \in Slots PROVE hd[s].body \in MP!Bodies /\ NoFunction \in MP!Bodies
<1>1. hd[s] \in MP!Handlers
  BY DEF MP!TypeInv
<1>2. NoFunction \in MP!Bodies
  <2>1. NoFunction \in [{} -> MP!Values]
    BY DEF NoFunction
  <2>. QED
    BY <2>1 DEF MP!Bodies, MP!PartialFcns
<1>. QED
  BY <1>1, <1>2 DEF MP!Handlers

LEMMA ReplyToKeepsChild ==
  ASSUME ChildOK(child), NEW s \in Slots, NEW body \in MP!Bodies, ReplyTo(s, body)
  PROVE  /\ ChildOK(child') /\ DOMAIN child'.waits = DOMAIN child.waits \ {s}
         /\ child'.sent = child.sent
<1>1. CASE ~Waiting(s)
  BY <1>1 DEF ReplyTo, Waiting
<1>2. CASE Waiting(s)
  <2>1. child \in ChildTypes /\ s \in DOMAIN child.waits /\ child.waits[s] \in Nat
    BY <1>2 DEF ChildOK, ChildTypes, Waiting
  <2>. DEFINE B == Add(child.bodies, child.waits[s], body)
              W == Remove(child.waits, s)
  <2>2. B \in PartialFcns(Nat, MP!Bodies)
    <3>1. child.bodies \in PartialFcns(Nat, MP!Bodies)
      BY <2>1 DEF ChildTypes
    <3>. QED
      BY <2>1, <3>1, AddPartial
  <2>3. DOMAIN B = DOMAIN child.bodies \cup {child.waits[s]}
    BY DEF Add
  <2>4. child' = [child EXCEPT !.bodies = B, !.waits = W]
    BY <1>2 DEF ReplyTo
  <2>. HIDE DEF B, W
  <2>5. /\ child'.sent = child.sent /\ child'.bodies = B /\ child'.waits = W
        /\ DOMAIN child' = DOMAIN child
    BY <2>1, <2>4 DEF ChildTypes
  <2>6. child' \in [sent : Nat, waits : {W}, bodies : PartialFcns(Nat, MP!Bodies),
                    failed : BOOLEAN]
    BY <2>1, <2>2, <2>4 DEF ChildTypes
  <2>7. ChildOK(child') /\ DOMAIN child'.waits = DOMAIN child.waits \ {s}
    BY <2>1, <2>3, <2>5, <2>6, DropKeepsChild DEF W
  <2>. QED
    BY <2>5, <2>7
<1>. QED
  BY <1>1, <1>2

LEMMA RetryKeepsChild ==
  ASSUME NEW c, ChildOK(c), NEW s \in DOMAIN c.waits, c.waits[s] = c.sent,
         NEW d, d = [c EXCEPT !.sent = @ - 1, !.waits = Remove(@, s)]
  PROVE  /\ ChildOK(d) /\ DOMAIN d.waits = DOMAIN c.waits \ {s}
         /\ d.sent = c.sent - 1 /\ d.bodies = c.bodies /\ d.failed = c.failed
<1>1. c \in ChildTypes /\ c.sent \in 1..c.sent /\ c.sent - 1 \in Nat
  BY DEF ChildOK, ChildTypes
<1>. DEFINE W == Remove(c.waits, s)
<1>2. d = [c EXCEPT !.sent = c.sent - 1, !.waits = W]
  BY <1>1 DEF ChildTypes
<1>. HIDE DEF W
<1>3. /\ d.sent = c.sent - 1 /\ d.bodies = c.bodies /\ d.failed = c.failed
      /\ DOMAIN d = DOMAIN c
  BY <1>1, <1>2 DEF ChildTypes
<1>4. d \in [sent : Nat, waits : {W}, bodies : PartialFcns(Nat, MP!Bodies),
             failed : BOOLEAN]
  BY <1>1, <1>2 DEF ChildTypes
<1>5. DOMAIN d.bodies = DOMAIN c.bodies
  BY <1>3
<1>6. ChildOK(d) /\ DOMAIN d.waits = DOMAIN c.waits \ {s}
  BY ONLY ChildOK(c), s \in DOMAIN c.waits, c.waits[s] = c.sent, <1>3, <1>4, <1>5,
          DropKeepsChild DEF W
<1>. QED
  BY <1>3, <1>6

LEMMA ErrorKeepsChild ==
  ASSUME NEW c, ChildOK(c), NEW s \in DOMAIN c.waits,
         NEW d, d = [c EXCEPT !.failed = TRUE, !.waits = Remove(@, s)]
  PROVE  /\ ChildOK(d) /\ DOMAIN d.waits = DOMAIN c.waits \ {s}
         /\ d.sent = c.sent
<1>1. c \in ChildTypes
  BY DEF ChildOK
<1>. DEFINE W == Remove(c.waits, s)
<1>2. d = [c EXCEPT !.failed = TRUE, !.waits = W]
  BY <1>1 DEF ChildTypes
<1>. HIDE DEF W
<1>3. /\ d.sent = c.sent /\ d.bodies = c.bodies
      /\ DOMAIN d = DOMAIN c
  BY <1>1, <1>2 DEF ChildTypes
<1>4. d \in [sent : Nat, waits : {W}, bodies : PartialFcns(Nat, MP!Bodies),
             failed : BOOLEAN]
  BY <1>1, <1>2 DEF ChildTypes
<1>5. DOMAIN d.bodies \subseteq DOMAIN c.bodies \cup {c.waits[s]}
  BY <1>3
<1>6. ChildOK(d) /\ DOMAIN d.waits = DOMAIN c.waits \ {s}
  BY ONLY ChildOK(c), s \in DOMAIN c.waits, <1>3, <1>4, <1>5, DropKeepsChild DEF W
<1>. QED
  BY <1>3, <1>6

(* What a handler does to the program's side.                               *)
Freed(s) == /\ hd'[s].pc = "idle" /\ ChildOK(child')
            /\ DOMAIN child'.waits = DOMAIN child.waits \ {s}
            /\ child'.sent <= child.sent
            /\ child'.sent + lost' = child.sent + lost

LEMMA ServerSplit ==
  ASSUME MP!TypeInv, Places, ChildInv, Server
  PROVE  \E s \in Slots :
           /\ \A t \in Slots : t = s \/ hd'[t] = hd[t]
           /\ UNCHANGED <<run, arrived>>
           /\ \/ hd[s].pc # "idle" /\ hd'[s].pc # "idle" /\ UNCHANGED <<child, lost>>
              \/ Freed(s)
<1>1. PICK s \in Slots : \/ M!Handle(s) /\ UNCHANGED <<child, lost>>
                         \/ Answer(s) \/ AnswerFixed(s) \/ LoseAnswer(s) \/ Error(s)
  BY DEF Server
<1>2. ChildOK(child) /\ child.sent \in Nat /\ lost \in Nat
  BY LostAssumption DEF ChildInv, ChildOK, ChildTypes, Places
<1>3. CASE M!Handle(s) /\ UNCHANGED <<child, lost>>
  BY <1>3, HandlerMoves
<1>4. CASE Answer(s) \/ AnswerFixed(s)
  <2>1. PICK body \in MP!Bodies : ReplyTo(s, body)
    BY <1>4, BodyOfHandler DEF Answer, AnswerFixed
  <2>2. lost' = lost /\ (M!Answer(s) \/ M!AnswerFixed(s))
    BY <1>4 DEF Answer, AnswerFixed
  <2>a. /\ ChildOK(child') /\ DOMAIN child'.waits = DOMAIN child.waits \ {s}
        /\ child'.sent = child.sent
    BY <1>2, <2>1, ReplyToKeepsChild
  <2>3. Freed(s)
    BY <1>2, <2>2, <2>a, ReplyMoves DEF Freed
  <2>. QED
    BY <2>2, <2>3, ReplyMoves
<1>5. CASE LoseAnswer(s)
  <2>1. /\ M!Answer(s) /\ lost' = lost + 1
        /\ s \in DOMAIN child.waits /\ child.waits[s] = child.sent
        /\ child' = [child EXCEPT !.sent = @ - 1, !.waits = Remove(@, s)]
    BY <1>5 DEF LoseAnswer, Waiting
  <2>a. /\ ChildOK(child') /\ DOMAIN child'.waits = DOMAIN child.waits \ {s}
        /\ child'.sent = child.sent - 1
    BY <1>2, <2>1, RetryKeepsChild
  <2>2. Freed(s)
    BY <1>2, <2>1, <2>a, ReplyMoves DEF Freed
  <2>. QED
    BY <2>1, <2>2, ReplyMoves
<1>6. CASE Error(s)
  <2>1. M!Refuse(s) /\ lost' = lost
    BY <1>6 DEF Error
  <2>2. /\ ChildOK(child') /\ DOMAIN child'.waits = DOMAIN child.waits \ {s}
        /\ child'.sent = child.sent
    <3>1. CASE s \in DOMAIN child.waits
      BY <1>2, <1>6, <3>1, ErrorKeepsChild DEF Error, Waiting
    <3>2. CASE s \notin DOMAIN child.waits
      BY <1>2, <1>6, <3>2 DEF Error, Waiting
    <3>. QED
      BY <3>1, <3>2
  <2>3. Freed(s)
    BY <1>2, <2>1, <2>2, ReplyMoves DEF Freed
  <2>. QED
    BY <2>1, <2>3, ReplyMoves
<1>. QED
  BY <1>1, <1>3, <1>4, <1>5, <1>6

LEMMA NextChild == ASSUME MP!TypeInv, Places, ChildInv, [Next]_vars PROVE ChildInv'
<1>. USE DEF ctrlVars, srvVars, exeVars
<1>1. CASE UNCHANGED vars
  BY <1>1 DEF ChildInv, Asks, Reqs, vars
<1>2. CASE Ctrl \/ Launch \/ Serve
  <2>1. \/ UNCHANGED <<hd, child>> /\ ~Asks /\ ~Asks'
        \/ UNCHANGED <<hd, child, stage, i>>
    BY <1>2 DEF Ctrl, Launch, Serve, R!Start, R!SkipByWindow, R!SkipMarked, R!Launch,
                R!WriteResult, R!Shutdown, R!Finish, R!Serve, R!Bind, R!ServeReturns,
                R!CloseChannel, R!loopVars, Places, Asks
  <2>. QED
    BY <2>1 DEF ChildInv, Asks, Reqs
<1>3. CASE Ends
  <2>1. child' = NewChild /\ hd' = hd /\ ~Asks'
    BY <1>3 DEF Ends, Ended, Asks
  <2>2. ~Stragglers => DOMAIN child.waits = {}
    BY <1>3 DEF Ends
  <2>. QED
    BY <2>1, <2>2, NewChildOK DEF ChildInv
<1>4. CASE StartBase \/ StartVibrated
  <2>1. child' = NewChild /\ hd' = hd /\ ~Asks /\ i' = i /\ pc = "exec"
    BY <1>4 DEF StartBase, StartVibrated, M!InitExecution, M!InitVibration, Asks, Places
  <2>2. Len(Exec[i].reqs) \in Nat
    BY <2>1, ExecAssumption DEF Places
  <2>. QED
    BY <2>1, <2>2, NewChildOK DEF ChildInv, Reqs
<1>5. CASE MapsBase \/ \E m : Adds(m)
  <2>1. child' = child /\ hd' = hd /\ DOMAIN child.waits = {} /\ stage' \in {"vinit", "link"}
    BY <1>5 DEF MapsBase, Adds, AddMap, NextVibration
  <2>. QED
    BY <2>1 DEF ChildInv, Asks
<1>6. CASE Send
  <2>1. PICK s \in Slots :
          /\ M!Arrive(s, Reqs[child.sent + 1])
          /\ child' = [child EXCEPT !.sent = @ + 1, !.waits = Add(@, s, child.sent + 1)]
    BY <1>6 DEF Send
  <2>2. /\ stage \in {"run", "vrun"} /\ child.sent < Len(Reqs) /\ child.sent \in Nat
        /\ UNCHANGED <<stage, i>>
    BY <1>6 DEF Send, Running, ChildInv, ChildOK, ChildTypes
  <2>3. Reqs \in Seq(Urls)
    BY <2>2, ExecAssumption DEF Reqs, Places
  <2>4. Reqs[child.sent + 1] \in Urls
    BY <2>2, <2>3
  <2>5. /\ hd[s].pc = "idle" /\ hd'[s].pc # "idle"
        /\ \A t \in Slots : t = s \/ hd'[t] = hd[t]
    BY <2>1, <2>4, ArriveMoves
  <2>6. s \notin DOMAIN child.waits /\ ChildOK(child)
    BY <2>5 DEF ChildInv
  <2>7. /\ ChildOK(child') /\ child'.sent = child.sent + 1
        /\ DOMAIN child'.waits = DOMAIN child.waits \cup {s}
    BY <2>1, <2>6, SendKeepsChild
  <2>8. DOMAIN child.waits \subseteq Slots
    BY <2>6, PartialIs DEF ChildOK, ChildTypes
  <2>9. Asks' /\ child'.sent <= Len(Reqs) /\ Reqs' = Reqs
    BY <2>2, <2>3, <2>7 DEF Asks, Reqs
  <2>. QED
    BY <2>5, <2>7, <2>8, <2>9 DEF ChildInv
<1>7. CASE Abandon
  <2>1. PICK s \in DOMAIN child.waits :
          /\ child.waits[s] = child.sent
          /\ child' = [child EXCEPT !.sent = @ - 1, !.waits = Remove(@, s)]
    BY <1>7 DEF Abandon
  <2>2. Stragglers /\ Asks /\ UNCHANGED <<hd, stage, i>>
    BY <1>7 DEF Abandon, Running, Asks
  <2>3. ChildOK(child) /\ child.sent <= Len(Reqs)
    BY <2>2 DEF ChildInv
  <2>4. /\ ChildOK(child') /\ child'.sent = child.sent - 1
        /\ DOMAIN child'.waits = DOMAIN child.waits \ {s}
    BY <2>1, <2>3, RetryKeepsChild
  <2>5. child.sent \in Nat /\ Len(Reqs) \in Nat
    BY <2>2, <2>3, ExecAssumption DEF ChildOK, ChildTypes, Reqs, Places, Asks
  <2>6. Asks' /\ child'.sent <= Len(Reqs) /\ Reqs' = Reqs
    BY <2>2, <2>3, <2>4, <2>5 DEF Asks, Reqs
  <2>. QED
    BY <2>2, <2>4, <2>6 DEF ChildInv
<1>8. CASE Server
  <2>1. PICK s \in Slots :
          /\ \A t \in Slots : t = s \/ hd'[t] = hd[t]
          /\ \/ hd[s].pc # "idle" /\ hd'[s].pc # "idle" /\ UNCHANGED <<child, lost>>
             \/ Freed(s)
    BY <1>8, ServerSplit
  <2>2. UNCHANGED <<stage, i>> /\ ChildOK(child)
    BY <1>8 DEF Server, ChildInv
  <2>3. Asks' = Asks /\ Reqs' = Reqs
    BY <2>2 DEF Asks, Reqs
  <2>4. DOMAIN child.waits \subseteq Slots
    BY <2>2, PartialIs DEF ChildOK, ChildTypes
  <2>5. CASE hd[s].pc # "idle" /\ hd'[s].pc # "idle" /\ UNCHANGED <<child, lost>>
    BY <2>1, <2>3, <2>4, <2>5 DEF ChildInv
  <2>6. CASE Freed(s)
    <3>1. Asks => child'.sent <= Len(Reqs)
      <4>. SUFFICES ASSUME Asks PROVE child'.sent <= Len(Reqs)
        OBVIOUS
      <4>1. Len(Reqs) \in Nat
        BY ExecAssumption DEF Reqs, Places, Asks
      <4>2. child.sent \in Nat /\ child'.sent \in Nat /\ child.sent <= Len(Reqs)
        BY <2>2, <2>6 DEF Freed, ChildOK, ChildTypes, ChildInv
      <4>. QED
        BY <2>6, <4>1, <4>2 DEF Freed
    <3>. QED
      BY <2>1, <2>3, <2>4, <2>6, <3>1 DEF ChildInv, Freed
  <2>. QED
    BY <2>1, <2>5, <2>6
<1>. QED
  BY <1>1, <1>2, <1>3, <1>4, <1>5, <1>6, <1>7, <1>8, NextSplit

-------------------------------------------------------------------------------
(* The mock server.                                                         *)

(* The bounds of MockServer leave room for what the executions do: B[j]     *)
(* calls of InitVibration for the first j of them, and the requests of a    *)
(* program with all its retries.                                            *)
Affords(B) ==
  /\ B \in [0..N -> 0..MaxRuns]
  /\ \A j \in 1..N : B[j - 1] + 1 + Len(Exec[j].vibs) <= B[j]
BoundsSuffice ==
  /\ \E B \in [0..N -> 0..MaxRuns] : Affords(B)
  /\ \A j \in 1..N : Len(Exec[j].reqs) + MaxLost <= MaxRequests

(* A program that retries a request while the server still handles it makes *)
(* overlapping requests.                                                    *)
RetriesOverlap == Stragglers => Overlap

(* The runs of the execution at hand.                                       *)
Spent == CASE stage \in {"idle", "init"} -> 0
           [] stage = "run" -> 1
           [] stage \in {"vinit", "link"} -> vi
           [] stage = "vrun" -> vi + 1
Counts(B) ==
  /\ stage \notin {"idle", "init"} => run > 0
  /\ pc # "exit" => run <= B[i - 1] + Spent
  /\ Asks => arrived <= child.sent + lost

LEMMA CountsTypes ==
  ASSUME MP!TypeInv, Places, ChildInv
  PROVE  /\ run \in Nat /\ arrived \in Nat /\ lost \in Nat /\ child.sent \in Nat
         /\ N \in Nat /\ MaxRuns \in Nat /\ MaxRequests \in Nat /\ MaxLost \in Nat
         /\ \A j \in 1..N : Len(Exec[j].vibs) \in Nat /\ Len(Exec[j].reqs) \in Nat
<1>1. MaxRuns \in Nat /\ MaxRequests \in Nat
  BY ServerAssumption
<1>2. N \in Nat /\ MaxLost \in Nat
  BY RunAssumption, LostAssumption
<1>3. run \in Nat /\ arrived \in Nat
  BY <1>1 DEF MP!TypeInv
<1>4. lost \in Nat /\ child.sent \in Nat
  BY <1>2 DEF Places, ChildInv, ChildOK, ChildTypes
<1>5. \A j \in 1..N : Len(Exec[j].vibs) \in Nat /\ Len(Exec[j].reqs) \in Nat
  BY ExecAssumption
<1>. QED
  BY <1>1, <1>2, <1>3, <1>4, <1>5

LEMMA SpentIs ==
  ASSUME Places, pc = "exec"
  PROVE  Spent \in 0..(Len(Exec[i].vibs) + 1) /\ (stage # "link" /\ ~Asks => Spent <= Len(Exec[i].vibs))
<1>1. Len(Exec[i].vibs) \in Nat
  BY ExecAssumption DEF Places
<1>2. stage # "idle"
  BY DEF Places
<1>3. CASE stage = "init"
  BY <1>1, <1>3 DEF Spent, Places
<1>4. CASE stage = "run"
  BY <1>1, <1>4 DEF Spent, Places, Asks
<1>5. CASE stage = "vinit"
  BY <1>1, <1>5 DEF Spent, Places
<1>6. CASE stage = "vrun"
  BY <1>1, <1>6 DEF Spent, Places, Asks
<1>7. CASE stage = "link"
  BY <1>1, <1>7 DEF Spent, Places
<1>. QED
  BY <1>2, <1>3, <1>4, <1>5, <1>6, <1>7 DEF Places

(* A request of the program comes when MockServer allows one.               *)
LEMMA SendIsAllowed ==
  ASSUME BoundsSuffice, RetriesOverlap, NEW B,
         MP!TypeInv, Places, ChildInv, Counts(B), Send
  PROVE  M!MayArrive /\ Reqs[child.sent + 1] \in Urls
<1>0. /\ run \in Nat /\ arrived \in Nat /\ lost \in Nat /\ child.sent \in Nat
      /\ MaxRuns \in Nat /\ MaxRequests \in Nat /\ MaxLost \in Nat
      /\ \A j \in 1..N : Len(Exec[j].vibs) \in Nat /\ Len(Exec[j].reqs) \in Nat
  BY CountsTypes
<1>1. Asks /\ i \in 1..N /\ child.sent < Len(Reqs) /\ (Overlap \/ DOMAIN child.waits = {})
  BY DEF Send, Running, Asks, Places
<1>2. Reqs \in Seq(Urls)
  BY <1>1, ExecAssumption DEF Reqs
<1>3. Reqs[child.sent + 1] \in Urls
  BY <1>0, <1>1, <1>2
<1>4. run > 0 /\ arrived < MaxRequests
  <2>1. Len(Reqs) + MaxLost <= MaxRequests /\ Len(Reqs) \in Nat
    BY <1>0, <1>1 DEF BoundsSuffice, Reqs
  <2>2. lost <= MaxLost
    BY DEF Places
  <2>3. run > 0 /\ arrived <= child.sent + lost
    BY <1>1 DEF Counts, Asks
  <2>. QED
    BY <1>0, <1>1, <2>1, <2>2, <2>3
<1>5. Overlap \/ \A t \in Slots : hd[t].pc = "idle"
  BY <1>1, ServerAssumption DEF RetriesOverlap, ChildInv
<1>. QED
  BY <1>3, <1>4, <1>5 DEF M!MayArrive, M!Busy, M!At

(* Every step of the bridge is one that MockServer allows.                  *)
LEMMA ServerStep ==
  ASSUME BoundsSuffice, RetriesOverlap, NEW B, Affords(B),
         MP!TypeInv, Places, ChildInv, Counts(B), [Next]_vars
  PROVE  [M!Next]_(M!vars)
<1>0. /\ run \in Nat /\ arrived \in Nat /\ lost \in Nat /\ child.sent \in Nat
      /\ MaxRuns \in Nat /\ MaxRequests \in Nat /\ MaxLost \in Nat
      /\ \A j \in 1..N : Len(Exec[j].vibs) \in Nat /\ Len(Exec[j].reqs) \in Nat
  BY CountsTypes
<1>1. CASE UNCHANGED srvVars
  BY <1>1 DEF srvVars, M!vars, M!shared
<1>2. CASE Server
  BY <1>2 DEF Server, Answer, AnswerFixed, LoseAnswer, Error, M!Next, M!Reply
<1>3. CASE Send
  BY <1>3, SendIsAllowed DEF Send, M!Next, M!Environment
<1>4. stage \in {"init", "vinit"} => M!MayInit
  <2>. SUFFICES ASSUME stage \in {"init", "vinit"} PROVE M!MayInit
    OBVIOUS
  <2>1. pc = "exec" /\ i \in 1..N /\ ~Asks /\ stage # "link"
    BY DEF Places, Asks
  <2>2. Spent \in Nat /\ Spent <= Len(Exec[i].vibs) /\ Len(Exec[i].vibs) \in Nat
    BY <2>1, SpentIs
  <2>3. run <= B[i - 1] + Spent
    BY <2>1 DEF Counts
  <2>4. /\ B[i - 1] \in Nat /\ B[i] \in 0..MaxRuns
        /\ B[i - 1] + 1 + Len(Exec[i].vibs) <= B[i]
    <3>1. N \in Nat /\ i \in 0..N /\ i - 1 \in 0..N
      BY <2>1, CountsTypes
    <3>. QED
      BY <1>0, <2>1, <3>1 DEF Affords
  <2>5. run < MaxRuns
    BY <1>0, <2>2, <2>3, <2>4
  <2>6. Stragglers \/ \A t \in Slots : hd[t].pc = "idle"
    BY <2>1 DEF ChildInv
  <2>. QED
    BY <2>5, <2>6 DEF M!MayInit, M!Busy, M!At
<1>5. CASE StartBase
  <2>1. Exec[i].ovs \in OverrideLists
    BY <1>5 DEF StartBase, Places, OverrideLists
  <2>. QED
    BY <1>4, <1>5, <2>1 DEF StartBase, M!Next, M!Environment
<1>6. CASE StartVibrated
  <2>1. i \in 1..N /\ vi \in 1..Len(Exec[i].vibs) /\ run > 0
    BY <1>6 DEF StartVibrated, Places, Counts
  <2>2. Exec[i].vibs[vi] \in Vibrations
    <3>1. Exec[i].vibs \in Seq(Range(Exec[i].vibs))
      BY <2>1, ExecAssumption
    <3>2. Exec[i].vibs[vi] \in Range(Exec[i].vibs)
      BY <2>1, <3>1
    <3>. QED
      BY <2>1, <3>2 DEF Vibrations
  <2>. QED
    BY <1>4, <1>6, <2>1, <2>2 DEF StartVibrated, M!Next, M!Environment
<1>. QED
  <2>1. CASE Ctrl \/ Launch \/ Serve \/ Ends \/ MapsBase \/ Abandon \/ UNCHANGED vars
    BY <1>1, <2>1 DEF Ctrl, Launch, Serve, Ends, MapsBase, Abandon, vars
  <2>2. CASE \E m : Adds(m)
    BY <1>1, <2>2 DEF Adds, AddMap
  <2>. QED
    BY <1>2, <1>3, <1>5, <1>6, <2>1, <2>2, NextSplit

LEMMA NextCounts ==
  ASSUME NEW B, Affords(B), MP!TypeInv, Places, ChildInv, Counts(B), [Next]_vars
  PROVE  Counts(B)'
<1>. USE DEF ctrlVars, srvVars, exeVars
<1>0. /\ run \in Nat /\ arrived \in Nat /\ lost \in Nat /\ child.sent \in Nat /\ N \in Nat
      /\ \A j \in 1..N : Len(Exec[j].vibs) \in Nat
  BY CountsTypes
<1>a. \A j \in 0..N : B[j] \in Nat
  BY DEF Affords
<1>b. \A j \in 1..N : B[j - 1] + 1 + Len(Exec[j].vibs) <= B[j]
  BY DEF Affords
<1>1. CASE UNCHANGED vars
  BY <1>1 DEF Counts, Asks, Spent, vars
<1>2. CASE Ctrl
  <2>1. /\ stage = "idle" /\ pc # "exit"
        /\ \/ i' = i
           \/ i \in 1..N /\ i' = i + 1
        /\ UNCHANGED <<run, stage>>
    <3>1. pc # "exec" /\ pc # "exit" /\ (i' = i \/ (i \in 1..N /\ i' = i + 1))
      BY <1>2 DEF Ctrl, R!Start, R!SkipByWindow, R!SkipMarked, R!WriteResult, R!Shutdown,
                  R!Finish, R!loopVars, R!Execs
    <3>2. UNCHANGED <<run, stage>>
      BY <1>2 DEF Ctrl
    <3>. QED
      BY <3>1, <3>2 DEF Places
  <2>2. run <= B[i - 1]
    BY <1>0, <1>a, <2>1 DEF Counts, Spent, Places
  <2>3. run <= B[i' - 1]
    <3>1. CASE i' = i
      BY <2>2, <3>1
    <3>2. CASE i \in 1..N /\ i' = i + 1
      <4>1. i' - 1 = i
        BY <3>2
      <4>. QED
        BY <1>0, <1>a, <1>b, <2>2, <3>2, <4>1
    <3>. QED
      BY <2>1, <3>1, <3>2
  <2>4. i' - 1 \in 0..N
    BY <1>0, <2>1 DEF Places
  <2>. QED
    BY <1>0, <1>a, <2>1, <2>3, <2>4 DEF Counts, Spent, Asks
<1>3. CASE Launch
  <2>1. stage = "idle" /\ stage' = "init" /\ pc = "loop" /\ UNCHANGED <<run, i>>
    BY <1>3 DEF Launch, R!Launch, Places
  <2>. QED
    BY <2>1 DEF Counts, Spent, Asks
<1>4. CASE Serve
  <2>1. UNCHANGED <<run, i, stage, pc, arrived, child, lost, vi>>
    BY <1>4 DEF Serve, R!Serve, R!Bind, R!ServeReturns, R!CloseChannel, R!loopVars
  <2>. QED
    BY <2>1 DEF Counts, Spent, Asks
<1>5. CASE Ends
  <2>1. /\ pc = "exec" /\ i \in 1..N /\ stage' = "idle" /\ run' = run
        /\ pc' = "exit" \/ i' = i + 1
    BY <1>5 DEF Ends, Ended, R!Fail, R!Crash, R!Succeed, R!loopVars, Places
  <2>2. Spent \in 0..(Len(Exec[i].vibs) + 1) /\ run <= B[i - 1] + Spent
    BY <2>1, SpentIs DEF Counts
  <2>a. i \in 0..N /\ i - 1 \in 0..N
    BY <1>0, <2>1
  <2>b. B[i] \in Nat /\ B[i - 1] \in Nat /\ B[i - 1] + 1 + Len(Exec[i].vibs) <= B[i]
    BY <1>a, <1>b, <2>1, <2>a
  <2>3. run <= B[i] /\ B[i] \in Nat
    BY <1>0, <2>1, <2>2, <2>b
  <2>4. i' = i + 1 => B[i' - 1] = B[i]
    BY <2>1
  <2>. QED
    BY <1>0, <2>1, <2>3, <2>4 DEF Counts, Spent, Asks
<1>6. CASE StartBase
  <2>1. /\ stage = "init" /\ stage' = "run" /\ UNCHANGED <<i, pc, lost>> /\ pc = "exec"
        /\ run' = run + 1 /\ arrived' = 0 /\ child' = NewChild
    BY <1>6 DEF StartBase, M!InitExecution, M!InitVibration, Places
  <2>2. run <= B[i - 1] /\ B[i - 1] \in Nat
    BY <1>0, <1>a, <2>1 DEF Counts, Spent, Places
  <2>. QED
    BY <1>0, <2>1, <2>2, NewChildOK DEF Counts, Spent, Asks
<1>7. CASE StartVibrated
  <2>1. /\ stage = "vinit" /\ stage' = "vrun" /\ UNCHANGED <<i, pc, lost, vi>> /\ pc = "exec"
        /\ run' = run + 1 /\ arrived' = 0 /\ child' = NewChild
    BY <1>7 DEF StartVibrated, M!InitVibration, Places
  <2>2. run <= B[i - 1] + vi /\ B[i - 1] \in Nat /\ vi \in Nat
    BY <1>0, <1>a, <2>1 DEF Counts, Spent, Places
  <2>. QED
    BY <1>0, <2>1, <2>2, NewChildOK DEF Counts, Spent, Asks
<1>8. CASE MapsBase
  <2>1. /\ stage = "run" /\ stage' \in {"vinit", "link"} /\ vi' = 1
        /\ UNCHANGED <<i, pc, run>>
    BY <1>8 DEF MapsBase, NextVibration
  <2>. QED
    BY <2>1 DEF Counts, Spent, Asks
<1>9. ASSUME NEW m, Adds(m) PROVE Counts(B)'
  <2>1. /\ stage = "vrun" /\ stage' \in {"vinit", "link"} /\ vi' = vi + 1
        /\ UNCHANGED <<i, pc, run>>
    BY <1>9 DEF Adds, AddMap, NextVibration
  <2>. QED
    BY <2>1 DEF Counts, Spent, Asks
<1>10. CASE Send
  <2>1. PICK s \in Slots :
          /\ M!Arrive(s, Reqs[child.sent + 1])
          /\ child' = [child EXCEPT !.sent = @ + 1, !.waits = Add(@, s, child.sent + 1)]
    BY <1>10 DEF Send
  <2>2. UNCHANGED <<stage, i, pc, vi, lost>>
    BY <1>10 DEF Send
  <2>3. run' = run /\ arrived' = arrived + 1
    BY <2>1 DEF M!Arrive
  <2>4. child'.sent = child.sent + 1
    BY <1>0, <2>1 DEF ChildInv, ChildOK, ChildTypes
  <2>5. Asks => arrived' <= child'.sent + lost
    BY <1>0, <2>3, <2>4 DEF Counts
  <2>. QED
    BY <2>2, <2>3, <2>5 DEF Counts, Spent, Asks
<1>11. CASE Abandon
  <2>1. PICK s \in DOMAIN child.waits :
          /\ child.waits[s] = child.sent
          /\ child' = [child EXCEPT !.sent = @ - 1, !.waits = Remove(@, s)]
    BY <1>11 DEF Abandon
  <2>2. UNCHANGED <<stage, i, pc, vi, run, arrived>> /\ lost' = lost + 1
    BY <1>11 DEF Abandon
  <2>3. child'.sent = child.sent - 1
    BY <1>0, <2>1 DEF ChildInv, ChildOK, ChildTypes
  <2>4. Asks => arrived <= child'.sent + lost'
    BY <1>0, <2>2, <2>3 DEF Counts
  <2>. QED
    BY <2>2, <2>4 DEF Counts, Spent, Asks
<1>12. CASE Server
  <2>1. PICK s \in Slots :
          /\ UNCHANGED <<run, arrived>>
          /\ \/ UNCHANGED <<child, lost>>
             \/ Freed(s)
    BY <1>12, ServerSplit
  <2>2. UNCHANGED <<stage, i, pc, vi>>
    BY <1>12 DEF Server
  <2>3. child'.sent + lost' = child.sent + lost
    BY <2>1 DEF Freed
  <2>4. Asks => arrived <= child'.sent + lost'
    BY <2>3 DEF Counts
  <2>. QED
    BY <2>1, <2>2, <2>4 DEF Counts, Spent, Asks
<1>. QED
  BY <1>1, <1>2, <1>3, <1>4, <1>5, <1>6, <1>7, <1>8, <1>9, <1>10, <1>11, <1>12, NextSplit

-------------------------------------------------------------------------------
(* The model map.                                                           *)
SomePositions == (SUBSET (Pos \cup {Nil})) \ {{}}

(* Every position of a record is a known one.                               *)
LEMMA PositionIsKnown ==
  ASSUME NEW r \in MP!Records, NEW l \in DOMAIN r.pos
  PROVE  r.pos[l] \in Pos \cup {Nil} /\ DOMAIN r.pos = DOMAIN r.body
<1>1. r.pos \in MP!PartialFcns(MP!Leaves, MP!Positions) /\ DOMAIN r.pos = DOMAIN r.body
  BY DEF MP!Records
<1>2. r.pos[l] \in MP!Positions
  BY <1>1 DEF MP!PartialFcns
<1>3. PICK u \in DOMAIN Instances, x \in MP!Leaves : r.pos[l] = MP!Position(u, x)
  BY <1>2 DEF MP!Positions
<1>4. x \in DOMAIN Addr
  <2>1. CASE x \in DOMAIN Kind
    BY <2>1, PositionAssumption
  <2>2. CASE x \notin DOMAIN Kind
    <3>1. PICK ov \in MP!Ovs : x \in DOMAIN ov.patch
      BY <1>3, <2>2 DEF MP!Leaves
    <3>2. ov # MP!NoOverride
      BY <3>1 DEF MP!NoOverride
    <3>3. PICK ovs \in OverrideLists : ov \in MP!Range(ovs)
      BY <3>1, <3>2 DEF MP!Ovs
    <3>4. PICK k \in DOMAIN ovs : ov = ovs[k]
      BY <3>3 DEF MP!Range
    <3>. QED
      BY <3>1, <3>4, PositionAssumption
  <2>. QED
    BY <2>1, <2>2
<1>5. M!Position(u, x) \in Pos \cup {Nil}
  BY <1>3, <1>4, PositionAssumption
<1>. QED
  BY <1>1, <1>3, <1>5 DEF M!Position, MP!Position

LEMMA LeafPosition ==
  ASSUME MP!TypeInv, NEW c \in Leaves
  PROVE  records[c[1]].pos[c[2]] \in Pos \cup {Nil}
<1>1. PICK k \in DOMAIN records : c \in {<<k, l>> : l \in DOMAIN records[k].body}
  BY DEF Leaves
<1>2. PICK l \in DOMAIN records[k].body : c = <<k, l>>
  BY <1>1
<1>3. records[k] \in MP!Records
  BY <1>1 DEF MP!TypeInv
<1>4. l \in DOMAIN records[k].pos
  BY <1>2, <1>3 DEF MP!Records
<1>5. records[k].pos[l] \in Pos \cup {Nil}
  BY <1>3, <1>4, PositionIsKnown
<1>. QED
  BY <1>2, <1>5

(* MapSingleAppModel maps properties of the model to positions of leaves.   *)
LEMMA MapSingleIs ==
  ASSUME NEW app, NEW val, NEW pos, NEW S, \A o \in DOMAIN val : pos[o] \in S
  PROVE  R!ToModelMap(R!MapSingleAppModel(app, val, pos))
           \in PartialFcns(DOMAIN app, (SUBSET S) \ {{}})
<1>. DEFINE smm == R!MapSingleAppModel(app, val, pos)
            Of(a) == {o \in R!Unambiguous(val) : val[o] = app[a]}
<1>1. DOMAIN smm = {b \in R!Unambiguous(app) : Of(b) # {}}
  BY DEF R!MapSingleAppModel
<1>2. ASSUME NEW a \in DOMAIN smm PROVE smm[a] \in S
  <2>1. smm[a] = pos[CHOOSE o \in Of(a) : TRUE]
    BY DEF R!MapSingleAppModel
  <2>2. (CHOOSE o \in Of(a) : TRUE) \in DOMAIN val
    BY <1>1 DEF R!Unambiguous
  <2>. QED
    BY <2>1, <2>2
<1>3. DOMAIN smm \subseteq DOMAIN app
  BY <1>1 DEF R!Unambiguous
<1>. HIDE DEF smm
<1>4. R!ToModelMap(smm) \in [DOMAIN smm -> (SUBSET S) \ {{}}]
  BY <1>2 DEF R!ToModelMap
<1>. QED
  BY <1>3, <1>4 DEF PartialFcns, smm

LEMMA AppModelDomain ==
  ASSUME NEW bodies PROVE DOMAIN AppModel(bodies) \subseteq DOMAIN Exec[i].app
BY DEF AppModel

(* What a comparison finds is a map of properties the program prints.       *)
LEMMA FoundIs ==
  ASSUME MP!TypeInv, NEW m, Found(m)
  PROVE  m \in PartialFcns(DOMAIN Exec[i].app, SomePositions)
<1>1. CASE m = R!EmptyMap
  <2>1. m \in [{} -> SomePositions]
    BY <1>1 DEF R!EmptyMap
  <2>. QED
    BY <2>1 DEF PartialFcns
<1>2. CASE m # R!EmptyMap
  <2>. DEFINE D == R!Differing(base.app, AppModel(child.bodies))
  <2>1. /\ m = [a \in D |-> VibratedPosition]
        /\ VibratedPosition # {} /\ vibrationRecord # None
    BY <1>2 DEF Found
  <2>2. vibrationRecord \in MP!Records
    BY <2>1 DEF MP!TypeInv
  <2>3. VibratedPosition \in SomePositions
    <3>1. \A l \in DOMAIN vibrationRecord.pos : vibrationRecord.pos[l] \in Pos \cup {Nil}
      BY <2>2, PositionIsKnown
    <3>. QED
      BY <2>1, <3>1 DEF VibratedPosition, SomePositions
  <2>4. D \subseteq DOMAIN Exec[i].app
    BY AppModelDomain DEF R!Differing
  <2>. HIDE DEF D
  <2>5. m \in [D -> SomePositions]
    BY <2>1, <2>3
  <2>. QED
    BY <2>4, <2>5 DEF PartialFcns
<1>. QED
  BY <1>1, <1>2

(* Add keeps maps over D; without nil, it makes no nil.                     *)
LEMMA AddKeepsMaps ==
  ASSUME NEW D, NEW m1 \in PartialFcns(D, SomePositions), NEW m2 \in PartialFcns(D, SomePositions),
         NEW r \in R!AddOutcomes(m1, m2)
  PROVE  r \in PartialFcns(D, SomePositions)
<1>1. PICK s \in R!Survivors(m1) : r = R!Added(s, m1, m2)
  BY DEF R!AddOutcomes
<1>2. \A a \in DOMAIN m1 : s[a] \in Pos
  BY DEF R!Survivors
<1>3. /\ DOMAIN m1 \subseteq D /\ DOMAIN m2 \subseteq D
      /\ \A a \in DOMAIN m2 : m2[a] \in SomePositions
  BY PartialIs
<1>4. r \in [DOMAIN m1 \cup DOMAIN m2 -> SomePositions]
  <2>1. r = [a \in DOMAIN m1 \cup DOMAIN m2 |->
               (IF a \in DOMAIN m1 THEN {s[a]} ELSE {}) \cup R!PositionsAt(m2, a)]
    BY <1>1 DEF R!Added
  <2>2. ASSUME NEW a \in DOMAIN m1 \cup DOMAIN m2
        PROVE  (IF a \in DOMAIN m1 THEN {s[a]} ELSE {}) \cup R!PositionsAt(m2, a) \in SomePositions
    <3>1. R!PositionsAt(m2, a) \subseteq Pos \cup {Nil}
      BY <1>3 DEF R!PositionsAt, SomePositions
    <3>2. a \notin DOMAIN m1 => R!PositionsAt(m2, a) # {}
      BY <1>3 DEF R!PositionsAt, SomePositions
    <3>. QED
      BY <1>2, <3>1, <3>2 DEF SomePositions
  <2>. QED
    BY <2>1, <2>2
<1>5. DOMAIN m1 \cup DOMAIN m2 \in SUBSET D
  BY <1>3
<1>. QED
  BY <1>4, <1>5 DEF PartialFcns

LEMMA NextMap == ASSUME MP!TypeInv, Places, ChildInv, MapInv, [Next]_vars PROVE MapInv'
<1>. USE DEF ctrlVars, srvVars, exeVars, SomePositions
<1>1. CASE UNCHANGED vars
  BY <1>1 DEF MapInv, vars
<1>2. CASE Ctrl
  <2>1. stage = "idle" /\ UNCHANGED <<stage, mm>>
    <3>1. pc # "exec" /\ UNCHANGED <<stage, mm>>
      BY <1>2 DEF Ctrl, R!Start, R!SkipByWindow, R!SkipMarked, R!WriteResult, R!Shutdown, R!Finish
    <3>. QED
      BY <3>1 DEF Places
  <2>. QED
    BY <2>1 DEF MapInv
<1>3. CASE Launch
  <2>1. mm' = NoFunction /\ stage' = "init"
    BY <1>3 DEF Launch, R!Launch, Places, MapInv
  <2>. QED
    BY <2>1, NoFunctionPartial DEF MapInv
<1>4. CASE Serve
  <2>1. UNCHANGED <<stage, mm, i>>
    BY <1>4 DEF Serve, R!Serve, R!Bind, R!ServeReturns, R!CloseChannel, R!loopVars
  <2>. QED
    BY <2>1 DEF MapInv
<1>5. CASE Ends
  BY <1>5 DEF Ends, Ended, MapInv
<1>6. CASE StartBase \/ StartVibrated \/ Send \/ Abandon \/ Server
  <2>1. UNCHANGED <<mm, i>> /\ (stage = "idle" <=> stage' = "idle")
    BY <1>6 DEF StartBase, StartVibrated, Send, Abandon, Server
  <2>. QED
    BY <2>1 DEF MapInv
<1>7. CASE MapsBase
  <2>1. /\ mm' = MapByValue(AppModel(child.bodies)) /\ i' = i
        /\ stage' # "idle"
    BY <1>7 DEF MapsBase, NextVibration
  <2>. DEFINE app == AppModel(child.bodies)
              val == [c \in Leaves |-> <<records[c[1]].body[c[2]]>>]
              pos == [c \in Leaves |-> records[c[1]].pos[c[2]]]
  <2>2. \A o \in DOMAIN val : pos[o] \in Pos \cup {Nil}
    BY LeafPosition
  <2>3. mm' = R!ToModelMap(R!MapSingleAppModel(app, val, pos))
    BY <2>1 DEF MapByValue
  <2>4. DOMAIN app \subseteq DOMAIN Exec[i].app
    BY AppModelDomain
  <2>. HIDE DEF app, val, pos
  <2>5. mm' \in PartialFcns(DOMAIN app, SomePositions)
    BY <2>2, <2>3, MapSingleIs
  <2>6. mm' \in PartialFcns(DOMAIN Exec[i].app, SomePositions)
    BY <2>4, <2>5 DEF PartialFcns
  <2>. QED
    BY <2>1, <2>6 DEF MapInv
<1>8. ASSUME NEW m, Adds(m) PROVE MapInv'
  <2>1. /\ stage = "vrun" /\ stage' # "idle" /\ i' = i /\ Found(m)
        /\ mm' \in R!AddOutcomes(mm, m)
    BY <1>8 DEF Adds, AddMap, NextVibration
  <2>2. mm \in PartialFcns(DOMAIN Exec[i].app, SomePositions)
    BY <2>1 DEF MapInv
  <2>3. m \in PartialFcns(DOMAIN Exec[i].app, SomePositions)
    BY <2>1, FoundIs
  <2>4. mm' \in PartialFcns(DOMAIN Exec[i].app, SomePositions)
    BY <2>1, <2>2, <2>3, AddKeepsMaps
  <2>. QED
    BY <2>1, <2>4 DEF MapInv
<1>. QED
  BY <1>1, <1>2, <1>3, <1>4, <1>5, <1>6, <1>7, <1>8, NextSplit

-------------------------------------------------------------------------------
(* The theorems.                                                            *)

IInv(B) == MP!TypeInv /\ Places /\ ChildInv /\ MapInv /\ Counts(B)

LEMMA InitIInv == ASSUME NEW B, Affords(B), Init PROVE IInv(B)
<1>1. /\ pc = "start" /\ i = 1 /\ N \in Nat /\ MaxLost \in Nat
      /\ stage = "idle" /\ child = NewChild /\ mm = NoFunction /\ vi = 0 /\ lost = 0
      /\ run = 0 /\ \A s \in Slots : hd[s].pc = "idle"
  BY RunAssumption, LostAssumption DEF Init, R!Init, M!Init, M!Idle
<1>2. MP!TypeInv
  BY ServerTypeInit DEF Init
<1>3. Places
  BY <1>1 DEF Places
<1>4. ChildInv
  BY <1>1, NewChildOK DEF ChildInv, Asks
<1>5. MapInv
  BY <1>1 DEF MapInv
<1>6. Counts(B)
  <2>1. B[0] \in Nat
    BY <1>1 DEF Affords
  <2>. QED
    BY <1>1, <2>1 DEF Counts, Spent, Asks
<1>. QED
  BY <1>2, <1>3, <1>4, <1>5, <1>6 DEF IInv

LEMMA NextIInv ==
  ASSUME BoundsSuffice, RetriesOverlap, NEW B, Affords(B), IInv(B), [Next]_vars
  PROVE  IInv(B)'
<1>. USE DEF IInv
<1>1. MP!TypeInv'
  BY ServerStep, ServerTypeStep
<1>. QED
  BY <1>1, NextPlaces, NextChild, NextMap, NextCounts

(* Types, how the stage of execute goes with Run's, and that the program    *)
(* waits only for requests that are being handled and never for one that    *)
(* has been answered: with any overlap, lost answers and stragglers.        *)
THEOREM TypeCorrect ==
  ASSUME BoundsSuffice, RetriesOverlap PROVE SafetySpec => []TypeOK
<1>1. PICK B : Affords(B)
  BY DEF BoundsSuffice
<1>2. IInv(B) => TypeOK
  <2>. SUFFICES ASSUME IInv(B) PROVE TypeOK
    OBVIOUS
  <2>. USE DEF IInv
  <2>1. vi \in 0..(Len(IF i \in 1..N THEN Exec[i].vibs ELSE <<>>) + 1)
    <3>1. CASE i \in 1..N
      <4>1. Len(Exec[i].vibs) \in Nat
        BY <3>1, ExecAssumption
      <4>. QED
        BY <3>1, <4>1 DEF Places
    <3>2. CASE i \notin 1..N
      BY <3>2 DEF Places
    <3>. QED
      BY <3>1, <3>2
  <2>2. R!IsModelMap(mm)
    <3>1. CASE stage = "idle"
      BY <3>1 DEF MapInv, NoFunction, R!IsModelMap
    <3>2. CASE stage # "idle"
      BY <3>2, PartialIs DEF MapInv, R!IsModelMap
    <3>. QED
      BY <3>1, <3>2
  <2>3. child \in ChildTypes /\ ChildOK(child)
    BY DEF ChildInv, ChildOK
  <2>4. DOMAIN child.waits \subseteq M!Busy
    <3>1. DOMAIN child.waits \subseteq Slots
      BY <2>3, PartialIs DEF ChildTypes
    <3>. QED
      BY <3>1 DEF ChildInv, M!Busy, M!At
  <2>5. child.failed \in BOOLEAN
    BY <2>3 DEF ChildTypes
  <2>6. DOMAIN child.bodies \cap Range(child.waits) = {}
    BY <2>3 DEF ChildOK, Range
  <2>. QED
    BY <2>1, <2>2, <2>4, <2>5, <2>6 DEF TypeOK, Places
<1>3. Init => IInv(B)
  BY <1>1, InitIInv
<1>4. IInv(B) /\ [Next]_vars => IInv(B)'
  BY <1>1, NextIInv
<1>. QED
  BY <1>2, <1>3, <1>4, PTL DEF SafetySpec

(* The control loop and the program are an environment of the mock server   *)
(* that MockServer allows: what is proved of the one holds in the other.    *)
THEOREM ServerRefined ==
  ASSUME BoundsSuffice, RetriesOverlap PROVE SafetySpec => RefinesServer
<1>1. PICK B : Affords(B)
  BY DEF BoundsSuffice
<1>2. Init => IInv(B) /\ M!Init
  BY <1>1, InitIInv DEF Init
<1>3. IInv(B) /\ [Next]_vars => IInv(B)'
  BY <1>1, NextIInv
<1>4. IInv(B) /\ [Next]_vars => [M!Next]_(M!vars)
  BY <1>1, ServerStep DEF IInv
<1>. QED
  BY <1>2, <1>3, <1>4, PTL DEF SafetySpec, RefinesServer

(* CtrlRun lets an execution return any map over the properties its program *)
(* prints.                                                                  *)
MapsSuffice ==
  \A j \in 1..N : \A D \in SUBSET (DOMAIN Exec[j].app) : [D -> (SUBSET Pos) \ {{}}] \subseteq Maps

LEMMA RunStep ==
  ASSUME MapsSuffice, Places, ChildInv, MapInv, [Next]_vars
  PROVE  [R!Next]_(R!vars)
<1>. USE DEF ctrlVars, R!vars, R!Next, R!Run
<1>1. CASE Ctrl \/ Launch \/ Serve
  BY <1>1 DEF Ctrl, Launch, Serve
<1>2. CASE Ends
  <2>1. CASE R!Fail \/ R!Crash
    BY <2>1
  <2>2. CASE R!Succeed(mm) /\ stage = "link" /\ ~R!HasNil(mm)
    <3>1. mm \in PartialFcns(DOMAIN Exec[i].app, (SUBSET (Pos \cup {Nil})) \ {{}})
      BY <2>2 DEF MapInv
    <3>2. PICK D \in SUBSET (DOMAIN Exec[i].app) : mm \in [D -> (SUBSET (Pos \cup {Nil})) \ {{}}]
      BY <3>1 DEF PartialFcns
    <3>3. mm \in [D -> (SUBSET Pos) \ {{}}]
      BY <2>2, <3>2 DEF R!HasNil
    <3>4. i \in 1..N
      BY <2>2 DEF Places
    <3>5. mm \in Maps
      BY <3>3, <3>4 DEF MapsSuffice
    <3>. QED
      BY <2>2, <3>5
  <2>. QED
    BY <1>2, <2>1, <2>2 DEF Ends
<1>3. CASE StartBase \/ StartVibrated \/ MapsBase \/ Send \/ Abandon \/ Server \/ UNCHANGED vars
  BY <1>3 DEF StartBase, StartVibrated, MapsBase, Send, Abandon, Server, vars
<1>4. CASE \E m : Adds(m)
  BY <1>4 DEF Adds, AddMap
<1>. QED
  BY <1>1, <1>2, <1>3, <1>4, NextSplit

(* The bridge implements CtrlRun: execute, with all its runs, comparisons   *)
(* and early returns, is to Run one step that fails, crashes or returns a   *)
(* map without nil positions; in between it leaves Run's state alone.       *)
THEOREM RunRefined ==
  ASSUME BoundsSuffice, RetriesOverlap, MapsSuffice PROVE SafetySpec => RefinesRun
<1>1. PICK B : Affords(B)
  BY DEF BoundsSuffice
<1>2. Init => IInv(B) /\ R!Init
  BY <1>1, InitIInv DEF Init
<1>3. IInv(B) /\ [Next]_vars => IInv(B)'
  BY <1>1, NextIInv
<1>4. IInv(B) /\ [Next]_vars => [R!Next]_(R!vars)
  BY RunStep DEF IInv
<1>. QED
  BY <1>2, <1>3, <1>4, PTL DEF SafetySpec, RefinesRun, R!SafetySpec
===============================================================================
