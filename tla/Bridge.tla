-------------------------------- MODULE Bridge --------------------------------
(***************************************************************************)
(* The whole bridge: Ctrl.Run, with ctrl.execute and ctrl.vibrate opened    *)
(* (ctrl/ctrl.go), driving the mock server and the external program that    *)
(* runCommand starts.  The program asks the server for API responses and    *)
(* prints a model of its own; the bridge finds out which API property each  *)
(* property of that model comes from, by value (MapSingleAppModel) and by   *)
(* changing one leaf and looking at what changes (vibrate).                 *)
(*                                                                          *)
(* The program is not part of the repository.  Exec[j] says what it does:   *)
(* the requests it makes and the sources of its properties; how it fares    *)
(* with the answers is left open, see ChildStep.                            *)
(***************************************************************************)
EXTENDS Integers, Sequences, FiniteSets, Functions

CONSTANTS
  \* CtrlRun
  N, Label, NameOf, Unset, Options, Pos, Nil, Rank, Maps,
  \* MockServer
  Slots, Urls, Instances, Kind, Addr, Schema, Times, None, TokenPath,
  Overlap,       \* the program makes requests in parallel
  Stragglers,    \* the program may end while a request is being handled
  MaxRequests, MaxRuns,
  \* Bridge
  Exec,          \* Exec[j]: execution j, see below
  Shape,         \* Shape[u]: the body of u is an "object", "array" or "scalar"
  Findable,      \* leaves whose property address prints as their JSON pointer
  MaxLost        \* bound: answers that do not reach the program and are retried

(* Exec[j]: bad, "regexp" or "addr" when a pattern or an address of an      *)
(* override does not parse, "vibration" when a vibration's pattern does     *)
(* not; ovs, its overrides and then the global ones; vibs, its vibrations;  *)
(* reqs, the requests of the program; app, for each property it prints the  *)
(* leaves <<k, l>> (leaf l of answer k) it comes from and whether it is a   *)
(* copy.                                                                    *)
OverrideLists == {Exec[j].ovs : j \in 1..N}
Vibrations == UNION {Range(Exec[j].vibs) : j \in 1..N}

VARIABLES
  opt, pc, i, execState, succeed, fail, skipped, results, lis, shut, printed,
  exit, outcome, got,
  overrides, rnd, records, seqs, vibration, vibrationRecord, cache, hd, run,
  arrived, answered,
  stage,   \* where execute is
  child,   \* the running program
  base,    \* BaseExecInfo: appJSON and seq of the run without vibration
  mm,      \* the model map of the execution so far
  vi,      \* the vibration of the execution at hand
  lost     \* number of answers lost so far

ctrlVars == <<opt, pc, i, execState, succeed, fail, skipped, results, lis, shut,
              printed, exit, outcome, got>>
srvVars == <<overrides, rnd, records, seqs, vibration, vibrationRecord, cache,
             hd, run, arrived, answered>>
exeVars == <<stage, child, base, mm, vi, lost>>
vars == <<ctrlVars, srvVars, exeVars>>

R == INSTANCE CtrlRun
M == INSTANCE MockServer WITH Undefined <- Nil

ASSUME RunAssumption ==
  /\ R!NAssumption /\ R!OptionsAssumption /\ R!MapsAssumption
  /\ R!RankAssumption /\ R!NilAssumption
ASSUME ServerAssumption ==
  /\ M!BooleanAssumption /\ M!InstancesAssumption /\ M!KindAssumption
  /\ M!OverridesAssumption /\ M!UserValuesAssumption /\ M!TimesAssumption
  /\ M!BoundsAssumption
ASSUME ExecAssumption ==
  \A j \in 1..N : /\ Exec[j].reqs \in Seq(Urls)
                 /\ Exec[j].vibs \in Seq(Range(Exec[j].vibs))
(* The position of every leaf a response may have is one of Pos.            *)
ASSUME PositionAssumption ==
  /\ DOMAIN Kind \subseteq DOMAIN Addr
  /\ \A ovs \in OverrideLists : \A k \in DOMAIN ovs : DOMAIN ovs[k].patch \subseteq DOMAIN Addr
  /\ \A u \in DOMAIN Instances, l \in DOMAIN Addr : M!Position(u, l) \in Pos \cup {Nil}
ASSUME LostAssumption == MaxLost \in Nat
(* A copy shows one leaf; no word of the program's own is a generated value.*)
ASSUME ProgramsAssumption ==
  \A j \in 1..N : \A a \in DOMAIN Exec[j].app :
    LET src == Exec[j].app[a]
    IN /\ src.from \in Seq(Nat \X DOMAIN Addr)
       /\ src.copy => Len(src.from) = 1
       /\ src.from = <<>> => src.own.kind \notin {"fresh", "time"}

-------------------------------------------------------------------------------
(* The program: requests sent, those it waits for (by slot), bodies it got. *)
NoFunction == [x \in {} |-> None]
NewChild == [sent |-> 0, waits |-> NoFunction, bodies |-> NoFunction, failed |-> FALSE]

Reqs == Exec[i].reqs
Running == stage \in {"run", "vrun"} /\ exit = -1
Waiting(s) == s \in DOMAIN child.waits
Remove(f, x) == [y \in DOMAIN f \ {x} |-> f[y]]
Add(f, x, v) == [y \in DOMAIN f \cup {x} |-> IF y = x THEN v ELSE f[y]]

Complete == DOMAIN child.bodies = DOMAIN Reqs

(* The JSON the program prints.  A value of it is the sequence of the API   *)
(* values it shows: a copy shows one, a derived value is marked as changed. *)
(* A property without sources is the program's own; one that is missing a   *)
(* source is left out.                                                      *)
Known(src, bodies) ==
  \A n \in DOMAIN src.from :
    LET k == src.from[n][1] IN k \in DOMAIN bodies /\ src.from[n][2] \in DOMAIN bodies[k]

AppValue(src, bodies) ==
  LET shown == [n \in DOMAIN src.from |-> bodies[src.from[n][1]][src.from[n][2]]]
  IN IF src.from = <<>> THEN <<src.own>>
     ELSE IF src.copy THEN shown
     ELSE <<M!Value("changed", 0)>> \o shown

AppModel(bodies) ==
  LET app == Exec[i].app
  IN [a \in {b \in DOMAIN app : Known(app[b], bodies)} |-> AppValue(app[a], bodies)]

-------------------------------------------------------------------------------
(* Init and the parts of Run outside execute.                               *)
NoBase == [app |-> NoFunction, seq |-> <<>>, bodies |-> NoFunction]

Init ==
  /\ R!Init /\ M!Init
  /\ stage = "idle" /\ child = NewChild /\ base = NoBase
  /\ mm = NoFunction /\ vi = 0 /\ lost = 0

Ctrl ==
  /\ \/ R!Start \/ R!SkipByWindow \/ R!SkipMarked \/ R!WriteResult \/ R!Shutdown
     \/ R!Finish /\ M!Quiet     \* Shutdown waits for the running handlers
  /\ UNCHANGED <<srvVars, exeVars>>

Launch ==
  /\ R!Launch
  /\ stage' = "init"
  /\ UNCHANGED <<srvVars, child, base, mm, vi, lost>>

Serve == R!Serve /\ UNCHANGED <<srvVars, exeVars>>

-------------------------------------------------------------------------------
(* execute: the configuration, InitExecution, runCommand, the value maps.   *)
Ended == stage' = "idle" /\ child' = NewChild /\ base' = NoBase /\ mm' = NoFunction /\ vi' = 0

Fails == R!Fail /\ Ended /\ UNCHANGED <<srvVars, lost>>
Crashes == R!Crash /\ Ended /\ UNCHANGED <<srvVars, lost>>

Configure ==
  /\ stage = "init"
  /\ CASE Exec[i].bad = "regexp" -> Crashes
       [] Exec[i].bad = "addr" -> Fails
       [] OTHER -> /\ M!InitExecution(Exec[i].ovs)
                   /\ stage' = "run" /\ child' = NewChild
                   /\ UNCHANGED <<ctrlVars, base, mm, vi, lost>>

(* One leaf of one record.                                                  *)
Leaves == UNION {{<<k, l>> : l \in DOMAIN records[k].body} : k \in DOMAIN records}

MapByValue(app) ==
  R!ToModelMap(R!MapSingleAppModel(app,
    [c \in Leaves |-> <<records[c[1]].body[c[2]]>>],
    [c \in Leaves |-> records[c[1]].pos[c[2]]]))

NextVibration(n) == IF n <= Len(Exec[i].vibs) THEN "vinit" ELSE "link"

MapModels ==
  /\ stage = "run" /\ Complete
  /\ LET app == AppModel(child.bodies)
     IN IF \E k \in DOMAIN records : Shape[records[k].url] = "scalar"
          THEN Fails
          ELSE /\ base' = [app |-> app, seq |-> seqs, bodies |-> child.bodies]
               /\ mm' = MapByValue(app)
               /\ vi' = 1
               /\ stage' = NextVibration(1)
               /\ UNCHANGED <<ctrlVars, srvVars, child, lost>>

-------------------------------------------------------------------------------
(* vibrate: a run under a vibration, and the comparison with the base run.  *)
VibrateInit ==
  /\ stage = "vinit"
  /\ IF Exec[i].bad = "vibration"
       THEN Crashes
       ELSE /\ M!InitVibration(Exec[i].vibs[vi])
            /\ stage' = "vrun" /\ child' = NewChild
            /\ UNCHANGED <<overrides, ctrlVars, base, mm, vi, lost>>

(* mm = mm.Add(m), and on to the next vibration.                            *)
AddMap(m) ==
  /\ mm' \in R!AddOutcomes(mm, m)
  /\ vi' = vi + 1
  /\ stage' = NextVibration(vi + 1)
  /\ UNCHANGED <<ctrlVars, srvVars, child, base, lost>>

AddOrPanic(m) == IF R!AddPanics(mm, m) THEN Crashes ELSE AddMap(m)

(* The leaf of the vibration record whose address prints as the path.       *)
Vib == Exec[i].vibs[vi]
(* Variant: any leaf of the vibration record is taken.                      *)
VibratedPositionAny ==
  {vibrationRecord.pos[CHOOSE l \in DOMAIN vibrationRecord.pos : TRUE]}

VibratedPosition ==
  {vibrationRecord.pos[l] : l \in {Vib.leaf} \cap Findable \cap DOMAIN vibrationRecord.pos}

(* A record that is no object, or has a leaf without position, panics.      *)
UnfitRecord ==
  \/ Shape[vibrationRecord.url] # "object"
  \/ \E l \in DOMAIN vibrationRecord.pos : vibrationRecord.pos[l] = Nil

Compare ==
  /\ stage = "vrun" /\ Complete
  /\ LET app == AppModel(child.bodies)
         diff == R!Differing(base.app, app)
         sameProps == DOMAIN base.app = DOMAIN app
     IN CASE seqs # base.seq -> Fails
          [] seqs = base.seq /\ ~sameProps -> Fails
          [] seqs = base.seq /\ sameProps /\ Cardinality(diff) # 1 -> AddOrPanic(R!EmptyMap)
          [] seqs = base.seq /\ sameProps /\ Cardinality(diff) = 1 ->
               CASE vibrationRecord = None -> Fails
                 [] vibrationRecord # None /\ UnfitRecord -> Crashes
                 [] vibrationRecord # None /\ ~UnfitRecord /\ VibratedPosition = {} -> Fails
                 [] OTHER -> AddOrPanic([a \in diff |-> VibratedPosition])

(* Variant: a nil position goes unnoticed.                                  *)
LinkUnchecked ==
  /\ stage = "link"
  /\ R!Succeed(mm) /\ Ended /\ UNCHANGED <<srvVars, lost>>

(* AddLink and RelativeLocalLink, then execute returns.                     *)
Link ==
  /\ stage = "link"
  /\ IF R!AddLinkFails(mm)
       THEN Fails
       ELSE R!Succeed(mm) /\ Ended /\ UNCHANGED <<srvVars, lost>>

-------------------------------------------------------------------------------
(* The program.  It sends its requests in order, one at a time unless       *)
(* Overlap; the connection fails when nobody listens.                       *)
Send ==
  /\ Running /\ ~child.failed /\ lis = "listening"
  /\ child.sent < Len(Reqs)
  /\ Overlap \/ DOMAIN child.waits = {}
  /\ \E s \in Slots : /\ M!Arrive(s, Reqs[child.sent + 1])
                      /\ child' = [child EXCEPT !.sent = @ + 1,
                                                !.waits = Add(@, s, child.sent + 1)]
  /\ UNCHANGED <<ctrlVars, stage, base, mm, vi, lost>>

(* Variant: the program is not waited for.                                  *)
GiveUpEarly == Running /\ Fails

(* An error answer, a dropped connection, no listener, or a failure of its  *)
(* own make the program exit with an error or print no JSON object.         *)
GiveUp ==
  /\ Running
  /\ Stragglers \/ DOMAIN child.waits = {}
  /\ Fails

(* Its client times out on a request the server still handles, and retries. *)
Abandon ==
  /\ Running /\ Stragglers /\ lost < MaxLost
  /\ \E s \in DOMAIN child.waits :
       /\ child.waits[s] = child.sent
       /\ child' = [child EXCEPT !.sent = @ - 1, !.waits = Remove(@, s)]
  /\ lost' = lost + 1
  /\ UNCHANGED <<ctrlVars, srvVars, stage, base, mm, vi>>

(* Replies of the server, as the program sees them.                         *)
ReplyTo(s, body) ==
  IF Waiting(s)
    THEN child' = [child EXCEPT !.bodies = Add(@, child.waits[s], body),
                                !.waits = Remove(@, s)]
    ELSE child' = child

Answer(s) == M!Answer(s) /\ ReplyTo(s, hd[s].body) /\ UNCHANGED lost
AnswerFixed(s) == M!AnswerFixed(s) /\ ReplyTo(s, NoFunction) /\ UNCHANGED lost

(* The write timeout passes or the connection breaks: the program retries.  *)
LoseAnswer(s) ==
  /\ lost < MaxLost
  /\ M!Answer(s) /\ Waiting(s) /\ child.waits[s] = child.sent
  /\ lost' = lost + 1
  /\ child' = [child EXCEPT !.sent = @ - 1, !.waits = Remove(@, s)]

(* Variant: the program does not notice that its request failed.            *)
ErrorUnnoticed(s) == M!Refuse(s) /\ UNCHANGED <<child, lost>>

Error(s) ==
  /\ M!Refuse(s)
  /\ child' = IF Waiting(s) THEN [child EXCEPT !.failed = TRUE, !.waits = Remove(@, s)]
              ELSE child
  /\ UNCHANGED lost

Server ==
  /\ exit = -1
  /\ \E s \in Slots :
       \/ M!Handle(s) /\ UNCHANGED <<child, lost>>
       \/ Answer(s) \/ AnswerFixed(s) \/ LoseAnswer(s) \/ Error(s)
  /\ UNCHANGED <<ctrlVars, stage, base, mm, vi>>

Execute == Configure \/ MapModels \/ VibrateInit \/ Compare \/ Link
Program == Send \/ GiveUp \/ Abandon

Next == Ctrl \/ Launch \/ Serve \/ Execute \/ Program \/ Server

SafetySpec == Init /\ [][Next]_vars

(* The goroutines run on, and the program makes its requests or gives up.   *)
Spec ==
  /\ SafetySpec
  /\ WF_vars(Ctrl \/ Launch \/ Execute) /\ WF_vars(Serve)
  /\ WF_vars(Program) /\ WF_vars(Server)

-------------------------------------------------------------------------------
(* Properties.                                                              *)

(* Types of what Bridge adds, and how its stage goes with Run's.            *)
TypeOK ==
  /\ stage \in {"idle", "init", "run", "vinit", "vrun", "link"}
  /\ stage # "idle" <=> pc = "exec"
  /\ vi \in 0..(Len(IF i \in 1..N THEN Exec[i].vibs ELSE <<>>) + 1)
  /\ lost \in 0..MaxLost
  /\ R!IsModelMap(mm)
  /\ DOMAIN child.waits \subseteq M!Busy
  /\ child.failed \in BOOLEAN
  /\ stage \in {"run", "vrun"} =>
       DOMAIN child.bodies \cap Range(child.waits) = {}

(* Where property a of the application model really comes from.             *)
RequestOf(k) == M!Modified(Reqs[k], M!Match(Exec[i].ovs, Reqs[k].path))
TruePositions(a) ==
  {M!Position(RequestOf(c[1]), c[2]) : c \in Range(Exec[i].app[a].from)}

(* A model map (map.go:18-20, 48-49) maps a property of the application     *)
(* model to the definition it comes from in the API model: each position of *)
(* a property is that of a leaf the program made it from.                   *)
MappingSound == \A a \in DOMAIN mm : mm[a] \subseteq TruePositions(a)

(* A property that alone copies a leaf with a generated value, one that no  *)
(* override has set, is mapped once the base run has been evaluated.        *)
AloneCopies(a) ==
  /\ Exec[i].app[a].copy
  /\ \A b \in DOMAIN Exec[i].app : b # a => Exec[i].app[b].from # Exec[i].app[a].from

MappingComplete ==
  stage \in {"vinit", "vrun", "link"} =>
    \A a \in DOMAIN base.app :
      AloneCopies(a) /\ base.app[a][1].kind = "fresh" => a \in DOMAIN mm

(* When vibrate finds the sequences equal, the two runs were answered the   *)
(* same, but for the vibrated leaf and the clock: a difference between the  *)
(* application models is the vibration's.                                   *)
SameButVibrated ==
  stage = "vrun" /\ Complete /\ seqs = base.seq =>
    \A k \in DOMAIN child.bodies :
      /\ DOMAIN child.bodies[k] = DOMAIN base.bodies[k]
      /\ \A l \in DOMAIN child.bodies[k] :
           \/ child.bodies[k][l] = base.bodies[k][l]
           \/ l = Vib.leaf /\ RequestOf(k).path \in Vib.paths
           \/ base.bodies[k][l].kind = "time"

(* Bridge implements CtrlRun: execute, however it goes, is one step of Run. *)
RefinesRun == R!SafetySpec

(* It is a lawful environment of the mock server: what MockServer was       *)
(* checked under is what the control loop and the program do.               *)
RefinesServer == M!Init /\ [][M!Next]_(M!vars)

(* The bridge ends, whatever the server answers and the program does.       *)
Termination == <>(pc = "exit")

(* No request hangs: as long as the process lives, whatever the control     *)
(* loop resets under a handler (server.go:262) and whoever still waits.     *)
RequestsEnd == \A s \in Slots : ~M!At(s, "idle") ~> M!At(s, "idle") \/ exit # -1

(* README.md:249 says of a vibration's path: the JSON pointer references a  *)
(* leaf location within the response.  The leaf it vibrated is found.       *)
LeafIsFound ==
  stage = "vrun" /\ Complete /\ vibrationRecord # None /\ ~UnfitRecord => VibratedPosition # {}

(* map.go:89-92: a nil position in a model map is answered with an error.   *)
(* The bridge does not crash over it, but only where a vibration record is  *)
(* taken apart that does not fit (ctrl.go:470).                             *)
NilIsAnError == exit = R!Panicked => vibrationRecord # None /\ UnfitRecord
===============================================================================
