----------------------------- MODULE MappingProofs -----------------------------
(***************************************************************************)
(* Proofs about the model map that execute makes, for any programs that    *)
(* wait for each answer and any number of executions, responses, overrides *)
(* and vibrations.                                                          *)
(***************************************************************************)
EXTENDS BridgeProofs

(* The program makes one request at a time and ends before the next run.    *)
OneByOne == ~Overlap /\ ~Stragglers /\ BoundsSuffice

(* The override that request k of execution j matches, the request it makes *)
(* of it, and whether the answer is fixed.                                  *)
OvIn(j, k) == MP!Match(Exec[j].ovs, Exec[j].reqs[k].path)
RequestIn(j, k) == MP!Modified(Exec[j].reqs[k], OvIn(j, k))
FixedIn(j, k) == Exec[j].reqs[k].path = TokenPath \/ OvIn(j, k).body

-------------------------------------------------------------------------------
(* The inductive invariant.                                                 *)

(* The configuration of the run at hand.                                    *)
SetupInv ==
  /\ stage \in {"run", "vinit", "vrun", "link"} => overrides = Exec[i].ovs
  /\ stage = "run" => vibration = None
  /\ stage = "vrun" => vibration = Vib

(* Handler h serves request k of execution j.                               *)
Serves(j, h, k) ==
  /\ k \in DOMAIN Exec[j].reqs
  /\ h.pc = "match" => h.url = Exec[j].reqs[k]
  /\ h.pc = "fixed" => FixedIn(j, k)
  /\ h.pc \notin {"match", "fixed"} =>
       ~FixedIn(j, k) /\ h.url = RequestIn(j, k) /\ h.ov = OvIn(j, k)

(* The records are of requests of the program; body b is what its request k *)
(* was answered with.                                                       *)
AskedFor(j, r) == \E k \in DOMAIN Exec[j].reqs : ~FixedIn(j, k) /\ r.url = RequestIn(j, k)
Received(j, ans, recs, k, b) ==
  /\ k \in DOMAIN Exec[j].reqs
  /\ \/ FixedIn(j, k) /\ b = NoFunction
     \/ /\ ~FixedIn(j, k)
        /\ \E q \in DOMAIN ans : ans[q] = b /\ recs[q].url = RequestIn(j, k)

(* No two leaves of what the program has got hold the same generated value. *)
BodiesApart(bodies) ==
  \A k, n \in DOMAIN bodies : \A l \in DOMAIN bodies[k], d \in DOMAIN bodies[n] :
    MP!Generated(bodies[k][l]) /\ bodies[k][l] = bodies[n][d] => k = n /\ l = d

ProgramInv ==
  Asks =>
    /\ child.failed => DOMAIN child.waits = {} /\ ~Complete
    /\ \A s \in DOMAIN child.waits : Serves(i, hd[s], child.waits[s])
    /\ \A q \in DOMAIN records : AskedFor(i, records[q])
    /\ \A k \in DOMAIN child.bodies : Received(i, answered, records, k, child.bodies[k])
    /\ BodiesApart(child.bodies)

Served == MP!RunInv /\ MP!VibrationInv /\ MP!Serial

-------------------------------------------------------------------------------
(* Two runs with the same sequence of invocations.                          *)

(* No two requests of a program ask for the same.                           *)
DistinctRequests ==
  \A j \in 1..N : \A k, n \in DOMAIN Exec[j].reqs :
    ~FixedIn(j, k) /\ ~FixedIn(j, n) /\ RequestIn(j, k) = RequestIn(j, n) => k = n

ExplInv == Asks /\ ~child.failed /\ MP!Unrefused => MP!ExplainedInv

(* Body b of request k is that of the last entry of q that asks for it.     *)
AnsweredAs(j, q, w, k, b) ==
  \/ FixedIn(j, k) /\ b = NoFunction
  \/ /\ ~FixedIn(j, k)
     /\ \E n \in DOMAIN q : /\ q[n].url = RequestIn(j, k)
                            /\ \A m \in DOMAIN q : m > n => q[m].url # RequestIn(j, k)
                            /\ MP!Explains(q, n, OvIn(j, k).patch, w, b)

BodiesInv ==
  Asks => \A k \in DOMAIN child.bodies : AnsweredAs(i, seqs, vibration, k, child.bodies[k])
Judged == stage \in {"vinit", "vrun", "link"}
BaseInv ==
  Judged => /\ base.app = AppModel(base.bodies)
            /\ DOMAIN base.bodies = DOMAIN Reqs
            /\ \A k \in DOMAIN base.bodies : AnsweredAs(i, base.seq, None, k, base.bodies[k])

-------------------------------------------------------------------------------
(* One request at a time.                                                   *)
Calm == MP!TypeInv /\ Places /\ ChildInv /\ Served

LEMMA ReqsAre ==
  ASSUME Places, stage # "idle"
  PROVE  i \in 1..N /\ Reqs \in Seq(Urls) /\ DOMAIN Reqs = 1..Len(Reqs) /\ Len(Reqs) \in Nat
<1>1. i \in 1..N
  BY DEF Places
<1>2. Reqs \in Seq(Urls)
  BY <1>1, ExecAssumption DEF Reqs
<1>. QED
  BY <1>1, <1>2

(* A handler that works serves the one request the program waits for.       *)
LEMMA ServesOne ==
  ASSUME ~Stragglers, Calm, NEW s \in Slots, hd[s].pc # "idle"
  PROVE  /\ Asks /\ DOMAIN child.waits = {s}
         /\ child.waits[s] \in DOMAIN Reqs /\ child.waits[s] \notin DOMAIN child.bodies
<1>. USE DEF Calm
<1>1. s \in DOMAIN child.waits /\ ChildOK(child)
  BY DEF ChildInv
<1>2. Asks
  BY <1>1 DEF ChildInv
<1>3. DOMAIN child.waits \subseteq Slots
  BY <1>1, PartialIs DEF ChildOK, ChildTypes
<1>4. \A t \in DOMAIN child.waits : t = s
  BY <1>3 DEF ChildInv, Served, MP!Serial, MP!SerialInv
<1>5. child.waits[s] \in 1..child.sent /\ child.waits[s] \notin DOMAIN child.bodies
      /\ child.sent <= Len(Reqs) /\ child.sent \in Nat
  BY <1>1, <1>2 DEF ChildOK, ChildTypes, ChildInv
<1>6. DOMAIN Reqs = 1..Len(Reqs) /\ Len(Reqs) \in Nat
  BY <1>2, ReqsAre DEF Asks
<1>7. child.waits[s] \in DOMAIN Reqs
  BY <1>5, <1>6
<1>. QED
  BY <1>1, <1>2, <1>4, <1>5, <1>7

(* The ends of a request, as the program sees them.                         *)
Gets(s, b) == /\ child'.bodies = Add(child.bodies, child.waits[s], b)
              /\ child'.failed = child.failed
Loses == child'.bodies = child.bodies /\ child'.failed = child.failed
Breaks == child'.bodies = child.bodies /\ child'.failed = TRUE

LEMMA ServerServes ==
  ASSUME ~Stragglers, Calm, Server
  PROVE  \E s \in Slots :
           /\ Asks /\ DOMAIN child.waits = {s}
           /\ child.waits[s] \in DOMAIN Reqs /\ child.waits[s] \notin DOMAIN child.bodies
           /\ UNCHANGED <<stage, i, base, mm, vi>>
           /\ \/ MP!Handle(s) /\ child' = child
              \/ /\ MP!Reply(s) /\ DOMAIN child'.waits = {}
                 /\ \/ hd[s].pc = "answer" /\ Gets(s, hd[s].body)
                    \/ hd[s].pc = "fixed" /\ Gets(s, NoFunction)
                    \/ hd[s].pc = "answer" /\ Loses
                    \/ hd[s].pc \in {"refuse", "abort"} /\ Breaks
<1>. USE DEF Calm
<1>1. PICK s \in Slots : \/ M!Handle(s) /\ UNCHANGED <<child, lost>>
                         \/ Answer(s) \/ AnswerFixed(s) \/ LoseAnswer(s) \/ Error(s)
  BY DEF Server
<1>2. UNCHANGED <<stage, i, base, mm, vi>>
  BY DEF Server, ctrlVars
<1>3. hd[s].pc # "idle"
  BY <1>1, HandlerMoves DEF Answer, AnswerFixed, LoseAnswer, Error, M!Answer, M!AnswerFixed,
                            M!Refuse, M!At
<1>4. /\ Asks /\ DOMAIN child.waits = {s}
      /\ child.waits[s] \in DOMAIN Reqs /\ child.waits[s] \notin DOMAIN child.bodies
  BY <1>3, ServesOne
<1>5. child \in ChildTypes /\ ChildOK(child) /\ Waiting(s)
  BY <1>4 DEF ChildInv, ChildOK, Waiting
<1>6. CASE M!Handle(s) /\ UNCHANGED <<child, lost>>
  BY <1>2, <1>4, <1>6, SameHandle
<1>. DEFINE W == Remove(child.waits, s)
            A(b) == Add(child.bodies, child.waits[s], b)
<1>7. DOMAIN W = {}
  BY <1>4 DEF Remove
<1>8. ASSUME NEW b, ReplyTo(s, b) PROVE DOMAIN child'.waits = {} /\ Gets(s, b)
  <2>1. child' = [child EXCEPT !.bodies = A(b), !.waits = W]
    BY <1>5, <1>8 DEF ReplyTo
  <2>. HIDE DEF A, W
  <2>2. child'.bodies = A(b) /\ child'.waits = W /\ child'.failed = child.failed
    BY <1>5, <2>1 DEF ChildTypes
  <2>. QED
    BY <1>7, <2>2 DEF Gets, A
<1>9. CASE Answer(s)
  BY <1>2, <1>4, <1>8, <1>9, SameReply DEF Answer, M!Answer, M!At, MP!Reply
<1>10. CASE AnswerFixed(s)
  BY <1>2, <1>4, <1>8, <1>10, SameReply DEF AnswerFixed, M!AnswerFixed, M!At, MP!Reply
<1>11. CASE LoseAnswer(s)
  <2>1. child' = [child EXCEPT !.sent = @ - 1, !.waits = W] /\ M!Answer(s)
    BY <1>11 DEF LoseAnswer
  <2>. HIDE DEF W
  <2>2. child'.bodies = child.bodies /\ child'.waits = W /\ child'.failed = child.failed
    BY <1>5, <2>1 DEF ChildTypes
  <2>. QED
    BY <1>2, <1>4, <1>7, <2>1, <2>2, SameReply DEF M!Answer, M!At, MP!Reply, Loses
<1>12. CASE Error(s)
  <2>1. child' = [child EXCEPT !.failed = TRUE, !.waits = W] /\ M!Refuse(s)
    BY <1>5, <1>12 DEF Error
  <2>. HIDE DEF W
  <2>2. child'.bodies = child.bodies /\ child'.waits = W /\ child'.failed = TRUE
    BY <1>5, <2>1 DEF ChildTypes
  <2>. QED
    BY <1>2, <1>4, <1>7, <2>1, <2>2, SameReply DEF M!Refuse, M!At, MP!Reply, Breaks
<1>. QED
  BY <1>1, <1>6, <1>9, <1>10, <1>11, <1>12

(* The steps, by what they do to the requests of the program.               *)
LEMMA StepSplit ==
  ASSUME Calm, [Next]_vars
  PROVE  \/ UNCHANGED <<srvVars, stage, i, child, base, mm, vi>>
         \/ ~Asks' /\ UNCHANGED srvVars
         \/ StartBase \/ StartVibrated \/ Send \/ Server \/ Abandon
<1>. USE DEF Calm
<1>1. CASE Ctrl
  <2>1. pc # "exec" /\ UNCHANGED <<srvVars, stage>>
    BY <1>1 DEF Ctrl, R!Start, R!SkipByWindow, R!SkipMarked, R!WriteResult, R!Shutdown, R!Finish,
                exeVars
  <2>. QED
    BY <2>1 DEF Places, Asks
<1>2. CASE Launch
  BY <1>2 DEF Launch, Asks
<1>3. CASE Serve
  BY <1>3 DEF Serve, R!Serve, R!Bind, R!ServeReturns, R!CloseChannel, R!loopVars, exeVars
<1>4. CASE Ends
  BY <1>4 DEF Ends, Ended, Asks
<1>5. CASE MapsBase
  BY <1>5 DEF MapsBase, NextVibration, Asks
<1>6. CASE \E m : Adds(m)
  BY <1>6 DEF Adds, AddMap, NextVibration, Asks
<1>7. CASE UNCHANGED vars
  BY <1>7 DEF vars, exeVars, ctrlVars
<1>. QED
  BY <1>1, <1>2, <1>3, <1>4, <1>5, <1>6, <1>7, NextSplit

LEMMA HandlersLeaveSetup ==
  ASSUME Server \/ Send PROVE UNCHANGED <<overrides, vibration, stage, i, vi, base, mm>>
<1>1. CASE Send
  BY <1>1 DEF Send, M!Arrive, M!shared, ctrlVars
<1>2. CASE Server
  <2>1. PICK s \in Slots : M!Handle(s) \/ M!Answer(s) \/ M!AnswerFixed(s) \/ M!Refuse(s)
    BY <1>2 DEF Server, Answer, AnswerFixed, LoseAnswer, Error
  <2>2. UNCHANGED <<overrides, vibration>>
    <3>1. CASE M!Handle(s)
      BY <3>1 DEF M!Handle, M!shared, M!MatchOverride, M!Expand, M!CacheSave, M!SynthConst,
         M!SynthRead, M!SynthBump, M!SynthGen, M!Select, M!AppendSeq, M!Patch, M!Vibrate, M!Decode,
         M!AppendRecord, M!MarkVibration
    <3>2. CASE M!Answer(s) \/ M!AnswerFixed(s) \/ M!Refuse(s)
      BY <3>2 DEF M!shared, M!Answer, M!AnswerFixed, M!Refuse, M!Release
    <3>. QED
      BY <2>1, <3>1, <3>2
  <2>. QED
    BY <1>2, <2>2 DEF Server, ctrlVars
<1>. QED
  BY <1>1, <1>2

LEMMA SetupStep == ASSUME ~Stragglers, Calm, SetupInv, [Next]_vars PROVE SetupInv'
<1>. USE DEF Calm
<1>1. CASE Ctrl
  <2>1. pc # "exec" /\ UNCHANGED stage
    BY <1>1 DEF Ctrl, R!Start, R!SkipByWindow, R!SkipMarked, R!WriteResult, R!Shutdown, R!Finish,
                exeVars
  <2>. QED
    BY <2>1 DEF Places, SetupInv
<1>2. CASE Launch
  BY <1>2 DEF Launch, SetupInv
<1>3. CASE Serve
  BY <1>3 DEF Serve, R!Serve, R!Bind, R!ServeReturns, R!CloseChannel, R!loopVars, exeVars,
              srvVars, SetupInv, Vib
<1>4. CASE Ends
  BY <1>4 DEF Ends, Ended, SetupInv
<1>5. CASE MapsBase
  <2>1. stage = "run" /\ stage' \in {"vinit", "link"} /\ UNCHANGED <<overrides, i>>
    BY <1>5 DEF MapsBase, NextVibration, ctrlVars, srvVars
  <2>. QED
    BY <2>1 DEF SetupInv
<1>6. CASE \E m : Adds(m)
  <2>1. stage = "vrun" /\ stage' \in {"vinit", "link"} /\ UNCHANGED <<overrides, i>>
    BY <1>6 DEF Adds, AddMap, NextVibration, ctrlVars, srvVars
  <2>. QED
    BY <2>1 DEF SetupInv
<1>7. CASE UNCHANGED vars
  BY <1>7 DEF vars, exeVars, ctrlVars, srvVars, SetupInv, Vib
<1>8. CASE StartBase
  BY <1>8 DEF StartBase, M!InitExecution, M!InitVibration, ctrlVars, SetupInv
<1>9. CASE StartVibrated
  BY <1>9 DEF StartVibrated, M!InitVibration, ctrlVars, SetupInv, Vib
<1>10. CASE Send \/ Server
  BY <1>10, HandlersLeaveSetup DEF SetupInv, Vib
<1>11. CASE Abandon
  BY <1>11 DEF Abandon
<1>. QED
  BY <1>1, <1>2, <1>3, <1>4, <1>5, <1>6, <1>7, <1>8, <1>9, <1>10, <1>11, NextSplit

(* What is proved of the mock server holds in the bridge.                   *)
LEMMA ServerMoves ==
  ASSUME OneByOne, NEW B, Affords(B), IInv(B), [Next]_vars
  PROVE  [MP!Next]_(MP!vars)
<1>1. RetriesOverlap
  BY DEF OneByOne, RetriesOverlap
<1>2. [M!Next]_(M!vars)
  BY <1>1, ServerStep DEF OneByOne, IInv
<1>. QED
  BY <1>2, SameNext DEF M!vars, MP!vars, M!shared, MP!shared

LEMMA ServedStep ==
  ASSUME OneByOne, NEW B, Affords(B), IInv(B), Served, [Next]_vars PROVE Served'
<1>1. [MP!Next]_(MP!vars) /\ ~Stragglers /\ ~Overlap /\ MP!TypeInv
  BY ServerMoves DEF OneByOne, IInv
<1>2. MP!RunInv'
  BY <1>1, MP!RunStep, ServerConstants, Zenon DEF Served
<1>3. MP!VibrationInv'
  BY <1>1, MP!VibrationStep, ServerConstants, Zenon DEF Served
<1>4. MP!Serial'
  BY <1>1, MP!SerialKept, ServerConstants, Zenon DEF Served
<1>. QED
  BY <1>2, <1>3, <1>4 DEF Served

LEMMA ServedInit == Init => Served
<1>. SUFFICES ASSUME Init PROVE Served
  OBVIOUS
<1>1. MP!Init
  BY SameInit DEF Init
<1>2. MP!RunInv /\ MP!VibrationInv
  BY <1>1, MP!RunInit, ServerConstants, Zenon
<1>3. MP!Serial
  BY <1>1, MP!SerialInit, ServerConstants, Zenon
<1>. QED
  BY <1>2, <1>3 DEF Served

-------------------------------------------------------------------------------
(* What a handler does for the request it serves.                           *)
LEMMA HandlerServes ==
  ASSUME MP!TypeInv, NEW s \in Slots, MP!Handle(s), NEW j \in 1..N, overrides = Exec[j].ovs,
         NEW k, Serves(j, hd[s], k)
  PROVE  Serves(j, hd'[s], k)
<1>1. hd \in [Slots -> MP!Handlers]
  BY DEF MP!TypeInv
<1>2. CASE MP!MatchOverride(s)
  <2>1. /\ hd[s].pc = "match" /\ hd[s].url = Exec[j].reqs[k]
    BY <1>2 DEF MP!MatchOverride, MP!At, Serves
  <2>2. CASE FixedIn(j, k)
    <3>1. hd' = [hd EXCEPT ![s].pc = "fixed"]
      BY <1>2, <2>1, <2>2 DEF MP!MatchOverride, FixedIn, OvIn
    <3>2. hd'[s].pc = "fixed"
      BY <1>1, <3>1 DEF MP!Handlers
    <3>. QED
      BY <2>2, <3>2 DEF Serves
  <2>3. CASE ~FixedIn(j, k)
    <3>1. hd' = [hd EXCEPT ![s].pc = "expand", ![s].ov = OvIn(j, k), ![s].url = RequestIn(j, k)]
      BY <1>2, <2>1, <2>3 DEF MP!MatchOverride, FixedIn, OvIn, RequestIn
    <3>2. hd'[s].pc = "expand" /\ hd'[s].ov = OvIn(j, k) /\ hd'[s].url = RequestIn(j, k)
      BY <1>1, <3>1 DEF MP!Handlers
    <3>. QED
      BY <2>3, <3>2 DEF Serves
  <2>. QED
    BY <2>2, <2>3
<1>3. CASE ~MP!MatchOverride(s)
  <2>1. hd[s].pc \notin {"match", "fixed"} /\ hd'[s].pc \notin {"match", "fixed"}
    BY <1>1, <1>3 DEF MP!Handle, MP!At, MP!Handlers, MP!Expand, MP!CacheSave, MP!SynthConst,
       MP!SynthRead, MP!SynthBump, MP!SynthGen, MP!Select, MP!AppendSeq, MP!Patch, MP!Vibrate,
       MP!Decode, MP!AppendRecord, MP!MarkVibration
  <2>2. hd'[s].url = hd[s].url /\ hd'[s].ov = hd[s].ov
    BY <2>1, MP!KeepsRequest, ServerConstants, Zenon
  <2>. QED
    BY <2>1, <2>2 DEF Serves
<1>. QED
  BY <1>2, <1>3

LEMMA HandlerRecords ==
  ASSUME Calm, NEW s \in Slots, MP!Handle(s)
  PROVE  /\ UNCHANGED answered
         /\ \/ UNCHANGED records
            \/ /\ hd[s].pc = "record"
               /\ records' = Append(records, MP!RecordOf(hd[s]))
<1>1. MP!TypeInv /\ \A t \in Slots : hd[t].pc = "record" => hd[t].snap = records
  BY DEF Calm, Served, MP!Serial, MP!AnswerInv
<1>2. UNCHANGED answered
  BY <1>1, MP!HandleStaysBusy, ServerConstants, Zenon
<1>3. CASE MP!AppendRecord(s)
  <2>1. hd[s].pc = "record" /\ records' = Append(hd[s].snap, MP!RecordOf(hd[s]))
    BY <1>1, <1>3, MP!AppendRecordStep, ServerConstants, Zenon
  <2>. QED
    BY <1>1, <1>2, <2>1
<1>4. CASE ~MP!AppendRecord(s)
  <2>1. UNCHANGED records
    BY <1>4 DEF MP!Handle, MP!shared, MP!MatchOverride, MP!Expand, MP!CacheSave, MP!SynthConst,
       MP!SynthRead, MP!SynthBump, MP!SynthGen, MP!Select, MP!AppendSeq, MP!Patch, MP!Vibrate,
       MP!Decode, MP!MarkVibration
  <2>. QED
    BY <1>2, <2>1
<1>. QED
  BY <1>3, <1>4

LEMMA ReplyAnswers ==
  ASSUME Calm, NEW s \in Slots, MP!Reply(s)
  PROVE  /\ UNCHANGED records
         /\ hd[s].pc # "answer" => UNCHANGED answered
         /\ hd[s].pc = "answer" =>
              /\ answered' = Append(answered, hd[s].body)
              /\ answered \in Seq(MP!Bodies) /\ records \in Seq(MP!Records)
              /\ Len(records) = Len(answered) + 1
              /\ records[Len(records)] = MP!RecordOf(hd[s])
<1>1. MP!TypeInv /\ MP!RunInv /\ MP!AnswerInv
  BY DEF Calm, Served, MP!Serial
<1>2. /\ hd[s].pc # "idle" /\ UNCHANGED records
      /\ answered' = IF hd[s].pc = "answer" /\ hd[s].run = run THEN Append(answered, hd[s].body)
                     ELSE answered
  <2>1. /\ hd[s].pc \in {"answer", "fixed", "refuse", "abort"} /\ UNCHANGED records
        /\ answered' = IF hd[s].pc = "answer" /\ hd[s].run = run
                         THEN Append(answered, hd[s].body) ELSE answered
    BY <1>1, MP!ReplyStep, ServerConstants, Zenon
  <2>. QED
    BY <2>1
<1>3. hd[s].run = run
  BY <1>1, <1>2 DEF MP!RunInv
<1>4. ASSUME hd[s].pc = "answer"
      PROVE  Len(records) = Len(answered) + 1 /\ records[Len(records)] = MP!RecordOf(hd[s])
  <2>1. s \in MP!Recorded
    BY <1>4 DEF MP!Recorded
  <2>. QED
    BY <1>1, <2>1 DEF MP!AnswerInv
<1>. QED
  BY <1>1, <1>2, <1>3, <1>4 DEF MP!TypeInv

(* An answer stays what it was, however the sequences grow.                 *)
LEMMA ReceivedStays ==
  ASSUME NEW j, NEW S, NEW T, NEW ans \in Seq(S), NEW recs \in Seq(T), Len(ans) <= Len(recs),
         NEW a2, a2 = ans \/ \E b \in S : a2 = Append(ans, b),
         NEW r2, r2 = recs \/ \E r \in T : r2 = Append(recs, r),
         NEW k, NEW x, Received(j, ans, recs, k, x)
  PROVE  Received(j, a2, r2, k, x)
<1>1. ASSUME NEW q \in DOMAIN ans PROVE q \in DOMAIN a2 /\ a2[q] = ans[q] /\ r2[q] = recs[q]
  <2>1. q \in 1..Len(ans) /\ q \in 1..Len(recs) /\ Len(ans) \in Nat /\ Len(recs) \in Nat
    OBVIOUS
  <2>2. q \in DOMAIN a2 /\ a2[q] = ans[q]
    BY <2>1
  <2>3. r2[q] = recs[q]
    BY <2>1
  <2>. QED
    BY <2>2, <2>3
<1>. QED
  BY <1>1 DEF Received

(* A further body that shares no generated value with the others.           *)
LEMMA ApartAdd ==
  ASSUME NEW f, NEW k, k \notin DOMAIN f, NEW b, BodiesApart(f),
         \A n \in DOMAIN f : \A l \in DOMAIN b, d \in DOMAIN f[n] :
           MP!Generated(b[l]) => b[l] # f[n][d],
         \A l, d \in DOMAIN b : MP!Generated(b[l]) /\ b[l] = b[d] => l = d
  PROVE  BodiesApart(Add(f, k, b))
<1>. DEFINE g == Add(f, k, b)
<1>1. DOMAIN g = DOMAIN f \cup {k} /\ g[k] = b /\ \A n \in DOMAIN f : g[n] = f[n]
  BY DEF Add
<1>. HIDE DEF g
<1>2. ASSUME NEW m \in DOMAIN g, NEW n \in DOMAIN g, NEW l \in DOMAIN g[m], NEW d \in DOMAIN g[n],
             MP!Generated(g[m][l]), g[m][l] = g[n][d]
      PROVE  m = n /\ l = d
  <2>1. CASE m = k /\ n = k
    BY <1>1, <1>2, <2>1
  <2>2. CASE m = k /\ n # k
    BY <1>1, <1>2, <2>2
  <2>3. CASE m # k /\ n = k
    BY <1>1, <1>2, <2>3
  <2>4. CASE m # k /\ n # k
    BY <1>1, <1>2, <2>4 DEF BodiesApart
  <2>. QED
    BY <2>1, <2>2, <2>3, <2>4
<1>3. BodiesApart(g)
  BY <1>2 DEF BodiesApart
<1>. QED
  BY <1>3 DEF g

LEMMA ProgramHandle ==
  ASSUME ~Stragglers, Calm, SetupInv, ProgramInv, Asks, NEW s \in Slots, DOMAIN child.waits = {s},
         MP!Handle(s), child' = child, UNCHANGED <<stage, i>>
  PROVE  ProgramInv'
<1>. DEFINE k == child.waits[s]
<1>1. i \in 1..N /\ overrides = Exec[i].ovs /\ Asks' /\ MP!TypeInv
  BY ReqsAre DEF Asks, SetupInv, Calm
<1>2. /\ ~child.failed /\ Serves(i, hd[s], k)
      /\ \A q \in DOMAIN records : AskedFor(i, records[q])
      /\ \A n \in DOMAIN child.bodies : Received(i, answered, records, n, child.bodies[n])
      /\ BodiesApart(child.bodies)
  BY DEF ProgramInv
<1>3. Serves(i, hd'[s], k)
  BY <1>1, <1>2, HandlerServes
<1>4. /\ records \in Seq(MP!Records) /\ answered \in Seq(MP!Bodies)
      /\ Len(answered) <= Len(records)
      /\ Len(records) \in Nat
  <2>1. records \in Seq(MP!Records) /\ answered \in Seq(MP!Bodies) /\ MP!AnswerInv
    BY DEF Calm, MP!TypeInv, Served, MP!Serial
  <2>2. Len(records) = Len(answered) + 1 \/ Len(records) = Len(answered)
    BY <2>1 DEF MP!AnswerInv
  <2>. QED
    BY <2>1, <2>2
<1>5. CASE UNCHANGED records
  <2>1. UNCHANGED answered
    BY HandlerRecords
  <2>. QED
    BY <1>1, <1>2, <1>3, <1>5, <2>1 DEF ProgramInv, Complete, Reqs
<1>6. CASE hd[s].pc = "record" /\ records' = Append(records, MP!RecordOf(hd[s]))
  <2>. DEFINE r == MP!RecordOf(hd[s])
  <2>1. UNCHANGED answered
    BY HandlerRecords
  <2>2. AskedFor(i, r)
    <3>1. r.url = hd[s].url
      BY DEF MP!RecordOf
    <3>. QED
      BY <1>2, <1>6, <3>1 DEF Serves, AskedFor
  <2>3. r \in MP!Records
    <3>1. MP!AppendRecord(s) \/ ~MP!AppendRecord(s)
      OBVIOUS
    <3>2. hd[s].pc = "record" /\ MP!Handle(s) => MP!AppendRecord(s)
      BY DEF MP!Handle, MP!At, MP!MatchOverride, MP!Expand, MP!CacheSave, MP!SynthConst,
         MP!SynthRead, MP!SynthBump, MP!SynthGen, MP!Select, MP!AppendSeq, MP!Patch, MP!Vibrate,
         MP!Decode, MP!MarkVibration
    <3>3. MP!AppendRecord(s)
      BY <1>6, <3>2
    <3>. QED
      BY <1>1, <3>3, MP!AppendRecordStep, ServerConstants, Zenon
  <2>. HIDE DEF r
  <2>a. records' = Append(records, r)
    BY <1>6 DEF r
  <2>4. \A q \in DOMAIN records' : AskedFor(i, records'[q])
    <3>1. \A q \in DOMAIN records' : records'[q] = r \/ (q \in DOMAIN records /\ records'[q] = records[q])
      BY <1>4, <2>3, <2>a
    <3>. QED
      BY <1>2, <2>2, <3>1
  <2>5. \A n \in DOMAIN child.bodies : Received(i, answered, records', n, child.bodies[n])
    <3>1. records' = records \/ \E x \in MP!Records : records' = Append(records, x)
      BY <2>3, <2>a
    <3>2. ASSUME NEW n \in DOMAIN child.bodies
          PROVE  Received(i, answered, records', n, child.bodies[n])
      <4>1. Received(i, answered, records, n, child.bodies[n])
        BY <1>2
      <4>2. answered = answered \/ \E b \in MP!Bodies : answered = Append(answered, b)
        OBVIOUS
      <4>. QED
        BY <1>4, <3>1, <4>1, <4>2, ReceivedStays
    <3>. QED
      BY <3>2
  <2>. QED
    BY <1>1, <1>2, <1>3, <2>1, <2>4, <2>5 DEF ProgramInv, Complete, Reqs
<1>. QED
  BY <1>5, <1>6, HandlerRecords

LEMMA ProgramReply ==
  ASSUME ~Stragglers, Calm, ProgramInv, Asks, NEW s \in Slots, DOMAIN child.waits = {s},
         child.waits[s] \in DOMAIN Reqs, child.waits[s] \notin DOMAIN child.bodies,
         MP!Reply(s), DOMAIN child'.waits = {}, UNCHANGED <<stage, i>>,
         \/ hd[s].pc = "answer" /\ Gets(s, hd[s].body)
         \/ hd[s].pc = "fixed" /\ Gets(s, NoFunction)
         \/ hd[s].pc = "answer" /\ Loses
         \/ hd[s].pc \in {"refuse", "abort"} /\ Breaks
  PROVE  ProgramInv'
<1>. DEFINE k == child.waits[s]
            n == Len(records)
            r == MP!RecordOf(hd[s])
<1>1. /\ ~child.failed /\ Serves(i, hd[s], k)
      /\ \A q \in DOMAIN records : AskedFor(i, records[q])
      /\ \A m \in DOMAIN child.bodies : Received(i, answered, records, m, child.bodies[m])
      /\ BodiesApart(child.bodies)
  BY DEF ProgramInv
<1>2. /\ records' = records
      /\ hd[s].pc # "answer" => answered' = answered
      /\ hd[s].pc = "answer" =>
           /\ answered' = Append(answered, hd[s].body)
           /\ answered \in Seq(MP!Bodies) /\ records \in Seq(MP!Records)
           /\ n = Len(answered) + 1
           /\ records[n] = r
  BY ReplyAnswers
<1>3. /\ records \in Seq(MP!Records) /\ answered \in Seq(MP!Bodies)
      /\ Len(answered) <= Len(records) /\ hd[s].body \in MP!Bodies
      /\ \A q \in DOMAIN answered : q \in DOMAIN records /\ records[q].body = answered[q]
  <2>1. records \in Seq(MP!Records) /\ answered \in Seq(MP!Bodies) /\ MP!AnswerInv /\ MP!TypeInv
    BY DEF Calm, MP!TypeInv, Served, MP!Serial
  <2>2. Len(records) = Len(answered) + 1 \/ Len(records) = Len(answered)
    BY <2>1 DEF MP!AnswerInv
  <2>3. hd[s].body \in MP!Bodies
    BY <2>1, BodyOfHandler
  <2>4. \A q \in DOMAIN answered : q \in DOMAIN records
    BY <2>1, <2>2
  <2>5. \A q \in DOMAIN answered : records[q].body = answered[q]
    BY <2>1 DEF MP!AnswerInv
  <2>. QED
    BY <2>1, <2>2, <2>3, <2>4, <2>5
<1>4. ASSUME NEW m \in DOMAIN child.bodies
      PROVE  Received(i, answered', records', m, child.bodies[m])
  <2>1. answered' = answered \/ \E b \in MP!Bodies : answered' = Append(answered, b)
    BY <1>2, <1>3
  <2>2. records' = records \/ \E x \in MP!Records : records' = Append(records, x)
    BY <1>2
  <2>3. Received(i, answered, records, m, child.bodies[m])
    BY <1>1
  <2>. QED
    BY <1>3, <2>1, <2>2, <2>3, ReceivedStays
<1>5. \A q \in DOMAIN records' : AskedFor(i', records'[q])
  BY <1>1, <1>2
<1>6. CASE Loses
  BY <1>1, <1>4, <1>5, <1>6 DEF Loses, ProgramInv
<1>7. CASE Breaks
  <2>1. ~Complete'
    BY <1>7 DEF Breaks, Complete, Reqs
  <2>. QED
    BY <1>1, <1>4, <1>5, <1>7, <2>1 DEF Breaks, ProgramInv
<1>8. ASSUME NEW b, Gets(s, b), Received(i, answered', records', k, b),
             \A m \in DOMAIN child.bodies : \A l \in DOMAIN b, d \in DOMAIN child.bodies[m] :
               MP!Generated(b[l]) => b[l] # child.bodies[m][d],
             \A l, d \in DOMAIN b : MP!Generated(b[l]) /\ b[l] = b[d] => l = d
      PROVE  ProgramInv'
  <2>. DEFINE f == child.bodies
              g == Add(f, k, b)
  <2>1. child'.bodies = g /\ ~child'.failed
    BY <1>1, <1>8 DEF Gets
  <2>2. BodiesApart(g)
    BY <1>1, <1>8, ApartAdd
  <2>3. DOMAIN g = DOMAIN f \cup {k} /\ g[k] = b /\ \A m \in DOMAIN f : g[m] = f[m]
    BY DEF Add
  <2>. HIDE DEF g
  <2>4. \A m \in DOMAIN g : Received(i, answered', records', m, g[m])
    BY <1>4, <1>8, <2>3
  <2>. QED
    BY <1>5, <2>1, <2>2, <2>4 DEF ProgramInv
<1>9. CASE hd[s].pc = "fixed" /\ Gets(s, NoFunction)
  <2>1. Received(i, answered', records', k, NoFunction)
    BY <1>1, <1>9 DEF Serves, Received
  <2>2. DOMAIN NoFunction = {}
    BY DEF NoFunction
  <2>. QED
    BY <1>8, <1>9, <2>1, <2>2
<1>10. CASE hd[s].pc = "answer" /\ Gets(s, hd[s].body)
  <2>. DEFINE b == hd[s].body
  <2>1. /\ answered' = Append(answered, b) /\ n = Len(answered) + 1 /\ records[n] = r
        /\ r.body = b /\ r.url = RequestIn(i, k) /\ ~FixedIn(i, k) /\ k \in DOMAIN Exec[i].reqs
    BY <1>1, <1>2, <1>10 DEF MP!RecordOf, Serves
  <2>2. n \in DOMAIN records /\ n \in DOMAIN answered' /\ answered'[n] = b /\ n \notin DOMAIN answered
    BY <1>3, <2>1
  <2>3. Received(i, answered', records', k, b)
    BY <1>2, <2>1, <2>2 DEF Received
  <2>4. MP!FreshValuesUnique
    BY DEF Calm, Served, MP!Serial, MP!FreshInv
  <2>5. \A l, d \in DOMAIN b : MP!Generated(b[l]) /\ b[l] = b[d] => l = d
    BY <2>1, <2>2, <2>4 DEF MP!FreshValuesUnique
  <2>6. ASSUME NEW m \in DOMAIN child.bodies, NEW l \in DOMAIN b, NEW d \in DOMAIN child.bodies[m],
               MP!Generated(b[l]), b[l] = child.bodies[m][d]
        PROVE  FALSE
    <3>1. child.bodies[m] # NoFunction
      BY <2>6 DEF NoFunction
    <3>2. PICK q \in DOMAIN answered : answered[q] = child.bodies[m]
      BY <1>1, <3>1 DEF Received
    <3>3. q \in DOMAIN records /\ records[q].body = child.bodies[m] /\ q # n
      BY <1>3, <2>2, <3>2
    <3>4. records[n].body = b
      BY <2>1
    <3>. HIDE DEF b, n
    <3>. QED
      BY <2>2, <2>4, <2>6, <3>3, <3>4 DEF MP!FreshValuesUnique
  <2>. HIDE DEF b
  <2>7. \A m \in DOMAIN child.bodies : \A l \in DOMAIN b, d \in DOMAIN child.bodies[m] :
          MP!Generated(b[l]) => b[l] # child.bodies[m][d]
    BY <2>6
  <2>8. Gets(s, b)
    BY <1>10 DEF b
  <2>. QED
    BY <1>8, <2>3, <2>5, <2>7, <2>8
<1>. QED
  BY <1>6, <1>7, <1>9, <1>10

LEMMA ProgramSend ==
  ASSUME ~Overlap, Calm, ProgramInv, Send PROVE ProgramInv'
<1>1. PICK s \in Slots :
        /\ M!Arrive(s, Reqs[child.sent + 1])
        /\ child' = [child EXCEPT !.sent = @ + 1, !.waits = Add(@, s, child.sent + 1)]
  BY DEF Send
<1>2. /\ Asks /\ UNCHANGED <<stage, i>> /\ ~child.failed /\ child.sent < Len(Reqs)
      /\ DOMAIN child.waits = {} /\ child \in ChildTypes /\ MP!TypeInv
  BY ServerAssumption DEF Send, Running, Asks, ctrlVars, Calm, ChildInv, ChildOK
<1>. DEFINE n == child.sent + 1
            W == Add(child.waits, s, n)
            u == Reqs[n]
<1>3. n \in DOMAIN Reqs /\ u \in Urls
  <2>1. Reqs \in Seq(Urls) /\ DOMAIN Reqs = 1..Len(Reqs) /\ Len(Reqs) \in Nat
    BY <1>2, ReqsAre DEF Calm, Asks
  <2>2. child.sent \in Nat
    BY <1>2 DEF ChildTypes
  <2>3. n \in DOMAIN Reqs
    BY <1>2, <2>1, <2>2
  <2>. QED
    BY <2>1, <2>3
<1>4. child' = [child EXCEPT !.sent = n, !.waits = W]
  BY <1>1, <1>2 DEF ChildTypes
<1>5. DOMAIN W = {s} /\ W[s] = n
  BY <1>2 DEF Add
<1>6. MP!Arrive(s, u)
  BY <1>1, SameArrive
<1>. HIDE DEF W, n
<1>7. child'.waits = W /\ child'.bodies = child.bodies /\ child'.failed = child.failed
  BY <1>2, <1>4 DEF ChildTypes
<1>8. hd'[s].pc = "match" /\ hd'[s].url = u /\ UNCHANGED <<records, answered>>
  <2>1. /\ hd'[s] = [MP!Idle EXCEPT !.pc = "match", !.run = run, !.url = u]
        /\ UNCHANGED <<records, answered>>
    BY <1>2, <1>3, <1>6, MP!ArriveStep, ServerConstants, Zenon
  <2>. QED
    BY <2>1 DEF MP!Idle
<1>9. Serves(i, hd'[s], n)
  BY <1>3, <1>8 DEF Serves, Reqs
<1>. QED
  BY <1>2, <1>5, <1>7, <1>8, <1>9 DEF ProgramInv

LEMMA ProgramStep ==
  ASSUME ~Overlap, ~Stragglers, Calm, SetupInv, ProgramInv, [Next]_vars PROVE ProgramInv'
<1>1. CASE UNCHANGED <<srvVars, stage, i, child, base, mm, vi>>
  BY <1>1 DEF ProgramInv, srvVars, Asks, Complete, Reqs
<1>2. CASE ~Asks'
  BY <1>2 DEF ProgramInv
<1>3. CASE StartBase \/ StartVibrated
  <2>1. child' = NewChild /\ records' = <<>>
    BY <1>3 DEF StartBase, StartVibrated, M!InitExecution, M!InitVibration
  <2>2. DOMAIN NewChild.bodies = {} /\ DOMAIN NewChild.waits = {} /\ ~NewChild.failed
    BY DEF NewChild, NoFunction
  <2>3. BodiesApart(NewChild.bodies)
    BY <2>2 DEF BodiesApart
  <2>. QED
    BY <2>1, <2>2, <2>3 DEF ProgramInv
<1>4. CASE Send
  BY <1>4, ProgramSend
<1>5. CASE Server
  BY <1>5, ServerServes, ProgramHandle, ProgramReply
<1>6. CASE Abandon
  BY <1>6 DEF Abandon
<1>. QED
  BY <1>1, <1>2, <1>3, <1>4, <1>5, <1>6, StepSplit

-------------------------------------------------------------------------------
(* What the program prints.                                                 *)
Source(j, a) == Exec[j].app[a]
From(src) == src.from[1]

LEMMA SourcesAre ==
  ASSUME NEW j \in 1..N, NEW a \in DOMAIN Exec[j].app
  PROVE  /\ Source(j, a).from \in Seq(Nat \X DOMAIN Addr)
         /\ Source(j, a).copy => Len(Source(j, a).from) = 1
         /\ Source(j, a).from = <<>> => Source(j, a).own.kind \notin {"fresh", "time"}
BY ProgramsAssumption DEF Source

(* A copy shows the value of its one leaf.                                  *)
LEMMA CopyShows ==
  ASSUME NEW S, NEW src, src.from \in Seq(S), Len(src.from) = 1, src.copy, NEW bodies,
         Known(src, bodies)
  PROVE  /\ From(src)[1] \in DOMAIN bodies /\ From(src)[2] \in DOMAIN bodies[From(src)[1]]
         /\ AppValue(src, bodies) = <<bodies[From(src)[1]][From(src)[2]]>>
<1>1. DOMAIN src.from = {1} /\ src.from # <<>>
  OBVIOUS
<1>2. From(src)[1] \in DOMAIN bodies /\ From(src)[2] \in DOMAIN bodies[From(src)[1]]
  BY <1>1 DEF Known, From
<1>3. AppValue(src, bodies) = [n \in {1} |-> bodies[src.from[n][1]][src.from[n][2]]]
  BY <1>1 DEF AppValue
<1>. QED
  BY <1>2, <1>3 DEF From

(* A single value is a word of the program's own or a copy.                 *)
LEMMA ShowsOne ==
  ASSUME NEW j \in 1..N, NEW a \in DOMAIN Exec[j].app, NEW bodies, Known(Source(j, a), bodies),
         NEW v, AppValue(Source(j, a), bodies) = <<v>>
  PROVE  \/ Source(j, a).from = <<>> /\ v = Source(j, a).own
         \/ /\ Source(j, a).copy /\ Source(j, a).from = <<From(Source(j, a))>>
            /\ From(Source(j, a)) \in Nat \X DOMAIN Addr
            /\ From(Source(j, a))[1] \in DOMAIN bodies
            /\ From(Source(j, a))[2] \in DOMAIN bodies[From(Source(j, a))[1]]
            /\ v = bodies[From(Source(j, a))[1]][From(Source(j, a))[2]]
<1>. DEFINE src == Source(j, a)
<1>1. src.from \in Seq(Nat \X DOMAIN Addr) /\ (src.copy => Len(src.from) = 1)
  BY SourcesAre
<1>. HIDE DEF src
<1>2. CASE src.from = <<>>
  BY <1>2 DEF AppValue, src
<1>3. CASE src.from # <<>> /\ src.copy
  <2>1. Len(src.from) = 1
    BY <1>1, <1>3
  <2>2. src.from = <<From(src)>> /\ From(src) \in Nat \X DOMAIN Addr
    BY <1>1, <2>1 DEF From
  <2>3. /\ From(src)[1] \in DOMAIN bodies /\ From(src)[2] \in DOMAIN bodies[From(src)[1]]
        /\ AppValue(src, bodies) = <<bodies[From(src)[1]][From(src)[2]]>>
    BY <1>1, <1>3, <2>1, CopyShows DEF src
  <2>4. v = bodies[From(src)[1]][From(src)[2]]
    BY <2>3 DEF src
  <2>. QED
    BY <1>3, <2>2, <2>3, <2>4 DEF src
<1>4. CASE src.from # <<>> /\ ~src.copy
  <2>. DEFINE shown == [n \in DOMAIN src.from |-> bodies[src.from[n][1]][src.from[n][2]]]
              T == {M!Value("changed", 0)} \cup Range(shown)
  <2>1. AppValue(src, bodies) = <<M!Value("changed", 0)>> \o shown
    BY <1>4 DEF AppValue
  <2>2. DOMAIN src.from = 1..Len(src.from) /\ Len(src.from) \in Nat /\ Len(src.from) > 0
    BY <1>1, <1>4
  <2>3. shown \in Seq(T) /\ Len(shown) = Len(src.from)
    <3>1. shown \in [1..Len(src.from) -> T]
      BY <2>2 DEF Range
    <3>. HIDE DEF shown, T
    <3>. QED
      BY <2>2, <3>1
  <2>. HIDE DEF shown
  <2>4. <<M!Value("changed", 0)>> \in Seq(T) /\ Len(<<M!Value("changed", 0)>>) = 1
    OBVIOUS
  <2>. HIDE DEF T
  <2>5. Len(<<M!Value("changed", 0)>> \o shown) = 1 + Len(src.from)
    BY <2>3, <2>4
  <2>6. Len(<<v>>) = 1 + Len(src.from)
    BY <2>1, <2>5 DEF src
  <2>7. Len(<<v>>) = 1
    OBVIOUS
  <2>. QED
    BY <2>2, <2>6, <2>7
<1>. QED
  BY <1>2, <1>3, <1>4 DEF src

LEMMA AppModelIs ==
  ASSUME NEW bodies, NEW a \in DOMAIN AppModel(bodies)
  PROVE  /\ a \in DOMAIN Exec[i].app /\ Known(Source(i, a), bodies)
         /\ AppModel(bodies)[a] = AppValue(Source(i, a), bodies)
BY DEF AppModel, Source

-------------------------------------------------------------------------------
(* The base run.                                                            *)

(* A value that the program got stands in one record at least, under the    *)
(* request it came with.                                                    *)
LEMMA GotIsRecorded ==
  ASSUME Calm, ProgramInv, Asks, NEW k \in DOMAIN child.bodies, NEW l \in DOMAIN child.bodies[k]
  PROVE  \E q \in DOMAIN records : /\ records[q].body = child.bodies[k] /\ <<q, l>> \in Leaves
                                   /\ records[q].url = RequestIn(i, k) /\ ~FixedIn(i, k)
<1>1. Received(i, answered, records, k, child.bodies[k])
  BY DEF ProgramInv
<1>2. child.bodies[k] # NoFunction
  BY DEF NoFunction
<1>3. PICK q \in DOMAIN answered :
        answered[q] = child.bodies[k] /\ records[q].url = RequestIn(i, k) /\ ~FixedIn(i, k)
  BY <1>1, <1>2 DEF Received
<1>4. MP!AnswerInv /\ records \in Seq(MP!Records) /\ answered \in Seq(MP!Bodies)
  BY DEF Calm, MP!TypeInv, Served, MP!Serial
<1>5. records[q].body = child.bodies[k]
  BY <1>3, <1>4 DEF MP!AnswerInv
<1>6. q \in DOMAIN records
  <2>1. Len(records) = Len(answered) + 1 \/ Len(records) = Len(answered)
    BY <1>4 DEF MP!AnswerInv
  <2>. QED
    BY <1>4, <2>1
<1>7. <<q, l>> \in Leaves
  BY <1>5, <1>6 DEF Leaves
<1>. QED
  BY <1>3, <1>5, <1>6, <1>7

Val == [c \in Leaves |-> <<records[c[1]].body[c[2]]>>]

(* And a generated one in one only.                                         *)
LEMMA GeneratedIsUnambiguous ==
  ASSUME Calm, NEW c \in Leaves, MP!Generated(records[c[1]].body[c[2]])
  PROVE  c \in R!Unambiguous(Val)
<1>1. MP!FreshValuesUnique
  BY DEF Calm, Served, MP!Serial, MP!FreshInv
<1>2. ASSUME NEW e \in Leaves
      PROVE  e = <<e[1], e[2]>> /\ e[1] \in DOMAIN records /\ e[2] \in DOMAIN records[e[1]].body
  BY <1>2 DEF Leaves
<1>3. ASSUME NEW e \in Leaves, Val[e] = Val[c] PROVE e = c
  <2>1. records[e[1]].body[e[2]] = records[c[1]].body[c[2]]
    BY <1>3 DEF Val
  <2>2. e[1] = c[1] /\ e[2] = c[2]
    BY <1>1, <1>2, <2>1 DEF MP!FreshValuesUnique
  <2>. QED
    BY <1>2, <2>2
<1>4. DOMAIN Val = Leaves
  BY DEF Val
<1>. QED
  BY <1>3, <1>4 DEF R!Unambiguous

LEMMA CompleteAtBase ==
  ASSUME Calm, ProgramInv, MapsBase PROVE MappingComplete'
<1>. DEFINE app == AppModel(child.bodies)
<1>1. /\ Asks /\ i' = i /\ i \in 1..N /\ base'.app = app
      /\ mm' = MapByValue(app)
  BY ReqsAre DEF MapsBase, Asks, ctrlVars, Calm
<1>2. BodiesApart(child.bodies)
  BY <1>1 DEF ProgramInv
<1>. HIDE DEF app
<1>3. ASSUME NEW a \in DOMAIN app, AloneCopies(a), app[a][1].kind = "fresh"
      PROVE  a \in DOMAIN mm'
  <2>. DEFINE src == Source(i, a)
              k == From(src)[1]
              l == From(src)[2]
              v == child.bodies[k][l]
  <2>1. a \in DOMAIN Exec[i].app /\ Known(src, child.bodies) /\ src.copy
    BY <1>3, AppModelIs DEF app, AloneCopies, Source
  <2>2. /\ src.from \in Seq(Nat \X DOMAIN Addr) /\ Len(src.from) = 1
    BY <1>1, <2>1, SourcesAre
  <2>3. /\ k \in DOMAIN child.bodies /\ l \in DOMAIN child.bodies[k]
        /\ AppValue(src, child.bodies) = <<v>>
    <3>. HIDE DEF src
    <3>. QED
      BY <2>1, <2>2, CopyShows
  <2>4. app[a] = <<v>>
    BY <1>3, <2>3, AppModelIs DEF app
  <2>5. v.kind = "fresh"
    BY <1>3, <2>4
  <2>6. a \in R!Unambiguous(app)
    <3>1. ASSUME NEW b \in DOMAIN app, app[b] = app[a] PROVE b = a
      <4>. DEFINE other == Source(i, b)
      <4>1. b \in DOMAIN Exec[i].app /\ Known(other, child.bodies)
            /\ AppValue(other, child.bodies) = <<v>>
        BY <2>4, <3>1, AppModelIs DEF app
      <4>2. \/ other.from = <<>> /\ v = other.own
            \/ /\ other.copy /\ other.from = <<From(other)>>
               /\ From(other) \in Nat \X DOMAIN Addr
               /\ From(other)[1] \in DOMAIN child.bodies
               /\ From(other)[2] \in DOMAIN child.bodies[From(other)[1]]
               /\ v = child.bodies[From(other)[1]][From(other)[2]]
        BY <1>1, <4>1, ShowsOne
      <4>3. ~(other.from = <<>> /\ v = other.own)
        BY <1>1, <2>5, <4>1, SourcesAre
      <4>4. From(other)[1] = k /\ From(other)[2] = l
        BY <1>2, <2>3, <2>5, <4>2, <4>3 DEF BodiesApart, MP!Generated
      <4>5. From(src) \in Nat \X DOMAIN Addr /\ src.from = <<From(src)>>
        <5>. HIDE DEF src
        <5>. QED
          BY <2>2 DEF From
      <4>6. From(other) = From(src)
        <5>. HIDE DEF src, other
        <5>. QED
          BY <4>2, <4>3, <4>4, <4>5
      <4>7. other.from = src.from
        BY <4>2, <4>3, <4>5, <4>6
      <4>. QED
        BY <1>3, <4>1, <4>7 DEF AloneCopies, Source
    <3>. QED
      BY <1>3, <3>1 DEF R!Unambiguous
  <2>7. PICK q \in DOMAIN records : records[q].body = child.bodies[k] /\ <<q, l>> \in Leaves
    BY <1>1, <2>3, GotIsRecorded
  <2>. DEFINE c == <<q, l>>
  <2>8. c \in R!Unambiguous(Val)
    BY <2>5, <2>7, GeneratedIsUnambiguous DEF MP!Generated
  <2>9. Val[c] = app[a]
    BY <2>4, <2>7 DEF Val
  <2>10. mm' = R!ToModelMap(R!MapSingleAppModel(app, Val, [e \in Leaves |-> records[e[1]].pos[e[2]]]))
    BY <1>1 DEF MapByValue, Val
  <2>. HIDE DEF c
  <2>. QED
    BY <2>6, <2>8, <2>9, <2>10 DEF R!ToModelMap, R!MapSingleAppModel
<1>. QED
  BY <1>1, <1>3 DEF MappingComplete, AloneCopies

LEMMA AddKeepsDomain ==
  ASSUME NEW m1, NEW m2, NEW r \in R!AddOutcomes(m1, m2)
  PROVE  DOMAIN r = DOMAIN m1 \cup DOMAIN m2
BY DEF R!AddOutcomes, R!Added

(* The steps, by what they do to the base run and the map.                  *)
LEMMA MapSplit ==
  ASSUME Calm, [Next]_vars
  PROVE  \/ ~Judged'
         \/ Judged /\ UNCHANGED <<i, base, mm>>
         \/ MapsBase
         \/ Judged /\ UNCHANGED <<i, base>> /\ \E m : Adds(m)
<1>. USE DEF Calm
<1>1. CASE Ctrl
  <2>1. pc # "exec" /\ UNCHANGED stage
    BY <1>1 DEF Ctrl, R!Start, R!SkipByWindow, R!SkipMarked, R!WriteResult, R!Shutdown, R!Finish,
                exeVars
  <2>. QED
    BY <2>1 DEF Places, Judged
<1>2. CASE Launch
  BY <1>2 DEF Launch, Judged
<1>3. CASE Serve
  BY <1>3 DEF Serve, R!Serve, R!Bind, R!ServeReturns, R!CloseChannel, R!loopVars, exeVars, Judged
<1>4. CASE Ends
  BY <1>4 DEF Ends, Ended, Judged
<1>5. CASE \E m : Adds(m)
  BY <1>5 DEF Adds, AddMap, ctrlVars, Judged
<1>6. CASE UNCHANGED vars
  BY <1>6 DEF vars, exeVars, ctrlVars, Judged
<1>7. CASE StartBase \/ StartVibrated
  BY <1>7 DEF StartBase, StartVibrated, ctrlVars, Judged
<1>8. CASE Send \/ Server
  BY <1>8, HandlersLeaveSetup DEF Judged
<1>9. CASE Abandon
  BY <1>9 DEF Abandon, ctrlVars, Judged
<1>. QED
  BY <1>1, <1>2, <1>3, <1>4, <1>5, <1>6, <1>7, <1>8, <1>9, NextSplit

LEMMA CompleteStep ==
  ASSUME Calm, ProgramInv, MappingComplete, [Next]_vars PROVE MappingComplete'
<1>1. CASE ~Judged'
  BY <1>1 DEF Judged, MappingComplete
<1>2. CASE Judged /\ UNCHANGED <<i, base, mm>>
  BY <1>2 DEF Judged, MappingComplete, AloneCopies
<1>3. CASE MapsBase
  BY <1>3, CompleteAtBase
<1>4. CASE Judged /\ UNCHANGED <<i, base>> /\ \E m : Adds(m)
  <2>1. PICK m : mm' \in R!AddOutcomes(mm, m)
    BY <1>4 DEF Adds, AddMap
  <2>2. DOMAIN mm' = DOMAIN mm \cup DOMAIN m
    BY <2>1, AddKeepsDomain
  <2>. QED
    BY <1>4, <2>2 DEF Judged, MappingComplete, AloneCopies
<1>. QED
  BY <1>1, <1>2, <1>3, <1>4, MapSplit

-------------------------------------------------------------------------------
(* The inductive invariant behind the theorems.                             *)
MInv(B) == IInv(B) /\ Served /\ SetupInv /\ ProgramInv

LEMMA MInvStep ==
  ASSUME OneByOne, NEW B, Affords(B), MInv(B), [Next]_vars
  PROVE  MInv(B)' /\ Calm
<1>1. ~Overlap /\ ~Stragglers /\ BoundsSuffice /\ RetriesOverlap
  BY DEF OneByOne, RetriesOverlap
<1>2. Calm
  BY DEF MInv, IInv, Calm
<1>3. IInv(B)' /\ Served'
  BY <1>1, NextIInv, ServedStep DEF MInv
<1>4. SetupInv' /\ ProgramInv'
  BY <1>1, <1>2, SetupStep, ProgramStep DEF MInv
<1>. QED
  BY <1>2, <1>3, <1>4 DEF MInv

LEMMA MInvInit == ASSUME NEW B, Affords(B), Init PROVE MInv(B)
<1>1. stage = "idle"
  BY DEF Init
<1>2. SetupInv /\ ProgramInv
  BY <1>1 DEF SetupInv, ProgramInv, Asks
<1>. QED
  BY <1>2, InitIInv, ServedInit DEF MInv

(* Each property of the application model that alone copies a generated     *)
(* value of the API is mapped, from the base run on: the value is that of   *)
(* one leaf of one record and of no other property, for a program that      *)
(* waits for each answer, whatever is lost and repeated on the way.         *)
THEOREM CopiesAreMapped == ASSUME OneByOne PROVE SafetySpec => []MappingComplete
<1>1. PICK B : Affords(B)
  BY DEF OneByOne, BoundsSuffice
<1>2. Init => MInv(B) /\ MappingComplete
  <2>1. Init => stage = "idle"
    BY DEF Init
  <2>. QED
    BY <1>1, <2>1, MInvInit DEF MappingComplete
<1>3. MInv(B) /\ MappingComplete /\ [Next]_vars => MInv(B)' /\ MappingComplete'
  <2>. SUFFICES ASSUME MInv(B), MappingComplete, [Next]_vars
                PROVE  MInv(B)' /\ MappingComplete'
    OBVIOUS
  <2>1. MInv(B)' /\ Calm /\ ProgramInv
    BY <1>1, MInvStep DEF MInv
  <2>. QED
    BY <2>1, CompleteStep
<1>. QED
  BY <1>2, <1>3, PTL DEF SafetySpec

-------------------------------------------------------------------------------
(* Every answer is explained by the sequence of invocations.                *)

(* A handler that goes on has not been refused, and no other is at work.    *)
LEMMA HandlerGoesOn ==
  ASSUME ~Stragglers, Calm, NEW s \in Slots, DOMAIN child.waits = {s}
  PROVE  /\ MP!Handle(s) => MP!Unrefused
         /\ hd[s].pc \in {"answer", "fixed"} => MP!Unrefused
<1>1. \A t \in Slots : t # s => hd[t].pc = "idle"
  BY DEF Calm, ChildInv
<1>2. MP!Handle(s) => hd[s].pc \notin {"refuse", "abort"}
  BY DEF MP!Handle, MP!At, MP!MatchOverride, MP!Expand, MP!CacheSave, MP!SynthConst,
         MP!SynthRead, MP!SynthBump, MP!SynthGen, MP!Select, MP!AppendSeq, MP!Patch, MP!Vibrate,
         MP!Decode, MP!AppendRecord, MP!MarkVibration
<1>. QED
  BY <1>1, <1>2 DEF MP!Unrefused

LEMMA ExplStep ==
  ASSUME OneByOne, NEW B, Affords(B), MInv(B), ExplInv, [Next]_vars PROVE ExplInv'
<1>. SUFFICES ASSUME Asks', ~child'.failed, MP!Unrefused' PROVE MP!ExplainedInv'
  BY DEF ExplInv
<1>1. /\ ~Overlap /\ ~Stragglers /\ BoundsSuffice /\ RetriesOverlap
      /\ MP!TypeInv /\ MP!RunInv /\ MP!VibrationInv /\ MP!Serial /\ MP!SerialInv
      /\ Places /\ ChildInv /\ Counts(B) /\ Calm /\ SetupInv /\ ProgramInv
  BY DEF OneByOne, RetriesOverlap, MInv, IInv, Served, MP!Serial, Calm
<1>2. ASSUME MP!ExplainedInv,
             \/ UNCHANGED MP!vars
             \/ \E s \in Slots : MP!Handle(s) \/ MP!Reply(s)
             \/ MP!MayArrive /\ \E s \in Slots, u \in Urls : MP!Arrive(s, u)
      PROVE  MP!ExplainedInv'
  BY <1>1, <1>2, MP!ExplainedStep, ServerConstants, Zenon
<1>3. CASE UNCHANGED <<srvVars, stage, i, child, base, mm, vi>>
  <2>1. UNCHANGED MP!vars
    BY <1>3 DEF srvVars, MP!vars, MP!shared
  <2>2. MP!ExplainedInv
    <3>1. Asks /\ ~child.failed /\ MP!Unrefused
      BY <1>3, <2>1 DEF Asks, MP!Unrefused, MP!vars
    <3>. QED
      BY <3>1 DEF ExplInv
  <2>. QED
    BY <1>2, <2>1, <2>2
<1>4. CASE StartBase \/ StartVibrated
  <2>1. PICK v : M!InitVibration(v)
    BY <1>4 DEF StartBase, StartVibrated, M!InitExecution
  <2>2. MP!InitVibration(v)
    BY <2>1, SameInitVibration
  <2>3. \A s \in Slots : hd[s].pc = "idle"
    BY <1>1, <1>4 DEF StartBase, StartVibrated, ChildInv, Asks
  <2>. QED
    BY <1>1, <2>2, <2>3, MP!ExplainedStart, ServerConstants, Zenon
<1>5. CASE Send
  <2>1. M!MayArrive /\ Reqs[child.sent + 1] \in Urls
    BY <1>1, <1>5, SendIsAllowed
  <2>2. PICK s \in Slots : MP!Arrive(s, Reqs[child.sent + 1])
    BY <1>5, SameArrive DEF Send
  <2>3. MP!MayArrive
    BY <2>1 DEF M!MayArrive, MP!MayArrive, M!Busy, MP!Busy, M!At, MP!At
  <2>4. \A t \in Slots : hd[t].pc = "idle"
    BY <1>1, <1>5, ServerAssumption DEF Send, ChildInv
  <2>5. Asks /\ ~child.failed /\ MP!Unrefused
    BY <1>5, <2>4 DEF Send, Running, Asks, MP!Unrefused
  <2>6. MP!ExplainedInv
    BY <2>5 DEF ExplInv
  <2>. QED
    BY <1>2, <2>1, <2>2, <2>3, <2>6
<1>6. CASE Server
  <2>1. PICK s \in Slots :
          /\ Asks /\ DOMAIN child.waits = {s}
          /\ \/ MP!Handle(s) /\ child' = child
             \/ /\ MP!Reply(s)
                /\ \/ hd[s].pc = "answer" \/ hd[s].pc = "fixed"
                   \/ hd[s].pc \in {"refuse", "abort"} /\ Breaks
    BY <1>1, <1>6, ServerServes, Zenon
  <2>2. ~child.failed
    BY <1>1, <2>1 DEF ProgramInv
  <2>3. MP!Unrefused
    BY <1>1, <2>1, HandlerGoesOn DEF Breaks
  <2>4. MP!ExplainedInv
    BY <2>1, <2>2, <2>3 DEF ExplInv
  <2>. QED
    BY <1>2, <2>1, <2>4
<1>7. CASE Abandon
  BY <1>1, <1>7 DEF Abandon
<1>. QED
  BY <1>1, <1>3, <1>4, <1>5, <1>6, <1>7, StepSplit

-------------------------------------------------------------------------------
(* What the program gets is what the last entry for the request explains.   *)
LEMMA AnsweredStays ==
  ASSUME NEW j, NEW q \in Seq(MP!Entries), NEW e \in MP!Entries, NEW w, NEW k, NEW b,
         AnsweredAs(j, q, w, k, b), ~FixedIn(j, k) => e.url # RequestIn(j, k)
  PROVE  AnsweredAs(j, Append(q, e), w, k, b)
<1>. DEFINE q2 == Append(q, e)
            u == RequestIn(j, k)
            patch == OvIn(j, k).patch
<1>1. CASE FixedIn(j, k)
  BY <1>1 DEF AnsweredAs
<1>2. CASE ~FixedIn(j, k)
  <2>1. PICK n \in DOMAIN q : /\ q[n].url = u /\ \A m \in DOMAIN q : m > n => q[m].url # u
                              /\ MP!Explains(q, n, patch, w, b)
    BY <1>2 DEF AnsweredAs
  <2>2. MP!Explains(q2, n, patch, w, b)
    BY <2>1, MP!ExplainsStays, ServerConstants, Zenon
  <2>3. /\ n \in DOMAIN q2 /\ q2[n] = q[n]
        /\ \A m \in DOMAIN q2 : q2[m] = e \/ (m \in DOMAIN q /\ q2[m] = q[m])
    OBVIOUS
  <2>. HIDE DEF q2, u, patch
  <2>4. q2[n].url = u /\ \A m \in DOMAIN q2 : m > n => q2[m].url # u
    BY <1>2, <2>1, <2>3 DEF u
  <2>. QED
    BY <1>2, <2>2, <2>3, <2>4 DEF AnsweredAs, q2, u, patch
<1>. QED
  BY <1>1, <1>2

LEMMA BodiesHandle ==
  ASSUME ~Stragglers, DistinctRequests, Calm, SetupInv, ProgramInv, ExplInv, BodiesInv, Asks,
         NEW s \in Slots, DOMAIN child.waits = {s},
         child.waits[s] \in DOMAIN Reqs, child.waits[s] \notin DOMAIN child.bodies,
         MP!Handle(s), Server, child' = child, UNCHANGED <<stage, i>>
  PROVE  BodiesInv'
<1>. DEFINE k == child.waits[s]
            e == MP!SeqEntry(hd[s])
<1>1. /\ i \in 1..N /\ MP!TypeInv /\ seqs \in Seq(MP!Entries)
      /\ ~child.failed /\ Serves(i, hd[s], k)
      /\ \A n \in DOMAIN child.bodies : n \in DOMAIN Reqs
  BY ReqsAre DEF Calm, Asks, ProgramInv, Received, Reqs, MP!TypeInv
<1>2. MP!Unrefused
  BY HandlerGoesOn
<1>3. MP!ExplainedInv /\ MP!SeqInv
  BY <1>1, <1>2 DEF ExplInv, MP!ExplainedInv
<1>4. UNCHANGED vibration
  BY HandlersLeaveSetup
<1>5. CASE UNCHANGED seqs
  BY <1>4, <1>5 DEF BodiesInv, Asks
<1>6. CASE /\ hd[s].pc = "seq" /\ seqs' = Append(seqs, e)
           /\ e \in MP!Entries /\ e.url = hd[s].url
  <2>1. ~FixedIn(i, k) /\ e.url = RequestIn(i, k)
    BY <1>1, <1>6 DEF Serves
  <2>. HIDE DEF e
  <2>2. ASSUME NEW n \in DOMAIN child.bodies
        PROVE  AnsweredAs(i, seqs', vibration, n, child.bodies[n])
    <3>1. AnsweredAs(i, seqs, vibration, n, child.bodies[n])
      BY DEF BodiesInv
    <3>2. n # k /\ n \in DOMAIN Exec[i].reqs /\ k \in DOMAIN Exec[i].reqs
      BY <1>1 DEF Reqs
    <3>3. ~FixedIn(i, n) => e.url # RequestIn(i, n)
      BY <1>1, <2>1, <3>2 DEF DistinctRequests
    <3>. QED
      BY <1>1, <1>6, <3>1, <3>3, AnsweredStays
  <2>. QED
    BY <1>4, <2>2 DEF BodiesInv
<1>7. \/ UNCHANGED seqs
      \/ /\ hd[s].pc = "seq" /\ seqs' = Append(seqs, e)
         /\ e \in MP!Entries /\ e.url = hd[s].url
  BY <1>1, <1>3, MP!SequenceGrows, ServerConstants, Zenon
<1>. QED
  BY <1>5, <1>6, <1>7

LEMMA BodiesReply ==
  ASSUME ~Stragglers, Calm, ProgramInv, ExplInv, BodiesInv, Asks,
         NEW s \in Slots, DOMAIN child.waits = {s},
         child.waits[s] \in DOMAIN Reqs, child.waits[s] \notin DOMAIN child.bodies,
         MP!Reply(s), UNCHANGED <<stage, i>>,
         \/ hd[s].pc = "answer" /\ Gets(s, hd[s].body)
         \/ hd[s].pc = "fixed" /\ Gets(s, NoFunction)
         \/ hd[s].pc = "answer" /\ Loses
         \/ hd[s].pc \in {"refuse", "abort"} /\ Breaks
  PROVE  BodiesInv'
<1>. DEFINE k == child.waits[s]
<1>1. MP!TypeInv /\ ~child.failed /\ Serves(i, hd[s], k)
  BY DEF Calm, ProgramInv
<1>2. UNCHANGED <<seqs, vibration>>
  BY <1>1, MP!ReplyStep, ServerConstants, Zenon
<1>3. ASSUME NEW b, Gets(s, b), AnsweredAs(i, seqs, vibration, k, b) PROVE BodiesInv'
  <2>. DEFINE f == child.bodies
              g == Add(f, k, b)
  <2>1. child'.bodies = g
    BY <1>3 DEF Gets
  <2>2. DOMAIN g = DOMAIN f \cup {k} /\ g[k] = b /\ \A m \in DOMAIN f : g[m] = f[m]
    BY DEF Add
  <2>3. \A m \in DOMAIN f : AnsweredAs(i, seqs, vibration, m, f[m])
    BY DEF BodiesInv
  <2>. HIDE DEF g, k, f
  <2>4. \A m \in DOMAIN g : AnsweredAs(i, seqs, vibration, m, g[m])
    <3>1. ASSUME NEW m \in DOMAIN g PROVE AnsweredAs(i, seqs, vibration, m, g[m])
      <4>1. CASE m = k
        BY <1>3, <2>2, <4>1 DEF k
      <4>2. CASE m # k
        BY <2>2, <2>3, <4>2
      <4>. QED
        BY <4>1, <4>2
    <3>. QED
      BY <3>1
  <2>. QED
    BY <1>2, <2>1, <2>4 DEF BodiesInv
<1>4. CASE hd[s].pc = "fixed" /\ Gets(s, NoFunction)
  <2>1. AnsweredAs(i, seqs, vibration, k, NoFunction)
    BY <1>1, <1>4 DEF Serves, AnsweredAs
  <2>. QED
    BY <1>3, <1>4, <2>1
<1>5. CASE hd[s].pc = "answer" /\ Gets(s, hd[s].body)
  <2>. DEFINE n == Len(seqs)
              b == hd[s].body
  <2>1. MP!Unrefused
    BY <1>5, HandlerGoesOn
  <2>2. \E x : MP!HandlerExplained(hd[s], seqs, x, vibration)
    <3>1. MP!ExplainedInv
      BY <1>1, <2>1 DEF ExplInv
    <3>. QED
      BY <3>1, Zenon DEF MP!ExplainedInv
  <2>3. n > 0 /\ seqs[n] = MP!SeqEntry(hd[s]) /\ MP!Explains(seqs, n, hd[s].ov.patch, vibration, b)
    BY <1>5, <2>2 DEF MP!HandlerExplained, MP!Sequenced
  <2>4. ~FixedIn(i, k) /\ hd[s].url = RequestIn(i, k) /\ hd[s].ov = OvIn(i, k)
    BY <1>1, <1>5 DEF Serves
  <2>5. seqs \in Seq(MP!Entries)
    BY <1>1 DEF MP!TypeInv
  <2>6. n \in DOMAIN seqs /\ \A m \in DOMAIN seqs : ~(m > n)
    BY <2>3, <2>5
  <2>7. seqs[n].url = RequestIn(i, k)
    BY <2>3, <2>4 DEF MP!SeqEntry
  <2>8. AnsweredAs(i, seqs, vibration, k, b)
    <3>. HIDE DEF k, b, n
    <3>. QED
      BY <2>3, <2>4, <2>6, <2>7 DEF AnsweredAs
  <2>. QED
    BY <1>3, <1>5, <2>8
<1>6. CASE Loses \/ Breaks
  BY <1>2, <1>6 DEF Loses, Breaks, BodiesInv
<1>. QED
  BY <1>4, <1>5, <1>6

LEMMA BodiesStep ==
  ASSUME OneByOne, DistinctRequests, NEW B, Affords(B), MInv(B), ExplInv, BodiesInv, [Next]_vars
  PROVE  BodiesInv'
<1>1. ~Overlap /\ ~Stragglers /\ Calm /\ SetupInv /\ ProgramInv
  BY DEF OneByOne, MInv, IInv, Calm
<1>2. CASE UNCHANGED <<srvVars, stage, i, child, base, mm, vi>>
  BY <1>2 DEF BodiesInv, Asks, srvVars
<1>3. CASE ~Asks' /\ UNCHANGED srvVars
  BY <1>3 DEF BodiesInv
<1>4. CASE StartBase \/ StartVibrated
  <2>1. child'.bodies = NoFunction
    BY <1>4 DEF StartBase, StartVibrated, NewChild
  <2>. QED
    BY <2>1 DEF BodiesInv, NoFunction
<1>5. CASE Send
  <2>1. PICK s \in Slots :
          /\ M!Arrive(s, Reqs[child.sent + 1])
          /\ child' = [child EXCEPT !.sent = @ + 1, !.waits = Add(@, s, child.sent + 1)]
    BY <1>5 DEF Send
  <2>2. UNCHANGED <<seqs, vibration, stage, i>>
    BY <1>5, <2>1 DEF Send, M!Arrive, M!shared, ctrlVars
  <2>3. child \in ChildTypes
    BY <1>1 DEF Calm, ChildInv, ChildOK
  <2>4. child'.bodies = child.bodies
    BY <2>1, <2>3 DEF ChildTypes
  <2>. QED
    BY <2>2, <2>4 DEF BodiesInv, Asks
<1>6. CASE Server
  <2>1. PICK s \in Slots :
          /\ Asks /\ DOMAIN child.waits = {s}
          /\ child.waits[s] \in DOMAIN Reqs /\ child.waits[s] \notin DOMAIN child.bodies
          /\ UNCHANGED <<stage, i, base, mm, vi>>
          /\ \/ MP!Handle(s) /\ child' = child
             \/ /\ MP!Reply(s) /\ DOMAIN child'.waits = {}
                /\ \/ hd[s].pc = "answer" /\ Gets(s, hd[s].body)
                   \/ hd[s].pc = "fixed" /\ Gets(s, NoFunction)
                   \/ hd[s].pc = "answer" /\ Loses
                   \/ hd[s].pc \in {"refuse", "abort"} /\ Breaks
    BY <1>1, <1>6, ServerServes
  <2>2. CASE MP!Handle(s) /\ child' = child
    BY <1>1, <1>6, <2>1, <2>2, BodiesHandle
  <2>3. CASE /\ MP!Reply(s)
             /\ \/ hd[s].pc = "answer" /\ Gets(s, hd[s].body)
                \/ hd[s].pc = "fixed" /\ Gets(s, NoFunction)
                \/ hd[s].pc = "answer" /\ Loses
                \/ hd[s].pc \in {"refuse", "abort"} /\ Breaks
    BY <1>1, <2>1, <2>3, BodiesReply
  <2>. QED
    BY <2>1, <2>2, <2>3
<1>7. CASE Abandon
  BY <1>1, <1>7 DEF Abandon
<1>. QED
  BY <1>2, <1>3, <1>4, <1>5, <1>6, <1>7, StepSplit, <1>1

(* The base run is kept as it was answered.                                 *)
LEMMA BaseStep ==
  ASSUME OneByOne, NEW B, MInv(B), BodiesInv, BaseInv, [Next]_vars PROVE BaseInv'
<1>1. Calm /\ SetupInv
  BY DEF MInv, IInv, Calm
<1>2. CASE ~Judged'
  BY <1>2 DEF BaseInv
<1>3. CASE Judged /\ UNCHANGED <<i, base>>
  <2>1. /\ i' = i /\ base' = base /\ base.app = AppModel(base.bodies)
        /\ DOMAIN base.bodies = DOMAIN Reqs
        /\ \A k \in DOMAIN base.bodies : AnsweredAs(i, base.seq, None, k, base.bodies[k])
    BY <1>3 DEF BaseInv
  <2>2. AppModel(base.bodies)' = AppModel(base.bodies)
    BY <2>1 DEF AppModel, Known, AppValue
  <2>3. DOMAIN Reqs' = DOMAIN Reqs
    BY <2>1 DEF Reqs
  <2>. QED
    BY <2>1, <2>2, <2>3 DEF BaseInv
<1>4. CASE MapsBase
  <2>1. /\ Asks /\ i' = i /\ vibration = None /\ DOMAIN child.bodies = DOMAIN Reqs
        /\ base' = [app |-> AppModel(child.bodies), seq |-> seqs, bodies |-> child.bodies]
    BY <1>1, <1>4 DEF MapsBase, Asks, ctrlVars, SetupInv, Complete
  <2>. DEFINE app == AppModel(child.bodies)
  <2>2. \A k \in DOMAIN child.bodies : AnsweredAs(i, seqs, None, k, child.bodies[k])
    BY <2>1 DEF BodiesInv
  <2>3. app = AppModel(child.bodies)
    OBVIOUS
  <2>. HIDE DEF app
  <2>4. base'.app = app /\ base'.seq = seqs /\ base'.bodies = child.bodies
    BY <2>1, <2>3
  <2>5. AppModel(base.bodies)' = app
    BY <2>1, <2>4 DEF AppModel, Known, AppValue, app
  <2>6. DOMAIN Reqs' = DOMAIN Reqs
    BY <2>1 DEF Reqs
  <2>. QED
    BY <2>1, <2>2, <2>4, <2>5, <2>6 DEF BaseInv
<1>. QED
  BY <1>1, <1>2, <1>3, <1>4, MapSplit

LEMMA RequestIs == ASSUME NEW k PROVE RequestOf(k) = RequestIn(i, k)
BY Zenon DEF RequestOf, RequestIn, OvIn, Reqs, M!Modified, MP!Modified, M!Match, MP!Match,
             M!NoOverride, MP!NoOverride

(* What the same request is answered in the base run and under a vibration, *)
(* after the same invocations.                                              *)
LEMMA AnsweredAlike ==
  ASSUME NEW j, NEW q \in Seq(MP!Entries), NEW w, NEW k, NEW b, NEW p,
         AnsweredAs(j, q, w, k, b), AnsweredAs(j, q, None, k, p)
  PROVE  /\ DOMAIN b = DOMAIN p
         /\ \A l \in DOMAIN b :
              \/ b[l] = p[l]
              \/ ~FixedIn(j, k) /\ MP!Hits(w, RequestIn(j, k)) /\ l = w.leaf
              \/ l \in DOMAIN Kind /\ Kind[l] = "time" /\ p[l].kind = "time"
<1>1. CASE FixedIn(j, k)
  BY <1>1 DEF AnsweredAs
<1>2. CASE ~FixedIn(j, k)
  <2>. DEFINE u == RequestIn(j, k)
              patch == OvIn(j, k).patch
  <2>1. PICK n \in DOMAIN q : /\ q[n].url = u /\ \A m \in DOMAIN q : m > n => q[m].url # u
                              /\ MP!Explains(q, n, patch, w, b)
    BY <1>2 DEF AnsweredAs
  <2>2. PICK o \in DOMAIN q : /\ q[o].url = u /\ \A m \in DOMAIN q : m > o => q[m].url # u
                              /\ MP!Explains(q, o, patch, None, p)
    BY <1>2 DEF AnsweredAs
  <2>. HIDE DEF u, patch
  <2>3. n \in Nat /\ o \in Nat
    OBVIOUS
  <2>4. n = o
    BY <2>1, <2>2, <2>3
  <2>5. MP!Explains(q, n, patch, None, p)
    BY <2>2, <2>4
  <2>6. /\ DOMAIN b = DOMAIN p
        /\ \A l \in DOMAIN b :
             \/ b[l] = p[l]
             \/ MP!Hits(w, q[n].url) /\ l = w.leaf
             \/ l \in DOMAIN Kind /\ Kind[l] = "time" /\ p[l].kind = "time"
    <3>1. q \in Seq(MP!Entries)
      OBVIOUS
    <3>2. MP!Explains(q, n, patch, w, b)
      BY <2>1
    <3>. QED
      BY <2>5, <3>1, <3>2, MP!ExplainedAlike, ServerConstants
  <2>. QED
    BY <1>2, <2>1, <2>6 DEF u
<1>. QED
  BY <1>1, <1>2

SInv(B) == MInv(B) /\ ExplInv /\ BodiesInv /\ BaseInv

LEMMA SInvStep ==
  ASSUME OneByOne, DistinctRequests, NEW B, Affords(B), SInv(B), [Next]_vars
  PROVE  SInv(B)'
<1>1. MInv(B) /\ ExplInv /\ BodiesInv /\ BaseInv
  BY DEF SInv
<1>2. MInv(B)'
  BY <1>1, MInvStep
<1>3. ExplInv'
  BY <1>1, ExplStep
<1>4. BodiesInv'
  BY <1>1, BodiesStep
<1>5. BaseInv'
  BY <1>1, BaseStep
<1>. QED
  BY <1>2, <1>3, <1>4, <1>5 DEF SInv

LEMMA SInvInit == ASSUME NEW B, Affords(B), Init PROVE SInv(B)
<1>1. stage = "idle"
  BY DEF Init
<1>2. ExplInv /\ BodiesInv /\ BaseInv
  BY <1>1 DEF ExplInv, BodiesInv, BaseInv, Asks, Judged
<1>. QED
  BY <1>2, MInvInit DEF SInv

(* Two runs with the same sequence: how their answers differ.               *)
LEMMA RunsDiffer ==
  ASSUME NEW B, SInv(B), stage = "vrun", Complete, seqs = base.seq, NEW k \in DOMAIN child.bodies
  PROVE  /\ k \in DOMAIN base.bodies /\ k \in DOMAIN Reqs
         /\ DOMAIN child.bodies[k] = DOMAIN base.bodies[k]
         /\ \A l \in DOMAIN child.bodies[k] :
              \/ child.bodies[k][l] = base.bodies[k][l]
              \/ ~FixedIn(i, k) /\ MP!Hits(Vib, RequestIn(i, k)) /\ l = Vib.leaf
              \/ l \in DOMAIN Kind /\ Kind[l] = "time" /\ base.bodies[k][l].kind = "time"
<1>1. Asks /\ Judged /\ vibration = Vib /\ seqs \in Seq(MP!Entries)
  BY DEF Asks, Judged, SInv, MInv, SetupInv, IInv, MP!TypeInv
<1>2. k \in DOMAIN Reqs /\ DOMAIN base.bodies = DOMAIN Reqs
  BY <1>1 DEF SInv, BaseInv, Complete
<1>3. AnsweredAs(i, seqs, Vib, k, child.bodies[k])
  BY <1>1 DEF SInv, BodiesInv
<1>4. AnsweredAs(i, seqs, None, k, base.bodies[k])
  BY <1>1, <1>2 DEF SInv, BaseInv
<1>. QED
  <2>. DEFINE b == child.bodies[k]
              p == base.bodies[k]
              w == Vib
  <2>1. AnsweredAs(i, seqs, w, k, b) /\ AnsweredAs(i, seqs, None, k, p)
    BY <1>3, <1>4
  <2>. HIDE DEF b, p, w
  <2>2. /\ DOMAIN b = DOMAIN p
        /\ \A l \in DOMAIN b :
             \/ b[l] = p[l]
             \/ ~FixedIn(i, k) /\ MP!Hits(w, RequestIn(i, k)) /\ l = w.leaf
             \/ l \in DOMAIN Kind /\ Kind[l] = "time" /\ p[l].kind = "time"
    BY <1>1, <2>1, AnsweredAlike
  <2>. QED
    BY <1>2, <2>2 DEF b, p, w

(* When vibrate finds the sequences of invocations equal, the two runs were *)
(* answered the same, but for the vibrated leaf and the clock, if the       *)
(* program asks nothing twice.  One that polls is answered differently      *)
(* after an equal sequence when an answer has been lost.                    *)
THEOREM EqualSequencesAgree ==
  ASSUME OneByOne, DistinctRequests PROVE SafetySpec => []SameButVibrated
<1>1. PICK B : Affords(B)
  BY DEF OneByOne, BoundsSuffice
<1>2. Init => SInv(B)
  BY <1>1, SInvInit
<1>3. SInv(B) /\ [Next]_vars => SInv(B)'
  BY <1>1, SInvStep
<1>4. SInv(B) => SameButVibrated
  <2>. SUFFICES ASSUME SInv(B), stage = "vrun", Complete, seqs = base.seq,
                       NEW k \in DOMAIN child.bodies
                PROVE  /\ DOMAIN child.bodies[k] = DOMAIN base.bodies[k]
                       /\ \A l \in DOMAIN child.bodies[k] :
                            \/ child.bodies[k][l] = base.bodies[k][l]
                            \/ l = Vib.leaf /\ RequestOf(k).path \in Vib.paths
                            \/ base.bodies[k][l].kind = "time"
    BY DEF SameButVibrated
  <2>1. RequestOf(k) = RequestIn(i, k)
    BY RequestIs
  <2>. QED
    BY <2>1, RunsDiffer DEF MP!Hits
<1>. QED
  BY <1>2, <1>3, <1>4, PTL DEF SafetySpec

-------------------------------------------------------------------------------
(* Where the properties come from.  A program for which vibrate and the     *)
(* comparison of values can tell:                                           *)

(* no word of its own is a value of the API;                                *)
OwnWords ==
  \A j \in 1..N : \A a \in DOMAIN Exec[j].app :
    Exec[j].app[a].from = <<>> => Exec[j].app[a].own \notin MP!Values

(* it does not show what the clock of the generator makes;                  *)
NoClock ==
  \A j \in 1..N : \A a \in DOMAIN Exec[j].app : \A n \in DOMAIN Exec[j].app[a].from :
    Exec[j].app[a].from[n][2] \in DOMAIN Kind => Kind[Exec[j].app[a].from[n][2]] # "time"

(* and no vibration hits two of its requests.                               *)
VibratesOne ==
  \A j \in 1..N : \A v \in DOMAIN Exec[j].vibs : \A k, n \in DOMAIN Exec[j].reqs :
    /\ ~FixedIn(j, k) /\ RequestIn(j, k).path \in Exec[j].vibs[v].paths
    /\ ~FixedIn(j, n) /\ RequestIn(j, n).path \in Exec[j].vibs[v].paths
    => RequestIn(j, k) = RequestIn(j, n)

Telling ==
  OneByOne /\ DistinctRequests /\ OwnWords /\ NoClock /\ VibratesOne /\ MP!OwnSchemas

(* The positions property a of execution j comes from.                      *)
TrueIn(j, a) == {MP!Position(RequestIn(j, c[1]), c[2]) : c \in Range(Exec[j].app[a].from)}

SoundMap(j, m) == \A a \in DOMAIN m : m[a] \subseteq TrueIn(j, a)
SoundInv ==
  /\ Judged => SoundMap(i, mm)
  /\ ~Judged => DOMAIN mm = {}

LEMMA TrueIs == ASSUME NEW a PROVE TruePositions(a) = TrueIn(i, a)
<1>1. \A k : RequestOf(k) = RequestIn(i, k)
  BY RequestIs
<1>2. \A r, l : M!Position(r, l) = MP!Position(r, l)
  BY Zenon DEF M!Position, MP!Position
<1>. QED
  BY <1>1, <1>2, Zenon DEF TruePositions, TrueIn

(* By value: in the base run.                                               *)
LEMMA SoundAtBase ==
  ASSUME Telling, Calm, MP!RootInv, ProgramInv, MapsBase PROVE SoundMap(i, mm')
<1>. DEFINE app == AppModel(child.bodies)
            PosOf == [e \in Leaves |-> records[e[1]].pos[e[2]]]
<1>1. Asks /\ i \in 1..N /\ mm' = R!ToModelMap(R!MapSingleAppModel(app, Val, PosOf))
  BY ReqsAre DEF MapsBase, Asks, Calm, MapByValue, Val
<1>2. records \in Seq(MP!Records)
  BY DEF Calm, MP!TypeInv
<1>. DEFINE Of(a) == {o \in R!Unambiguous(Val) : Val[o] = app[a]}
<1>3. DOMAIN mm' = {b \in R!Unambiguous(app) : Of(b) # {}}
      /\ \A a \in DOMAIN mm' : mm'[a] = {PosOf[CHOOSE o \in Of(a) : TRUE]}
  BY <1>1 DEF R!ToModelMap, R!MapSingleAppModel
<1>4. ASSUME NEW a \in DOMAIN mm' PROVE mm'[a] \subseteq TrueIn(i, a)
  <2>. DEFINE src == Source(i, a)
              k == From(src)[1]
              l == From(src)[2]
  <2>1. PICK c \in R!Unambiguous(Val) : Val[c] = app[a] /\ mm'[a] = {PosOf[c]}
    BY <1>3, <1>4
  <2>2. a \in DOMAIN app
    BY <1>3, <1>4 DEF R!Unambiguous
  <2>3. c \in Leaves /\ \A e \in Leaves : Val[e] = Val[c] => e = c
    BY <2>1 DEF R!Unambiguous, Val
  <2>. DEFINE v == records[c[1]].body[c[2]]
  <2>4. app[a] = <<v>>
    BY <2>1, <2>3 DEF Val
  <2>5. v \in MP!Values
    <3>1. c[1] \in DOMAIN records /\ c[2] \in DOMAIN records[c[1]].body
      BY <2>3 DEF Leaves
    <3>2. records[c[1]].body \in MP!Bodies
      BY <1>2, <3>1 DEF MP!Records
    <3>. QED
      BY <3>1, <3>2 DEF MP!Bodies, MP!PartialFcns
  <2>6. a \in DOMAIN Exec[i].app /\ Known(src, child.bodies) /\ AppValue(src, child.bodies) = <<v>>
    BY <2>2, <2>4, AppModelIs
  <2>. HIDE DEF app, Of, v
  <2>7. \/ src.from = <<>> /\ v = src.own
        \/ /\ src.from = <<From(src)>> /\ From(src) \in Nat \X DOMAIN Addr
           /\ k \in DOMAIN child.bodies /\ l \in DOMAIN child.bodies[k]
           /\ v = child.bodies[k][l]
    BY <1>1, <2>6, ShowsOne
  <2>8. ~(src.from = <<>> /\ v = src.own)
    BY <1>1, <2>5, <2>6 DEF Telling, OwnWords, Source
  <2>9. PICK q \in DOMAIN records : /\ records[q].body = child.bodies[k] /\ <<q, l>> \in Leaves
                                    /\ records[q].url = RequestIn(i, k)
    BY <1>1, <2>7, <2>8, GotIsRecorded
  <2>10. Val[<<q, l>>] = Val[c]
    <3>1. Val[<<q, l>>] = <<child.bodies[k][l]>>
      BY <2>9 DEF Val
    <3>2. Val[c] = <<v>>
      BY <2>3 DEF Val, v
    <3>. QED
      BY <2>7, <2>8, <3>1, <3>2
  <2>11. c = <<q, l>>
    BY <2>3, <2>9, <2>10
  <2>12. records[q].pos[l] = MP!Position(RequestIn(i, k), l)
    <3>1. l \in DOMAIN records[q].pos
      BY <1>2, <2>7, <2>8, <2>9 DEF MP!Records
    <3>2. MP!OwnPositions(records[q])
      BY <2>9 DEF MP!RootInv
    <3>. QED
      BY <2>9, <3>1, <3>2 DEF MP!OwnPositions
  <2>13. mm'[a] = {MP!Position(RequestIn(i, k), l)}
    <3>1. PosOf[c] = records[q].pos[l]
      BY <2>3, <2>11
    <3>. QED
      BY <2>1, <2>12, <3>1
  <2>14. From(src) \in Range(src.from)
    BY <2>7, <2>8 DEF Range
  <2>. QED
    BY <2>13, <2>14 DEF TrueIn, Source
<1>. QED
  BY <1>4 DEF SoundMap

(* A property that differs has a source that does.                          *)
LEMMA DiffersAtSource ==
  ASSUME NEW src, NEW S, src.from \in Seq(S), NEW one, NEW two, AppValue(src, one) # AppValue(src, two)
  PROVE  \E n \in DOMAIN src.from :
           one[src.from[n][1]][src.from[n][2]] # two[src.from[n][1]][src.from[n][2]]
<1>. SUFFICES ASSUME \A n \in DOMAIN src.from :
                one[src.from[n][1]][src.from[n][2]] = two[src.from[n][1]][src.from[n][2]]
              PROVE  FALSE
  OBVIOUS
<1>1. [n \in DOMAIN src.from |-> one[src.from[n][1]][src.from[n][2]]]
      = [n \in DOMAIN src.from |-> two[src.from[n][1]][src.from[n][2]]]
  OBVIOUS
<1>. QED
  BY <1>1, Zenon DEF AppValue

(* The vibration record is of the one request that the vibration hits.      *)
LEMMA VibrationRecordOf ==
  ASSUME VibratesOne, Calm, ProgramInv, Asks, i \in 1..N, vibration = Vib,
         vi \in DOMAIN Exec[i].vibs, vibrationRecord # None,
         NEW k \in DOMAIN Exec[i].reqs, ~FixedIn(i, k), MP!Hits(Vib, RequestIn(i, k))
  PROVE  vibrationRecord.url = RequestIn(i, k)
<1>1. MP!LastInv /\ MP!VibrationInv /\ records \in Seq(MP!Records)
  BY DEF Calm, Served, MP!Serial, MP!TypeInv
<1>2. PICK q \in DOMAIN records : vibrationRecord = records[q]
  <2>1. PICK n \in {Len(records), Len(records) - 1} : MP!MarkedUpTo(n)
    BY <1>1 DEF MP!LastInv
  <2>2. PICK q \in 1..n : vibrationRecord = records[q]
    BY <2>1 DEF MP!MarkedUpTo, MP!MatchedOf
  <2>3. q \in DOMAIN records
    BY <1>1, <2>2
  <2>. QED
    BY <2>2, <2>3
<1>3. vibrationRecord.url.path \in Vib.paths
  BY <1>1 DEF MP!VibrationInv, MP!Vibrated, MP!Hits
<1>4. PICK n \in DOMAIN Exec[i].reqs : ~FixedIn(i, n) /\ records[q].url = RequestIn(i, n)
  BY <1>2 DEF ProgramInv, AskedFor
<1>5. RequestIn(i, n).path \in Vib.paths /\ RequestIn(i, k).path \in Vib.paths
  BY <1>2, <1>3, <1>4 DEF MP!Hits
<1>. QED
  BY <1>2, <1>4, <1>5 DEF VibratesOne, Vib

(* By vibration: what a comparison finds.                                   *)
LEMMA FoundIsTrue ==
  ASSUME Telling, NEW B, SInv(B), MP!RootInv, stage = "vrun", Complete, NEW m, Found(m)
  PROVE  SoundMap(i, m)
<1>. DEFINE app == AppModel(child.bodies)
<1>1. /\ Calm /\ ProgramInv /\ Asks /\ Judged /\ i \in 1..N /\ vibration = Vib
      /\ vi \in DOMAIN Exec[i].vibs /\ base.app = AppModel(base.bodies)
  <2>1. /\ Calm /\ ProgramInv /\ Asks /\ Judged /\ vibration = Vib /\ Places
        /\ base.app = AppModel(base.bodies)
    BY DEF SInv, MInv, IInv, Calm, Asks, Judged, SetupInv, BaseInv
  <2>2. i \in 1..N /\ vi \in 1..Len(Exec[i].vibs)
    BY <2>1, ReqsAre DEF Places
  <2>3. Exec[i].vibs \in Seq(Range(Exec[i].vibs))
    BY <2>2, ExecAssumption
  <2>. QED
    BY <2>1, <2>2, <2>3
<1>2. CASE m = R!EmptyMap
  BY <1>2 DEF R!EmptyMap, SoundMap
<1>3. CASE /\ vibrationRecord # None /\ seqs = base.seq /\ DOMAIN base.app = DOMAIN app
           /\ m = [a \in R!Differing(base.app, app) |-> VibratedPosition]
  <2>1. ASSUME NEW a \in DOMAIN m PROVE m[a] \subseteq TrueIn(i, a)
    <3>. DEFINE src == Source(i, a)
    <3>1. /\ a \in DOMAIN app /\ a \in DOMAIN base.app /\ base.app[a] # app[a]
          /\ m[a] = VibratedPosition
      BY <1>3, <2>1 DEF R!Differing
    <3>2. /\ a \in DOMAIN Exec[i].app /\ Known(src, child.bodies)
          /\ app[a] = AppValue(src, child.bodies) /\ base.app[a] = AppValue(src, base.bodies)
      BY <1>1, <3>1, AppModelIs
    <3>3. src.from \in Seq(Nat \X DOMAIN Addr)
      BY <1>1, <3>2, SourcesAre
    <3>. HIDE DEF app, src
    <3>4. AppValue(src, child.bodies) # AppValue(src, base.bodies)
      BY <3>1, <3>2
    <3>5. PICK n \in DOMAIN src.from : child.bodies[src.from[n][1]][src.from[n][2]]
                                       # base.bodies[src.from[n][1]][src.from[n][2]]
      <4>. DEFINE one == child.bodies
                  two == base.bodies
                  S == Nat \X DOMAIN Addr
      <4>1. src.from \in Seq(S) /\ AppValue(src, one) # AppValue(src, two)
        BY <3>3, <3>4
      <4>. HIDE DEF one, two, S
      <4>2. \E n \in DOMAIN src.from :
              one[src.from[n][1]][src.from[n][2]] # two[src.from[n][1]][src.from[n][2]]
        BY <4>1, DiffersAtSource
      <4>. QED
        BY <4>2 DEF one, two
    <3>. DEFINE k == src.from[n][1]
                l == src.from[n][2]
    <3>6. k \in DOMAIN child.bodies /\ l \in DOMAIN child.bodies[k]
      BY <3>2 DEF Known
    <3>7. /\ k \in DOMAIN Reqs
          /\ \/ ~FixedIn(i, k) /\ MP!Hits(Vib, RequestIn(i, k)) /\ l = Vib.leaf
             \/ l \in DOMAIN Kind /\ Kind[l] = "time"
      BY <1>3, <3>5, <3>6, RunsDiffer
    <3>8. ~(l \in DOMAIN Kind /\ Kind[l] = "time")
      BY <1>1, <3>2 DEF Telling, NoClock, src, Source
    <3>9. vibrationRecord.url = RequestIn(i, k)
      BY <1>1, <1>3, <3>7, <3>8, VibrationRecordOf DEF Telling, Reqs
    <3>10. \A x \in VibratedPosition : x = MP!Position(RequestIn(i, k), l)
      <4>1. MP!OwnPositions(vibrationRecord)
        BY <1>3 DEF MP!RootInv
      <4>2. ASSUME NEW x \in VibratedPosition
            PROVE  Vib.leaf \in DOMAIN vibrationRecord.pos /\ x = vibrationRecord.pos[Vib.leaf]
        BY DEF VibratedPosition
      <4>. QED
        BY <3>7, <3>8, <3>9, <4>1, <4>2 DEF MP!OwnPositions
    <3>11. src.from[n] \in Range(src.from)
      BY DEF Range
    <3>. QED
      BY <3>1, <3>10, <3>11 DEF TrueIn, src, Source
  <2>. QED
    BY <2>1 DEF SoundMap
<1>. QED
  BY <1>2, <1>3 DEF Found

(* Add keeps what is sound.                                                 *)
LEMMA AddIsSound ==
  ASSUME NEW j, NEW m, NEW o, SoundMap(j, m), SoundMap(j, o), NEW r \in R!AddOutcomes(m, o)
  PROVE  SoundMap(j, r)
<1>1. PICK s \in R!Survivors(m) : r = R!Added(s, m, o)
  BY DEF R!AddOutcomes
<1>2. \A a \in DOMAIN m : s[a] \in m[a]
  BY DEF R!Survivors, R!Lasts
<1>3. ASSUME NEW a \in DOMAIN r PROVE r[a] \subseteq TrueIn(j, a)
  <2>1. r[a] = (IF a \in DOMAIN m THEN {s[a]} ELSE {}) \cup R!PositionsAt(o, a)
    BY <1>1, <1>3 DEF R!Added
  <2>2. a \in DOMAIN m => {s[a]} \subseteq TrueIn(j, a)
    BY <1>2 DEF SoundMap
  <2>3. R!PositionsAt(o, a) \subseteq TrueIn(j, a)
    BY DEF R!PositionsAt, SoundMap
  <2>. QED
    BY <2>1, <2>2, <2>3
<1>. QED
  BY <1>3 DEF SoundMap

(* The map is empty until the base run is judged, and after execute.        *)
LEMMA EmptyOutside ==
  ASSUME Calm, [Next]_vars, ~Judged'
  PROVE  DOMAIN mm' = {} \/ (~Judged /\ mm' = mm)
<1>. USE DEF Calm
<1>1. CASE Ctrl \/ Serve
  <2>1. UNCHANGED <<stage, mm>>
    BY <1>1 DEF Ctrl, Serve, exeVars
  <2>. QED
    BY <2>1 DEF Judged
<1>2. CASE Launch
  <2>1. pc = "loop" /\ mm' = mm
    BY <1>2 DEF Launch, R!Launch
  <2>. QED
    BY <2>1 DEF Places, Judged
<1>3. CASE Ends
  BY <1>3 DEF Ends, Ended, NoFunction
<1>4. CASE MapsBase \/ \E m : Adds(m)
  <2>1. stage' \in {"vinit", "link"}
    BY <1>4 DEF MapsBase, Adds, AddMap, NextVibration
  <2>. QED
    BY <2>1 DEF Judged
<1>5. CASE UNCHANGED vars
  BY <1>5 DEF vars, exeVars, Judged
<1>6. CASE StartBase \/ StartVibrated
  BY <1>6 DEF StartBase, StartVibrated, Judged
<1>7. CASE Send \/ Server
  BY <1>7, HandlersLeaveSetup DEF Judged
<1>8. CASE Abandon
  BY <1>8 DEF Abandon, Judged
<1>. QED
  BY <1>1, <1>2, <1>3, <1>4, <1>5, <1>6, <1>7, <1>8, NextSplit

LEMMA SoundStep ==
  ASSUME Telling, NEW B, SInv(B), MP!RootInv, SoundInv, [Next]_vars PROVE SoundInv'
<1>1. Calm /\ ProgramInv
  BY DEF SInv, MInv, IInv, Calm
<1>2. CASE ~Judged'
  BY <1>1, <1>2, EmptyOutside DEF SoundInv
<1>3. CASE Judged' /\ Judged /\ UNCHANGED <<i, base, mm>>
  <2>1. SoundMap(i, mm)
    BY <1>3 DEF SoundInv
  <2>. QED
    BY <1>3, <2>1 DEF SoundInv
<1>4. CASE MapsBase
  <2>1. Judged' /\ i' = i
    BY <1>4 DEF MapsBase, NextVibration, Judged, ctrlVars
  <2>2. SoundMap(i, mm')
    BY <1>1, <1>4, SoundAtBase
  <2>. QED
    BY <2>1, <2>2 DEF SoundInv
<1>5. CASE Judged /\ UNCHANGED <<i, base>> /\ \E m : Adds(m)
  <2>1. PICK m : Adds(m)
    BY <1>5
  <2>2. /\ stage = "vrun" /\ Complete /\ Found(m) /\ mm' \in R!AddOutcomes(mm, m)
        /\ stage' \in {"vinit", "link"}
    BY <2>1 DEF Adds, AddMap, NextVibration
  <2>3. SoundMap(i, m)
    BY <2>2, FoundIsTrue
  <2>4. SoundMap(i, mm')
    BY <1>5, <2>2, <2>3, AddIsSound DEF SoundInv
  <2>. QED
    BY <1>5, <2>2, <2>4 DEF SoundInv, Judged
<1>. QED
  BY <1>1, <1>2, <1>3, <1>4, <1>5, MapSplit

(* Each position in a model map is that of a leaf the program made the      *)
(* property from, for a program that makes its requests one by one and      *)
(* that vibrate can tell about.  The bridge errs about one whose requests   *)
(* overlap, that polls, writes a word of its own that is a value, shows the *)
(* clock, or makes two requests that share a schema or that one vibration   *)
(* hits.                                                                    *)
THEOREM MapIsTrue == ASSUME Telling PROVE SafetySpec => []MappingSound
<1>1. PICK B : Affords(B)
  BY DEF Telling, OneByOne, BoundsSuffice
<1>. DEFINE I == SInv(B) /\ MP!RootInv /\ SoundInv
<1>2. Init => I
  <2>. SUFFICES ASSUME Init PROVE I
    OBVIOUS
  <2>1. MP!Init
    BY SameInit DEF Init
  <2>2. MP!RootInv
    BY <2>1, MP!RootInit, ServerConstants, Zenon
  <2>3. SoundInv
    BY DEF Init, SoundInv, Judged, NoFunction
  <2>. QED
    BY <1>1, <2>2, <2>3, SInvInit
<1>3. I /\ [Next]_vars => I'
  <2>. SUFFICES ASSUME SInv(B), MP!RootInv, SoundInv, [Next]_vars
                PROVE  SInv(B)' /\ MP!RootInv' /\ SoundInv'
    OBVIOUS
  <2>1. OneByOne /\ DistinctRequests /\ MP!OwnSchemas
    BY DEF Telling
  <2>2. SInv(B)'
    BY <1>1, <2>1, SInvStep
  <2>3. MP!TypeInv /\ [MP!Next]_(MP!vars)
    BY <1>1, <2>1, ServerMoves DEF SInv, MInv, IInv
  <2>4. MP!RootInv'
    BY <2>1, <2>3, MP!RootStep, ServerConstants, Zenon
  <2>5. SoundInv'
    BY SoundStep
  <2>. QED
    BY <2>2, <2>4, <2>5
<1>4. I => MappingSound
  <2>. SUFFICES ASSUME SoundInv PROVE MappingSound
    OBVIOUS
  <2>1. \A a \in DOMAIN mm : mm[a] \subseteq TrueIn(i, a)
    BY DEF SoundInv, SoundMap
  <2>2. \A a : TruePositions(a) = TrueIn(i, a)
    BY TrueIs
  <2>. QED
    BY <2>1, <2>2 DEF MappingSound
<1>. HIDE DEF I
<1>. QED
  BY <1>2, <1>3, <1>4, PTL DEF SafetySpec
===============================================================================
