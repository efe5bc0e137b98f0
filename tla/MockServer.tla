------------------------------ MODULE MockServer ------------------------------
(***************************************************************************)
(* The mock server (mockserver/server.go): Handle and all it calls, with    *)
(* every access to the state that handlers share a step of its own, and     *)
(* InitExecution and InitVibration, which the control loop calls between    *)
(* the runs of the external program.  net/http runs one goroutine per       *)
(* request; nothing in the code synchronises them.                          *)
(*                                                                          *)
(* A response body is a function from locations (leaves of the document) to *)
(* values; expansion and monomorphization are the constant Instances.       *)
(***************************************************************************)
EXTENDS Integers, Sequences, FiniteSets, Functions

CONSTANTS
  Slots,         \* goroutines that may handle a request at a time
  Urls,          \* what a request asks for: records [path, version]
  Instances,     \* Instances[u]: the monomorphised instances of the response of
                 \* u, each the sequence of its leaves in synthesis order;
                 \* u is outside its domain when lookup or expansion fails
  Kind,          \* Kind[l]: "fresh", "time" or "const", how a leaf is synthesized
  Addr,          \* Addr[l]: the property that defines leaf l; Undefined if none
  Undefined,     \* no property defines the leaf: its position is nil
  Schema,        \* Schema[u]: the reference of the response schema, the cache key
  Times,         \* what time.Now() may be when a generator is made
  OverrideLists, \* the override lists InitExecution may be given
  Vibrations,    \* the vibrations InitVibration may be given
  None,
  TokenPath,     \* the path that ends in /oauth2/v2.0/token
  Overlap,       \* requests may overlap
  Stragglers,    \* a handler may outlive the program it answers
  MaxRequests,   \* bound: requests of one run of the program
  MaxRuns        \* bound: calls of InitVibration

ASSUME BooleanAssumption == Overlap \in BOOLEAN /\ Stragglers \in BOOLEAN
ASSUME InstancesAssumption ==
  /\ DOMAIN Instances \subseteq Urls
  /\ \A u \in DOMAIN Instances :
       /\ Instances[u] \in Seq(Seq(DOMAIN Kind))
       /\ \A m \in DOMAIN Instances[u] : IsInjective(Instances[u][m])
ASSUME KindAssumption == Kind \in [DOMAIN Kind -> {"fresh", "time", "const"}]
ASSUME OverridesAssumption == \A ovs \in OverrideLists : DOMAIN ovs \subseteq Nat
(* The kind of a value tells its origin: users do not write generated ones. *)
ASSUME UserValuesAssumption ==
  /\ \A v \in Vibrations : v.value.kind \notin {"fresh", "time"}
  /\ \A ovs \in OverrideLists : \A k \in DOMAIN ovs : \A l \in DOMAIN ovs[k].patch :
       ovs[k].patch[l].kind \notin {"fresh", "time"}
ASSUME TimesAssumption == Times \subseteq Nat
ASSUME BoundsAssumption == MaxRequests \in Nat /\ MaxRuns \in Nat

VARIABLES
  overrides, rnd, records, seqs,   \* "execution-based" (server.go:34)
  vibration, vibrationRecord,      \* "sub-execution-based" (server.go:40)
  cache,      \* the ExpanderCache: schema -> root model of the kept property
  hd,         \* hd[s]: the handler running in slot s, with its locals
  run,        \* number of calls of InitVibration so far
  arrived,    \* requests of this run
  answered    \* history: the synthesized bodies this run was answered with

shared == <<overrides, rnd, records, seqs, vibration, vibrationRecord, cache>>
vars == <<shared, hd, run, arrived, answered>>
ghosts == <<run, arrived, answered>>

-------------------------------------------------------------------------------
(* Override.  An override without a setting has the neutral value of it:    *)
(* paths its pattern matches; body: response_body is set; toPath, toVersion *)
(* of request_modify; keeps: the instances its selector leaves unchanged,   *)
(* None without a selector; patch: the leaves a patch sets; fails: the step *)
(* at which applying it fails; cached: the cache is not disabled.           *)
NoOverride == [paths |-> {}, body |-> FALSE, toPath |-> None, toVersion |-> None,
               keeps |-> None, patch |-> [l \in {} |-> None], fails |-> "never",
               cached |-> FALSE]

(* Match returns the first override whose pattern matches.                  *)
Match(ovs, path) ==
  LET Hits == {k \in DOMAIN ovs : path \in ovs[k].paths}
  IN IF Hits = {} THEN NoOverride
     ELSE ovs[CHOOSE k \in Hits : \A j \in Hits : k <= j]

(* modifyRequest.  The new api-version is written into the map that         *)
(* URL.Query() parses anew on each call: the request keeps its version.     *)
Modified(u, ov) == IF ov.toPath = None THEN u ELSE [u EXCEPT !.path = ov.toPath]

-------------------------------------------------------------------------------
Value(kind, n) == [kind |-> kind, n |-> n]

(* The leaves of all instances of u, in the order they are synthesized.     *)
Cells(u) == UNION {{<<m, k>> : k \in DOMAIN Instances[u][m]} : m \in DOMAIN Instances[u]}
Before(c, d) == c[1] < d[1] \/ (c[1] = d[1] /\ c[2] <= d[2])
NextCell(u, built) ==
  CHOOSE c \in Cells(u) \ DOMAIN built : \A d \in Cells(u) \ DOMAIN built : Before(c, d)
LeafAt(u, c) == Instances[u][c[1]][c[2]]

(* The m-th synthesized response.                                           *)
Response(u, built, m) ==
  [l \in Range(Instances[u][m]) |->
     built[CHOOSE c \in Cells(u) : c[1] = m /\ LeafAt(u, c) = l]]

(* selResponse: one instance is taken as it is; without a selector the      *)
(* first; otherwise the first the selector leaves unchanged.  0: an error.  *)
Selected(u, ov) ==
  LET All == DOMAIN Instances[u]
      Candidates == IF ov.keeps = None \/ Cardinality(All) = 1 THEN All
                    ELSE All \cap ov.keeps
  IN IF Candidates = {} THEN 0
     ELSE CHOOSE m \in Candidates : \A j \in Candidates : m <= j

(* g over f.                                                                *)
Over(g, f) == [l \in DOMAIN f \cup DOMAIN g |-> IF l \in DOMAIN g THEN g[l] ELSE f[l]]

(* UnmarshalJSONToJSONValue: each leaf gets the position of the property    *)
(* that defines it, under the root model of the expanded property.          *)
Position(root, l) ==
  IF Addr[l] = Undefined THEN Undefined ELSE [root |-> root, addr |-> Addr[l]]

(* Variant: a value the schema does not define gets no entry.               *)
RecordOfDefined(h) ==
  [run |-> h.run, url |-> h.url, body |-> h.body,
   pos |-> [l \in {k \in DOMAIN h.body : Addr[k] # Undefined} |-> Position(h.root, l)]]

RecordOf(h) == [run |-> h.run, url |-> h.url, body |-> h.body,
                pos |-> [l \in DOMAIN h.body |-> Position(h.root, l)]]

SeqEntry(h) == [url |-> h.url, sel |-> Selected(h.url, h.ov)]

-------------------------------------------------------------------------------
Idle == [pc |-> "idle", run |-> 0, url |-> None, ov |-> NoOverride, root |-> None,
         tmp |-> 0, built |-> [c \in {} |-> None], body |-> [l \in {} |-> None],
         vib |-> FALSE, snap |-> <<>>]

NoRnd == [fresh |-> 0, time |-> 0]

Init ==
  /\ overrides = <<>>
  /\ rnd = NoRnd
  /\ records = <<>> /\ seqs = <<>>
  /\ vibration = None /\ vibrationRecord = None
  /\ cache = [k \in {} |-> None]
  /\ hd = [s \in Slots |-> Idle]
  /\ run = 0 /\ arrived = 0 /\ answered = <<>>

At(s, pc) == hd[s].pc = pc
Busy == {s \in Slots : ~At(s, "idle")}

(* A request reaches a free goroutine.                                      *)
Arrive(s, u) ==
  /\ At(s, "idle")
  /\ hd' = [hd EXCEPT ![s] = [Idle EXCEPT !.pc = "match", !.run = run, !.url = u]]
  /\ arrived' = arrived + 1
  /\ UNCHANGED <<shared, run, answered>>

(* The token endpoint and an override with a response body answer without   *)
(* touching anything.                                                       *)
MatchOverride(s) ==
  /\ At(s, "match")
  /\ LET u == hd[s].url
         ov == Match(overrides, u.path)
     IN IF u.path = TokenPath \/ ov.body
          THEN hd' = [hd EXCEPT ![s].pc = "fixed"]
          ELSE hd' = [hd EXCEPT ![s].pc = "expand", ![s].ov = ov,
                                ![s].url = Modified(u, ov)]
  /\ UNCHANGED <<shared, ghosts>>

(* Idx.Lookup, NewExpanderFromOpRef and Expand up to the cache.load.  Only  *)
(* a matched override brings an expander option, hence a cache.             *)
CacheHit(h) == h.ov.cached /\ Schema[h.url] \in DOMAIN cache

Expand(s) ==
  /\ At(s, "expand")
  /\ LET h == hd[s]
     IN IF h.url \notin DOMAIN Instances
          THEN hd' = [hd EXCEPT ![s].pc = "refuse"]
        ELSE IF CacheHit(h)
          THEN hd' = [hd EXCEPT ![s].pc = "synth", ![s].root = cache[Schema[h.url]]]
        ELSE hd' = [hd EXCEPT ![s].pc = IF h.ov.cached THEN "save" ELSE "synth",
                              ![s].root = h.url]
  /\ UNCHANGED <<shared, ghosts>>

CacheSave(s) ==
  /\ At(s, "save")
  /\ cache' = Over([k \in {Schema[hd[s].url]} |-> hd[s].root], cache)
  /\ hd' = [hd EXCEPT ![s].pc = "synth"]
  /\ UNCHANGED <<overrides, rnd, records, seqs, vibration, vibrationRecord, ghosts>>

-------------------------------------------------------------------------------
(* synthResponse, one leaf after the other.  NextString and its like read   *)
(* the generator, write the next raw value and read it again for the text.  *)
Unfinished(h) == Cells(h.url) \ DOMAIN h.built # {}
Leaf(h) == LeafAt(h.url, NextCell(h.url, h.built))
With(h, v) == Over([c \in {NextCell(h.url, h.built)} |-> v], h.built)

SynthConst(s) ==
  /\ At(s, "synth") /\ Unfinished(hd[s]) /\ Kind[Leaf(hd[s])] = "const"
  /\ hd' = [hd EXCEPT ![s].built = With(hd[s], Value("const", 0))]
  /\ UNCHANGED <<shared, ghosts>>

SynthRead(s) ==
  /\ At(s, "synth") /\ Unfinished(hd[s]) /\ Kind[Leaf(hd[s])] # "const"
  /\ hd' = [hd EXCEPT ![s].pc = "bump", ![s].tmp = rnd[Kind[Leaf(hd[s])]]]
  /\ UNCHANGED <<shared, ghosts>>

(* Variant: the update acts on a copy of the generator.                     *)
SynthBumpCopy(s) ==
  /\ At(s, "bump")
  /\ hd' = [hd EXCEPT ![s].pc = "gen", ![s].tmp = 0]
  /\ UNCHANGED <<shared, ghosts>>

SynthBump(s) ==
  /\ At(s, "bump")
  /\ rnd' = [rnd EXCEPT ![Kind[Leaf(hd[s])]] = hd[s].tmp + 1]
  /\ hd' = [hd EXCEPT ![s].pc = "gen", ![s].tmp = 0]
  /\ UNCHANGED <<overrides, records, seqs, vibration, vibrationRecord, cache, ghosts>>

SynthGen(s) ==
  /\ At(s, "gen")
  /\ LET kind == Kind[Leaf(hd[s])]
     IN hd' = [hd EXCEPT ![s].pc = "synth",
                         ![s].built = With(hd[s], Value(kind, rnd[kind]))]
  /\ UNCHANGED <<shared, ghosts>>

(* selResponse, and the read of srv.seqs for the append.                    *)
Select(s) ==
  /\ At(s, "synth") /\ ~Unfinished(hd[s])
  /\ LET h == hd[s]
         m == Selected(h.url, h.ov)
     IN IF m = 0
          THEN hd' = [hd EXCEPT ![s].pc = "refuse"]
          ELSE hd' = [hd EXCEPT ![s].pc = "seq", ![s].snap = seqs,
                                ![s].body = Response(h.url, h.built, m),
                                ![s].built = Idle.built]
  /\ UNCHANGED <<shared, ghosts>>

AppendSeq(s) ==
  /\ At(s, "seq")
  /\ seqs' = Append(hd[s].snap, SeqEntry(hd[s]))
  /\ hd' = [hd EXCEPT ![s].pc = "patch", ![s].snap = <<>>]
  /\ UNCHANGED <<overrides, rnd, records, vibration, vibrationRecord, cache, ghosts>>

-------------------------------------------------------------------------------
(* The override's patch, then the first look at srv.vibration.              *)
Hits(v, u) == v # None /\ u.path \in v.paths

Patch(s) ==
  /\ At(s, "patch")
  /\ LET h == hd[s]
     IN IF h.ov.fails = "patch"
          THEN hd' = [hd EXCEPT ![s].pc = "refuse"]
          ELSE hd' = [hd EXCEPT ![s].pc = IF Hits(vibration, h.url) THEN "vibrate" ELSE "decode",
                                ![s].body = Over(h.ov.patch, @)]
  /\ UNCHANGED <<shared, ghosts>>

(* Variant: a handler whose vibration is gone waits for one.                *)
VibrateWaits(s) ==
  /\ At(s, "vibrate") /\ vibration # None
  /\ IF vibration.leaf \notin DOMAIN hd[s].body
       THEN hd' = [hd EXCEPT ![s].pc = "refuse"]
       ELSE hd' = [hd EXCEPT ![s].pc = "decode", ![s].vib = TRUE,
                             ![s].body[vibration.leaf] = vibration.value]
  /\ UNCHANGED <<shared, ghosts>>

(* The second look, which the vibration need not survive; a nil pointer     *)
(* panics and net/http drops the connection.                                *)
Vibrate(s) ==
  /\ At(s, "vibrate")
  /\ IF vibration = None
       THEN hd' = [hd EXCEPT ![s].pc = "abort"]
     ELSE IF vibration.leaf \notin DOMAIN hd[s].body
       THEN hd' = [hd EXCEPT ![s].pc = "refuse"]
     ELSE hd' = [hd EXCEPT ![s].pc = "decode", ![s].vib = TRUE,
                           ![s].body[vibration.leaf] = vibration.value]
  /\ UNCHANGED <<shared, ghosts>>

(* UnmarshalJSONToJSONValue, and the read of srv.records for the append.    *)
Decode(s) ==
  /\ At(s, "decode")
  /\ IF hd[s].ov.fails = "decode"
       THEN hd' = [hd EXCEPT ![s].pc = "refuse"]
       ELSE hd' = [hd EXCEPT ![s].pc = "record", ![s].snap = records]
  /\ UNCHANGED <<shared, ghosts>>

AppendRecord(s) ==
  /\ At(s, "record")
  /\ records' = Append(hd[s].snap, RecordOf(hd[s]))
  /\ hd' = [hd EXCEPT ![s].pc = IF hd[s].vib THEN "mark" ELSE "answer", ![s].snap = <<>>]
  /\ UNCHANGED <<overrides, rnd, seqs, vibration, vibrationRecord, cache, ghosts>>

(* Variant: the first vibrated record is kept.                              *)
MarkFirstVibration(s) ==
  /\ At(s, "mark")
  /\ vibrationRecord' = IF vibrationRecord = None THEN RecordOf(hd[s]) ELSE vibrationRecord
  /\ hd' = [hd EXCEPT ![s].pc = "answer"]
  /\ UNCHANGED <<overrides, rnd, records, seqs, vibration, cache, ghosts>>

MarkVibration(s) ==
  /\ At(s, "mark")
  /\ vibrationRecord' = RecordOf(hd[s])
  /\ hd' = [hd EXCEPT ![s].pc = "answer"]
  /\ UNCHANGED <<overrides, rnd, records, seqs, vibration, cache, ghosts>>

-------------------------------------------------------------------------------
(* The four ways a handler ends: the synthesized body, a fixed body, status *)
(* 500, a dropped connection.                                               *)
Release(s) == hd' = [hd EXCEPT ![s] = Idle] /\ UNCHANGED <<shared, run, arrived>>

Answer(s) ==
  /\ At(s, "answer")
  /\ answered' = IF hd[s].run = run THEN Append(answered, hd[s].body) ELSE answered
  /\ Release(s)

AnswerFixed(s) == At(s, "fixed") /\ Release(s) /\ UNCHANGED answered

(* No answer: a 500, or the connection that net/http drops after a panic.   *)
Refuse(s) ==
  /\ hd[s].pc \in {"refuse", "abort"} /\ Release(s)
  /\ UNCHANGED answered

Handle(s) ==
  \/ MatchOverride(s) \/ Expand(s) \/ CacheSave(s)
  \/ SynthConst(s) \/ SynthRead(s) \/ SynthBump(s) \/ SynthGen(s)
  \/ Select(s) \/ AppendSeq(s) \/ Patch(s) \/ Vibrate(s) \/ Decode(s)
  \/ AppendRecord(s) \/ MarkVibration(s)

Reply(s) == Answer(s) \/ AnswerFixed(s) \/ Refuse(s)

-------------------------------------------------------------------------------
(* Variants: one of the resets is missing.                                  *)
InitVibrationResetting(v, recs, r, vibRec) ==
  /\ records' = recs /\ seqs' = <<>>
  /\ rnd' = r
  /\ vibration' = v
  /\ vibrationRecord' = vibRec
  /\ run' = run + 1 /\ arrived' = 0 /\ answered' = <<>>
  /\ UNCHANGED <<cache, hd>>
InitVibrationKeepsRecords(v) == InitVibrationResetting(v, records, NoRnd, None)
InitVibrationKeepsRnd(v) == InitVibrationResetting(v, <<>>, rnd, None)
InitVibrationKeepsVibrationRecord(v) ==
  InitVibrationResetting(v, <<>>, NoRnd, vibrationRecord)

(* InitVibration.  A handler that is still running sees it as one step.     *)
InitVibration(v) ==
  /\ records' = <<>> /\ seqs' = <<>>
  /\ \E t \in Times : rnd' = [fresh |-> 0, time |-> t]
  /\ vibration' = v
  /\ vibrationRecord' = None
  /\ run' = run + 1 /\ arrived' = 0 /\ answered' = <<>>
  /\ UNCHANGED <<cache, hd>>

InitExecution(ovs) == overrides' = ovs /\ InitVibration(None)

(* The program makes a request, the control loop starts the next run.       *)
MayArrive ==
  /\ run > 0 /\ arrived < MaxRequests
  /\ Overlap \/ \A s \in Busy : hd[s].run # run

MayInit == run < MaxRuns /\ (Stragglers \/ Busy = {})

Environment ==
  \/ MayArrive /\ \E s \in Slots, u \in Urls : Arrive(s, u)
  \/ MayInit /\ \E ovs \in OverrideLists : InitExecution(ovs)
  \/ MayInit /\ run > 0 /\ \E v \in Vibrations : InitVibration(v) /\ UNCHANGED overrides

Next == Environment \/ \E s \in Slots : Handle(s) \/ Reply(s)

(* Every handler runs on; the program and the control loop may stop.        *)
Spec == Init /\ [][Next]_vars /\ \A s \in Slots : WF_vars(Handle(s) \/ Reply(s))

-------------------------------------------------------------------------------
(* Properties.                                                              *)
Quiet == Busy = {}

(* The requests as they come, and as request_modify rewrites them.          *)
Rewrites == UNION {{ovs[k].toPath : k \in DOMAIN ovs} : ovs \in OverrideLists}
Targets == Urls \cup {[u EXCEPT !.path = p] : u \in Urls, p \in Rewrites}

(* Types, and the stages of a handler.                                      *)
TypeOK ==
  /\ overrides \in OverrideLists \cup {<<>>}
  /\ rnd \in [fresh : Nat, time : Nat]
  /\ vibration \in Vibrations \cup {None}
  /\ DOMAIN cache \subseteq {Schema[u] : u \in DOMAIN Instances}
  /\ \A k \in DOMAIN cache : cache[k] \in DOMAIN Instances /\ Schema[cache[k]] = k
  /\ \A k \in DOMAIN records : DOMAIN records[k].pos = DOMAIN records[k].body
  /\ \A k \in DOMAIN seqs : seqs[k].sel \in DOMAIN Instances[seqs[k].url]
  /\ run \in 0..MaxRuns /\ arrived \in 0..MaxRequests
  /\ \A s \in Slots :
       /\ hd[s].pc \in {"idle", "match", "fixed", "expand", "save", "synth", "bump", "gen",
                        "seq", "patch", "vibrate", "decode", "record", "mark",
                        "answer", "refuse", "abort"}
       /\ hd[s].run \in 0..run
       /\ hd[s].url \in Targets \cup {None}

(* Two leaves of one run never hold the same generated value, in whichever  *)
(* response they are: JSONValueValueMap can tell them all apart.  (An       *)
(* instance that was not selected uses up values too.)                      *)
Generated(v) == v.kind \in {"fresh", "time"}
FreshValuesUnique ==
  \A j, k \in DOMAIN records :
    \A l \in DOMAIN records[j].body, d \in DOMAIN records[k].body :
      /\ Generated(records[j].body[l])
      /\ records[j].body[l] = records[k].body[d]
      => j = k /\ l = d

(* Between requests the records are the synthesized answers of this run, in *)
(* their order: none is missing, none was refused after it was recorded,    *)
(* and none is left from an earlier run.                                    *)
AnsweredIsRecorded ==
  Quiet => /\ Len(records) = Len(answered)
           /\ \A k \in DOMAIN records : records[k].body = answered[k]

(* The record of the vibration carries the vibrated value, on a path the    *)
(* vibration of this run matches: never one of an earlier vibration.        *)
VibrationRecordIsVibrated ==
  vibrationRecord # None =>
    /\ vibration # None
    /\ vibrationRecord.run = run
    /\ vibrationRecord.url.path \in vibration.paths
    /\ vibration.leaf \in DOMAIN vibrationRecord.body
    /\ vibrationRecord.body[vibration.leaf] = vibration.value

(* It is the last record the vibration matches, and it is missing only when *)
(* no answered request matched.                                             *)
MatchedRecords == {k \in DOMAIN records : Hits(vibration, records[k].url)}
VibrationRecordIsLast ==
  Quiet => IF MatchedRecords = {} THEN vibrationRecord = None
           ELSE \E k \in MatchedRecords : /\ \A j \in MatchedRecords : j <= k
                                          /\ vibrationRecord = records[k]

(* What the generator has handed out follows from the sequence of           *)
(* invocations alone.  vibrate compares the sequences of two runs to know   *)
(* that their responses carry the same values.                              *)
FreshCells(u) == {c \in Cells(u) : Kind[LeafAt(u, c)] = "fresh"}
HandedOut == UNION {{k} \X FreshCells(seqs[k].url) : k \in DOMAIN seqs}
SeqExplainsValues == Quiet => rnd.fresh = Cardinality(HandedOut)

(* server.go:34 and :40 call the records and the vibration record state of  *)
(* the (sub-)execution: they hold nothing a request of an earlier one left. *)
RecordsOfThisRun ==
  /\ \A k \in DOMAIN records : records[k].run = run
  /\ vibrationRecord # None => vibrationRecord.run = run

(* server.go:82-83: the descriptions determine the API invocation sequence, *)
(* so no answered invocation is missing from it.                            *)
SequenceIsComplete == Quiet => Len(seqs) >= Len(answered)

(* property.go:54 calls RootModel the information of the root model that    *)
(* holds the property: that of the operation which was invoked.             *)
RootModelIsOwn ==
  \A k \in DOMAIN records : \A l \in DOMAIN records[k].pos :
    records[k].pos[l] # Undefined => records[k].pos[l].root = records[k].url

(* README.md:203 says of request_modify's version: the api-version query    *)
(* parameter to change into.                                                *)
VersionModified ==
  \A s \in Slots : hd[s].ov.toVersion # None => hd[s].url.version = hd[s].ov.toVersion
===============================================================================
