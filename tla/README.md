# TLA+ model of azure-rest-api-bridge

azure-rest-api-bridge finds out which property of the Azure API model each property of an
application model (for instance a Terraform resource) comes from.  It starts a mock server,
runs the application against it, and looks at the values: a generated value that shows up
in the output of the application tells where that output comes from.  This directory holds
TLA+ modules of that program, TLC configurations that check them and TLAPS proofs.  Paths
below are relative to the repository.

## 1. The system

| Part | Source | State | Operations |
|---|---|---|---|
| control loop | `ctrl/ctrl.go` `Run` | `execState`, counters, `results` | window of `-from`/`-to`, skip, execute, `WriteResult`, stop |
| execution | `ctrl/ctrl.go` `execute`, `runCommand`, `vibrate` | base run (`BaseExecInfo`), model map | configure the server, run the program, map by value, one run per vibration |
| configuration | `ctrl/config.go`, `NewCtrl`, `validateExecSpec` | none | parse, validate |
| model map | `ctrl/map.go` | `ModelMap`, `SingleModelMap` | `MapSingleAppModel`, `Add`, `AddLink`, compare |
| value map | `ctrl/map.go`, `swagger/json_value.go` | `out`, `dupm` | `tryStore` |
| mock server | `mockserver/server.go` | `rnd`, `overrides`, `records`, `seqs`, `vibration`, `vibrationRecord` | `Handle`, `InitExecution`, `InitVibration` |
| life cycle of the server | `mockserver/server.go` `Start`, `Stop` | `shutdownCh`, listener | start, bind, shut down |
| expander and cache | `swagger/expander.go`, `expander_cache.go` | cache, work list | `Expand`, `load`, `save` |
| reference resolver | `swagger/refutil/` | visited references | `RResolve` |
| variant map | `swagger/variant_map.go` | map of discriminators | completion by passes, `Get` |
| monomorphization | `swagger/monomorphisizer.go`, `catesian_product.go` | none | product of variants |
| synthesizer, generator | `swagger/synth.go`, `random.go` | `Rnd` | `Synthesize`, `NextString`, ... |
| addresses | `swagger/property.go`, `property_addr.go` | none | parse, print, `ToPointer` |
| JSON values | `swagger/json_value.go` | none | decode with positions, flatten, value map |
| logging, command line | `log/log.go`, `main.go` | none | log lines, flags |

How they interact: `Run` calls `Start`, which launches a goroutine that listens; for each
execution `execute` sets the shared fields of the server (`InitExecution`), starts the
application as a process and waits for it.  The application calls the server over HTTP;
`net/http` runs `Handle` in a goroutine per request, and all of them read and write the same
fields of `Server`, the generator in it and the expander cache, without a lock.  When the
process has ended `execute` reads `Records()` and `Sequences()`, and for each vibration does it
all again with one leaf of the responses changed.

What is hard:
* handlers overlap, and nothing synchronises them;
* a handler can outlive the program it answers (abandoned requests, a program that exits), and
  then works on the state of the next run;
* an answer can be lost, and the program asks again;
* a request can fail at six points, after having changed some of the shared state;
* the comparison of two runs is sound only if they differ in the vibrated leaf alone;
* `Stop` must end whether or not the goroutine of `Start` has bound, failed or not yet run;
* the window of `-from`/`-to` is a state machine over the list of executions;
* maps of executions of one name, and of vibrations, are merged one after the other;
* schemas refer to themselves: the visited references decide where the property tree is cut, and everything after the
  expansion has to cope with what is left there;
* Go walks maps in an order of its own, yet two runs of a request must get the same bodies, but for times;
* a body is read back against the tree of all variants, not the one it was made from.

The hazards are listed with their lines in `PROJECT.json`.

## 2. The modules

| Module | Models | Uses |
|---|---|---|
| `ModelMap` | the data type of `ctrl/map.go` and its operators | |
| `CtrlRun` | `Ctrl.Run` with an execution as one step, `Server.Start`/`Stop` | `ModelMap` |
| `MockServer` | `Handle` and all it calls, `InitExecution`, `InitVibration` | |
| `Bridge` | `execute`, `runCommand`, `vibrate` and the external program, over the two above | `CtrlRun`, `MockServer` by INSTANCE |
| `ValueMap` | `tryStore` and the walk in any order | |
| `Schemas` | schemas, references and the predicates on them | |
| `Resolver` | `RResolve`, `RResolveResponse` | `Schemas` |
| `VariantMap` | `NewVariantMap` and `Get`, one definition or level at a time | `Schemas` |
| `Expander` | `NewExpanderFromOpRef`, `Expand` and its steps | `Resolver`, `VariantMap` |
| `Rnd` | the generator: raw values and formats | |
| `Synthesis` | monomorphization, `Synthesize`, `selResponse`, `UnmarshalJSONToJSONValue`, over a whole request and its repetition | `Expander`, `Rnd` |
| `PropertyAddr` | `ParseAddr` character by character, `String` | |
| `CtrlRunProofs`, `MockServerProofs`, `PropertyAddrProofs` | theorems about the module they are named after; `CtrlRunProofs` also those about `ModelMap` | |
| `ExpanderProofs` | theorems about `VariantMap`, `Resolver` and `Expander` | `Minima` |
| `ValueProofs` | theorems about `ValueMap` and about `Rnd` | `Minima` |
| `BridgeProofs` | theorems about `Bridge`: its types, and that it implements `CtrlRun` and is a lawful environment of `MockServer` | `MockServerProofs` by INSTANCE |
| `MappingProofs` | theorems about the maps `execute` makes | `BridgeProofs` |
| `Minima` | that sets of numbers have the least and greatest elements a `CHOOSE` asks for | |
| `MC*` | instances for TLC | |

The two halves meet in the constant `Instances` of `MockServer`: there a request is synthesized value by value while other
handlers run, from leaves that are given; `Synthesis` models where these leaves come from, in a handler on its own
(expansion and monomorphization share nothing with other handlers but the cache).  That a request has the same
instances in every run, as `Instances` has it, is the property `SameAgain` of `Synthesis`.

**CtrlRun.**  `pc` is the place in `Run`; `i` the index of the loop.  One action per way a turn of
the loop ends: `SkipByWindow` (the three `continue`s of the switch), `SkipMarked`, `Launch` followed
by `Succeed(m)`, `Fail` or `Crash`.  `Succeed` merges the returned map with `Add`; `Fail` goes on with
`-k` and otherwise ends the process with status 1; `Crash` is a panic (status 2).  `lis` is the
goroutine of `Start`: it may bind or fail to bind, and closes the channel when `ListenAndServe` has
returned.  `outcome` and `got` are history variables.  `CtrlRun` is also the abstract specification
of `Bridge`: an execution, whatever happens in it, is one step.

**MockServer.**  `hd[s]` is the handler in slot `s`, with its program counter and locals.  Each access
to a shared field is a step: an append to a slice is a read of the old header and a write of the new
one (`Select`/`AppendSeq`, `Decode`/`AppendRecord`); a generated value is a read of the generator, a
write and a second read (`SynthRead`, `SynthBump`, `SynthGen`); the vibration is looked at in `Patch` and
again in `Vibrate`.  A handler ends with `Answer`, `AnswerFixed` (token, fixed body) or
`Refuse` (an error, or a panic, which net/http turns into a dropped connection).  `Environment` is what the program
and the control loop may do; the constants `Overlap` and `Stragglers` say how well they behave.

**Bridge.**  `stage` is the place in `execute`: `init`, `run`, `vinit`, `vrun`, `link`.  `Configure` is the
translation of overrides up to `InitExecution`, `MapModels` the mapping by value, `VibrateInit` and `Compare`
the two halves of `vibrate` around the program, `Link` the end.  Each of them has all the error returns and
panics of its code.  The program (external) is described by `Exec[j]`: the requests it makes and where each
of its properties comes from; it may give up at any time, send in parallel, lose answers and retry.

**ValueMap.**  `MapSingleAppModel` in `ModelMap` takes "the unambiguous leaves" as a set; `ValueMap` shows that
the code's incremental construction arrives at that set in any order.

**Schemas, Resolver.**  A schema is a record of the fields the code looks at; a reference is a file and a path of
tokens; `At` is what a document has there, or `None`.  References are
normalized from the start.  `RResolve` follows references until it has a concrete schema ("ok"), one is visited a second
time ("cut") or one does not resolve ("error"); `Hop` is a turn of its loop.  A loop without an end cannot be a function, so
`Follow` takes `Turns` of them; that this is always enough is a theorem.  `Schema` and `Response` are the schemas and responses of all files.

**VariantMap.**  `Seed`, `Inherit(d)`, `NextPass`, `Collect(d)`, `Collected` are the loops of `NewVariantMap`; `todo` is what the
`range` over the Go map has left, in any order.  `Get` and `GetLevel` are the work list of `Get`.

**Expander.**  The property tree is the function `prop` from paths to properties.  `worklist`, `nextLevel` and `current` are the
locals of `Expand`; `Step` takes one property of the level (in any order: maps again), one action per kind of schema
(`ExpandPrimitive`, `ExpandArray`, `ExpandMap`, `ExpandEmptyObject`, `ExpandAsRegularObject`, `ExpandAsPolymorphicObject`), and
`InitVariantMap`, `VariantStep`, `GetVariants` run the variant map of the file of the schema in between.  A regular object takes
several steps: `bases` is the recursion of `expandPropAsRegularObject` over `allOf`, of which `ExpandBase` takes one schema, and
`GotChildren` puts the `children` collected from all of them into the tree.  A property
carries the references visited on the way to it.

**Synthesis.**  `Monomorphize` computes all instances, `Synthesize` takes them one by one through the same generator, `Answer`
picks one body and reads it back.  A body is a tagged record whose leaves remember, as history, the property they were
made from.  `Again` is the same request in the next run, after `InitVibration`, when the clock reads the same or a later hour.
`ToPointer` is what `property_addr.go:94` makes of an address and `jsonpointer.New` of that: the names are joined as they are, so
the constant `Tokens` says of a name with a "/", a "~0" or a "~1" what it splits into.

**Rnd.**  A raw string is a sequence of letters; `GenString` is what a format makes of it.  Where two formats can
print the same (a raw string and base64), the encoding is spelled out (`Base64`); the others are tagged by their shape.
The clock counts hours; `LocalHour` is what it shows, and `Summer` the hours at which it is one ahead.

**PropertyAddr.**  One action per case of the switch in `ParseAddr`; the inputs are written texts and printed addresses, and
what a written text was parsed to is printed and parsed once more (`Reprint`).

### Abstractions

* Method and path of a request are one field `path`; in `MockServer` synthesizer options and everything expansion, resolution and
  monomorphization do are the constant `Instances` (the leaves of each instance in synthesis order); a failing lookup
  or expansion is a URL outside its domain.  `emptyObjAsStr`, the other half of the cache key, is part of `Schema`.
* In `MockServer` the three counters of `Rnd` are one counter `fresh`, and values made from `rnd.time` have a counter of their
  own; `Rnd` has all of them, with every format.  In `Rnd`, texts of two shapes are taken to differ: a "/", an "@", the dashes, the
  colons or the first letter of a text tell its shape.  Raw strings and base64 have none of these, and are one shape.
  The bytes of a binary are not spelled out: different integers can print alike there (not UTF-8), as can durations
  of many years.  That a generated string spells a word of the specification (an enumeration, a discriminator) is left out of
  `Synthesis`; `Bridge` has it (`OwnWords`, `BridgeConst.cfg`).
* `Expander` leaves out titles, descriptions and read-only flags, which are copied along, and schemas that are nil, which the
  resolver never returns.  `Sorted` takes some fixed order for the alphabetical one.
* Reading or writing a slice header or a pointer is one step (no torn values); the five assignments of
  `InitVibration` are one step.  Concurrent use of the cache's Go map, which aborts the process, is not modelled.
* Names, text, file positions and links are left out.  Marshalling of JSON the program itself has built does not fail.
* A vibration's path and value are `leaf` and `value`; only `Findable` leaves have an address that prints as their
  JSON pointer (`PropertyAddr.ToPointer`); which leaves of a body these are is `FindableExactly` in `Synthesis`.
* An address is a sequence of steps in `Expander` and `Synthesis`; its text is the subject of `PropertyAddr`.

## 3. What is checked

All runs use the definitions unchanged; constants are in the `MC` modules.

| Run | States | Shows |
|---|---|---|
| `ctrl_run` | 61,989 | three executions, two of one name; every `-from`/`-to` out of the labels, a typo or none; `-k`; skip marks; five model maps |
| `server_serial` | 22,149 | one request at a time, two requests per run, three runs; overrides of each kind, failing patches and decodings, a token, unknown URLs |
| `server_overlap` | 95,283 | two handlers at once, no stragglers |
| `bridge` | 39,818 | three executions with up to two vibrations each, the clock drifting, one lost answer; six more that each go wrong in a way of their own |
| `bridge_stragglers` | 67,251 | abandoned requests, retries, requests that reach into a vibration, into the next execution and into `Stop` |
| `value_map` | 1,296 | four leaves, three texts, every order |
| `synthesis` | 39,226 | twenty-three specification files, each request twice, the second time at the same or the next hour, every order of the walks over Go maps |
| `property_addr` | 41,095 | all texts up to four characters, all addresses of one step with two characters or two steps with one |

The properties, grouped by what they are for:

* **The run.** `WindowExact`: what ran is the window, stated without the state machine: from the first execution `-from` names up
  to, and without, the next one *after it* that `-to` names.  The execution that opens the window is in it even if `-to` names
  that one too.  This is what the code does, not what `main.go:25` says ("exclusively"): that is `ToExclusive`, violated in `CtrlTo.cfg`.
  `ExitTellsTruth`: status 0 means every wanted execution succeeded and was printed; 1 that one failed; the counters add up.
  `CleanExitStopsServer`, `OnlyForward`, `Termination`.
* **The results.** `ResultsFromSuccesses`: no position that no successful execution of that name returned, and the newest map
  is there in full.  `KeysNeverLost`: merging may lose positions, never a property.
* **The server.** `FreshValuesUnique`, `AnsweredIsRecorded`, `VibrationRecordIsVibrated`, `VibrationRecordIsLast`,
  `SeqExplainsValues` (what the generator handed out follows from the sequence, which is why comparing sequences makes
  sense), `RecordsOfThisRun`; and, in the whole bridge with all its stragglers, `RequestsEnd`.
* **The whole.** `MappingSound` (each position is one of a leaf the property was made from), `MappingComplete`,
  `SameButVibrated` (equal sequences mean equal answers but for the vibrated leaf and the clock).
* **The property tree.** `MapsTheHierarchy` and `GetIsComplete`: the variant map against the hierarchy stated as the least set
  closed under derivation, without loops or order.  `TreeOK` is the type invariant.  `ConcreteOnce`: a path from the root
  takes a schema a second time only below a polymorphic one.  `CutOnlyCycles`: of the properties of
  an object and all its bases none is left out but where the tree would start over, at a schema above it or at a base of one; so
  siblings do not cut each other.  What a schema inherits is computed from the files alone (`Ancestry`).
  `FindableExactly`: which leaves the pointer made of their address finds again: all but a body that is a leaf itself, what is below
  a polymorphic root, entries of maps, elements after the first, and what is below a name with a "/", "~0" or "~1".
* **From the tree to a body and back.** `InstancesMeetAllChoices`: any two properties that do not exclude each other are in one instance.
  `GeneratedValuesDiffer`, over all formats and instances, but for times of day, dates over the end of summer time and binaries.  `PositionsAreOrigins`: reading the body back gives each
  leaf the property it was made from.  `HandlersComeThrough`: no panic, and no body the server cannot read itself.
  `SameAgain`: two runs of a request give the same bodies with the same values, but for dates and times, whatever the order of the
  maps and whatever the clock reads.  That times do move is hazard and counterexample (`BridgeDrift.cfg`).
* **Addresses.** `RoundTrip`: printing and parsing are inverse but for the names that are listed in it.  `WrittenIsKept`: what a user wrote
  is what was parsed, but for an open variant at the end.
* **Refinement.** `RefinesRun`: `Bridge` implements `CtrlRun` under the identity mapping, so what is proved of `CtrlRun`
  holds of it.  `RefinesServer`: the control loop and the program do only what `MockServer` was checked under.

Why the bounds are enough: the window has three states and two labels, so three executions show each transition and
what follows it; `Add` needs three maps to lose a position and two names to mix them up; interference on the shared fields
is between two handlers; a vibration can inherit state from the base run and from another vibration (three runs).
`MaxRequests` and `MaxRuns` only cut off the environment of `MockServer`; in the `Bridge` runs they are never reached.  `MaxLost`
bounds lost or abandoned answers by one.  The `MCMaps` of the Bridge runs are the maps those executions can return.

The specification files of `MCSynthesis` are one per shape the expander treats differently: every kind of leaf and
container, references that come back in every place (property, array, map, alias, a circle of references only), a hierarchy of
two levels that leads back to its base, one of three, a model of two bases, bases of bases, two files that refer to each
other and name models alike, a variant value used twice, a tree that is cut everywhere, an array of itself, names that a pointer splits or unescapes,
a body that is a single leaf, and operations and references that lead nowhere.  `Turns` is larger than the number of references, which TLC checks (`TurnsAssumption`).
`LastLetter = 2` makes raw strings grow after two values, which they do after 26 in
the code.  The first run begins at `FirstHour = 22` and the second at that or the next hour (`LastHour = 23`), with `Summer = 0..59`: midnight
comes within a few values, and summer time can end between two dates, which then are the same.  A special character of an address matters to at most the one before and the one after it, and a step to the next:
four characters and two steps show all of these together.

`CHECK_DEADLOCK FALSE` (all runs but `synthesis`, which checks it): a run ends (the process exits), and the environment of `MockServer` may stop.

### Fairness

`CtrlRun`: weak fairness of `Run` and of `Serve`; both are goroutines that the Go scheduler runs on.  That an execution ends
is an assumption, since `runCommand` has no timeout.  `MockServer`: weak fairness of every handler, none of the
environment.  `Bridge`: of the control loop, the listener, the program (it makes its requests or gives up) and the server.
`Synthesis`: of the handler, which is one goroutine.  Its `Fairness` is the weak fairness of `Next` with ENABLED spelled
out (the run has no deadlock, so a step is possible unless the handler has ended): TLC's evaluation of ENABLED over the recursive
operators would otherwise take most of the run.

### Runs that expect a violation

Each quotes a comment or document of the repository that the code does not live up to.

| Run | Property | What happens |
|---|---|---|
| `ctrl_lost` | `NothingLost` | `map.go:56` starts a new inner map per position: merging a third map drops positions of the first two |
| `server_root_model` | `RootModelIsOwn` | the cache key leaves out the operation (`expander.go:456`, `property.go:54`) |
| `bridge_nil` | `NilIsAnError` | the program shows a property of an override that the API does not define, whose position is nil, and a leaf of another response that is vibrated: the comparison succeeds, and `Add` copies the base map and calls `String()` on the nil (`map.go:56`), which `AddLink` would have refused with an error (`map.go:89-92`) |
| `synthesis_lost` | `AnswersAreReadable` | a variant that derives from another one and appears below it inherits nothing (`expander.go:414` means to prevent this): its discriminator is missing from the answer and the request fails |

### Where the properties end

These configurations are not among the listed runs: each steps outside what a passing run assumes, and TLC answers
with a counterexample.  They mark the limits of the properties above.

| Configuration | Property | What happens |
|---|---|---|
| `CtrlTo.cfg` (`MCCtrlRun`) | `ToExclusive` | `main.go:25` "exclusively": the execution that opens the window runs even if `-to` names it |
| `ServerVersion.cfg` (`MCMockServer`) | `VersionModified` | `request_modify`'s version is written to a copy of the query (`server.go:250`, `README.md:203`) |
| `BridgeOverlap.cfg` (`MCBridge`) | `MappingSound` | parallel requests: a value twice, a record lost, a wrong mapping |
| `ServerLeftover.cfg` (`MCMockServer`) | `RecordsOfThisRun` | a straggler's record lands in the next run (`server.go:34`, `:40`) |
| `ServerLostSeq.cfg` (`MCMockServer`) | `SequenceIsComplete` | unsynchronised appends to `seqs` lose an invocation (`server.go:82-83`) |
| `BridgeDrift.cfg` (`MCBridge`) | `MappingSound` | `time.Now()` per run: a date that moved is mapped to the vibrated leaf |
| `BridgeConst.cfg` (`MCBridge`) | `MappingSound` | a boolean of the program's own is mapped to the only boolean of the API |
| `BridgeEntry.cfg` (`MCBridge`) | `LeafIsFound` | a leaf under an index is not found by its JSON pointer (`README.md:249`) |
| `BridgePoll.cfg` (`MCBridge`) | `SameButVibrated` | a retry in one run and a poll in the other give equal sequences |
| `BridgeTwice.cfg` (`MCBridge`) | `MappingSound` | one vibration hits two requests: the position is that of the later record, whichever answer the property shows |
| `BridgeShared.cfg` (`MCBridge`) | `MappingSound` | two requests answer with one schema: the second is mapped to the operation of the first (`expander.go:456`) |
| `SynthesisPanic.cfg` (`MCSynthesis`) | `HandlersComeThrough` | a map of what is cut everywhere (`synth.go:72`), an untyped map of itself (`synth.go:104`), an array without items (`expander.go:210`) |
| `SynthesisCircle.cfg` (`MCSynthesis`) | `Termination` | a model that derives from itself: `Get` has no visited set (`variant_map.go:31`) |

Limits that are written into the properties themselves: with two models under one discriminator value, which of them is
offered changes from request to request (`SameAgain` needs `ValuesDiffer`, and the file `twins` violates it without; the same is
why `GetIsComplete` speaks of values); a model in the middle of a hierarchy offers only what derives from it; and every
address below a polymorphic root prints as a pointer that starts with an empty step, and a name with a "/", a "~0" or a "~1" is
joined unescaped (`property_addr.go:106`) and becomes other tokens (`FindableExactly`).

The passing `bridge` run is about programs none of these happen to: serial requests, the program's own words differ from
every leaf, and time values are not shown.

## 4. What is proved

Every theorem holds for every value of the constants: any number of executions, requests, handlers, records, leaves and
definitions.  None of the properties below is inductive; what each module adds is the invariant that is.

### What the proofs assume

* The named assumptions of the modules, which TLC evaluates in every run.  Those that say something of the code:
  `MapsAssumption` (executions return maps without nil, which is what `AddLink` is for), `InstancesAssumption` (no leaf
  twice in an instance), `UserValuesAssumption` and `ProgramsAssumption` (a value carries its origin, so nobody
  writes down a generated one; a copy shows one leaf), `PositionAssumption` (each leaf of a response has a position or none).
* `SchemasAssumption`, `FilesAssumption`: the parts of a schema are schemas, a file has models, responses and operations, and the
  references in it are finitely many.  They are what the Go types and the decoder of specifications guarantee.  `TurnsAssumption` is
  about the bound `Turns`.
* `RefsToModels`, a hypothesis of the theorems about `ConcreteOnce` and `CutOnlyCycles`: a `$ref` of a schema leads to a model, one of a response
  to a response.  A schema inside a model counts as visited only if a `$ref` leads right there, so without it an inline
  schema can be expanded below itself once more.  TLC evaluates it for the files of `MCSynthesis` (`FilesReferToModels`).
* `BasesAreFew`, a hypothesis of `CutOnlyCyclesCorrect`: at every schema of the files, the bases of bases have come to an end after
  `Turns` steps.  Like `TurnsAssumption` it is about a bound of the model, not about the code: `Ancestry`, of which the property
  speaks, is the closure over `allOf`, computed in `Turns` steps, and schemas finite as they are have enough with some `Turns`.
  TLC evaluates it for every schema of the files of `MCSynthesis` (`FilesHaveFewBases`).
* `LastLetterAssumption` (26 letters at most, so that letters are bytes of their own) and `SummerAssumption` of `Rnd`: the hours of summer time can
  be any.  The local clock is one hour ahead in them, as nearly everywhere where there is summer time.
* `CharactersAssumption`, `TextsAssumption`: a text is a finite sequence of characters, among them the special ones; the
  end of a text is no character.  What is written is a text, what is printed an address.
* Hypotheses about the program, written into the theorems.  `~Overlap`: it waits for each answer.  `~Stragglers`: no
  handler outlives it.  `DistinctRequests`, `OwnWords`, `NoClock`, `VibratesOne`, `OwnSchemas` are explained below.  The
  repository promises none of them; they are the programs the bridge is right about, and for each there is a
  counterexample (section 3) without it.
* `BoundsSuffice` and `MapsSuffice`: `MaxRequests`, `MaxRuns` and `Maps` are bounds of the models, and must be large enough
  for what the executions do.  The code has no such bounds.  `RetriesOverlap`: a program that retries while a handler
  still works makes overlapping requests.

### The run

`CtrlRunProofs`: `TypeCorrect`, `WindowCorrect`, `ExitCorrect`, `ServerStopped`, `ResultsCorrect`, `KeysCorrect`, `ForwardOnly`.
`WindowExact` speaks of the executions behind `i`, so the invariant must say what `execState` knows of them: `before` means the
window has not opened by `i - 1`, `after` that it has closed by `i - 1` (`WindowState`).  `SwitchIsWindow` is the core: at
the top of the loop the switch lets through exactly the window.  `Places`, `Outcomes`, `Failures`, `Counted`, `Exits` and
`ServerState` tie the counters, the history, the exit status and the channel to the place of the loop.  `ResultsCorrect` and
`KeysCorrect` are second inductions on top, with one lemma for the step that merges a map and one for all the others.

### Maps and variants

* `CtrlRunProofs`, its first part: what `Add` keeps, when it is a union, and that mapping by value uses only values that one property and
  one leaf have.
* `ValueProofs`: `MapsCorrect`, by looking at one text at a time.
* `ExpanderProofs`: `MapIsTheHierarchy`, for any definitions and any order of the passes, without an assumption.  That
  the map holds nothing else is `OnlyBelow` (it lies in every closed set that has the roots), which each `Inherit` keeps.  That
  it holds everything is only known when a pass has added nothing: `VisitedAreIn` says that, as long as the flag is not set, no
  model already visited in this pass is left out, so the pass that leaves the loop has visited all of them.
  `AnswersAreComplete` (`GetIsComplete`) rests on `AnswerInv`: while `Get` descends, the models it has handed out and
  its work list together reach every variant below the base; when the list is empty, the answer is all of them.
  Both are first proved of the variant map on its own (`VariantSpec`).  In the expander one map follows the other, and a map that was kept
  is used again: `CacheInv` says that every kept map is `Finished` for the models of its file, so it is as good as one just built
  (`MapsInvariant`), hence `ExpansionMapsTheHierarchy` and `ExpansionGetsAllVariants`.

### The property tree

`ExpanderProofs`, for any files and operations.  The theorems are about `ExpanderSpec`, not about `Synthesis`, whose module has
recursive operators; `Synthesis` takes the steps of the expander as they are and leaves the tree alone afterwards.

* `ResolutionEnds`: following references ends.  Each turn that does not end it visits a reference not visited before
  (`FollowEnds`), and there are only `Targets`; so `Follow` has the result of the loop in `resolver.go`, and `Turns` cuts off nothing.
* `TreeCorrect` (`TreeOK`), from `TreeInv`: a level is of one depth (`LevelsFit`), and what `bases` and `children`
  collect belongs to a property that is still in the level (`ObjectFits`), so `Grow` never meets a path that is there already.
* `ConcreteOnceCorrect` (`ConcreteOnce`), from `DescentInv`.  That a reference is visited is known of models only, while the tree
  descends through parts of models as well.  So the invariant says where a property lies (`Placed`): what it carries as visited covers
  the models of all properties above it that are not polymorphic, and of those that are in its own model it is further inside
  than each.  A step of the expander goes deeper inside a model, or follows a reference to a model that
  is not visited, hence not above.  A variant starts from fewer visited references, without its base: that is the exception `ConcreteOnce` makes.
* `CutOnlyCyclesCorrect` (`CutOnlyCycles`), the converse of that: not too much is visited either.  `CutInv` compares references by the
  schema they lead to (`End`), because several lead to one.  What a property carries as visited leads to
  schemas that are being expanded above it, bases included (`VisitedAreAbove`), also for what is still collected in `children`;
  `SoFar` says of the object at hand which bases are `done`, that
  the properties of those are there or start over, and that all other bases wait or belong to something above.  When no base
  waits any more, `done` has everything the object inherits (`AncestryIsLeast`).  That a
  reference cut off leads where a visited one leads is `CutMeets`: two references on whose ways
  (`Way`) something is common lead to the same schema, and a way that only goes round leads nowhere.  A reference is
  normally followed from its own visited references, `End` from none, and the two need not stop in the same place; this lemma is the link.

### Generated values

`NoValueTwice` in `ValueProofs`: however often, in whatever order and for whatever formats the functions of a generator are called, two
values are equal only if both are times of day; if both are dates, the first in summer time and the second after its end; or if one is
a raw string and the other base64 (base64 of "rga" is "cmdh", which is a raw string as well).  Three things make this true:

* a raw string comes later than all before it, in the order by length and then by letters (`NextIsLater`; the carry of
  `updateRawString` is the point), and an order has no circles;
* base64 loses nothing: the number of characters that are not padding tells how many bytes there are (`EncodedLength`), and the
  sextets tell which (`EncodedOnce`), so two base64 values are equal only if the raw strings are;
* a date is made 24 hours after what the clock read before, which is another day unless the clock is put back in between (`DaysDiffer`).

What is left is a matter of shapes: `IntegerFormats` print one counter in different shapes, which never meet.  That they do not is an
abstraction of `Rnd`, see section 2.  It is why `MockServer` may have one counter for the generator, and the core of `GeneratedValuesDiffer`.

### Addresses

`PropertyAddrProofs`, for texts and addresses of any length over any characters: `AddrTypes`, `AddrRoundTrip` (`RoundTrip`) and
`WrittenAddrIsKept` (`WrittenIsKept`).  Induction over a text is out of the prover's reach, induction over the steps of the
parser is not, so the invariants say what of a text is behind the scanner:

* `WrittenInv`: what was read of a written text is the printed form (`Shown`) of the steps collected so far and of the one
  being read; only a brace that was opened and not closed makes the difference `WrittenIsKept` excepts.
* `PrintedInv`: when a printed address is read, the steps collected are those it was printed from with their braces turned
  (`NormStep`), and what was read since is a beginning of the printed form of the next one.  Which character comes next
  follows from `Growing`: the printed form of a text one character longer continues the shorter one.  So the parser gives
  back the address with its braces turned, or stops at the first step that prints as nothing; from that,
  the names `Kept` excludes are exactly those that are changed.

`FlattenSeq`, with which `String` and the escapes are written, is a `CHOOSE` over a recursive function; what it does at the
end of a sequence is a lemma, proved by the least sequence for which it would fail.

### The server

`MockServerProofs`, in three layers, each with weaker theorems for worse programs:

* Whatever overlaps and whoever is late: `TypeCorrect`, and `RootModelIsOwnUnlessShared`, which shows that a schema shared
  by two operations (`OwnSchemas` excludes it) is the only way to the violation `server_root_model` finds.  `TypeInv` says, per
  stage of a handler, which of its locals are set (`StageOK`); without it the functions the later stages read have no domain.
* Without stragglers, still overlapping: `RecordsAreOfThisRun` and `VibrationRecordCarries`.  A handler works in the
  run it arrived in (`RunInv`), so the vibration it read in `Patch` is the one it finds again in `Vibrate` (`VibrationInv`).
* One request at a time: `AnswersAreRecorded`, `VibrationRecordIsTheLast`, `RecordedValuesDiffer` and, if selectors fit,
  `SequenceExplainsValues`.  `SerialInv` says that one handler at most is busy, so what it has read from `records` or the
  generator is not stale when it writes (`AnswerInv`, `FreshInv`).  `FreshInv` tells the three moments of a generated value
  apart: before the bump the generator is what the handler has read, between bump and read its value is nobody's (`Free`), and
  then the handler owns it until it is recorded (`Own`), also if the request is refused in between.  For the sequence,
  `Account` is what the handler at work has taken and not yet put into `seqs`; a selector that fits no
  instance takes strings and leaves no entry, hence `SelectorsFit`.

`ExplainedInv`, a further invariant of this module, is about values and not their number: each body is a function of its
place in the sequence, the patch and the vibration (`Explains`).  It is what the proofs about `vibrate` need.

### The bridge

`BridgeProofs`: `TypeCorrect`, `ServerRefined` and `RunRefined`.  `IInv` is the conjunction of the server's `TypeInv`, `Places` (which
`stage` goes with which `pc`, `i` and `vi`), `ChildInv` (a slot the program waits for is busy, and without stragglers all
busy slots are waited for), `MapInv` (the map under construction has known positions only) and `Counts` (what the
runs so far have used of the bounds).  `ServerRefined` makes the theorems of `MockServerProofs` theorems of the bridge; that it
holds is not obvious, since `Environment` allows `InitVibration` only when no handler is left (`~Stragglers`), and in the
bridge it is the end of the program that must guarantee this.  `RunRefined` is the refinement of `CtrlRun` under the identity mapping: a
whole execution is one step of the run.

### What the bridge is for

`MappingProofs` puts all of it together, for programs that make one request at a time (`OneByOne`):

* `CopiesAreMapped` (`MappingComplete`): a property that alone shows a generated value is mapped.  `ProgramInv` says which
  handler serves which request, that every body the program holds has been recorded, and that no two of its
  leaves hold the same generated value, whatever was lost and asked for again.  So the value stands in one leaf of one record.
* `EqualSequencesAgree` (`SameButVibrated`): if the sequences of base and vibrated run are equal, so are the answers, but for
  the vibrated leaf and the clock.  `BodiesInv` and `BaseInv` say of both runs that the body of a request is the one its last entry in
  the sequence explains.  This needs `DistinctRequests`: a program that asks the same twice may hold the first or the second answer.
* `MapIsTrue` (`MappingSound`): each position in a map is that of a leaf the property was made from, if vibrate can tell
  (`Telling`): in addition no word of the program is a value of the API (`OwnWords`), it does not show the clock (`NoClock`), a
  vibration hits one of its requests (`VibratesOne`), and no schema is shared (`OwnSchemas`).  The proof follows `execute`: in the
  base run a value is mapped only if one leaf and one property have it; in a vibrated run a property that differs must
  have been made from the vibrated leaf, and `vibrationRecord` has the position of that leaf.  `SoundInv` says this of the
  map from `MapModels` to `Link`.

TLC agrees on all invariants here on the `bridge` run, and its nine executions satisfy `Telling`.  Writing the proofs corrected
the model in one place: `VibratedPosition` looks a leaf up only if the record has a position for it, as the map access in
the code does; no earlier run had met a record without it.

### Only model-checked

* Liveness (`Termination`, `RequestsEnd`): not within reach of the prover.  That `Bridge` implements the fairness of
  `CtrlRun` is not claimed; `RefinesRun` is about its safety part.
* The bodies (`InstancesMeetAllChoices`, `PositionsAreOrigins`, `GeneratedValuesDiffer`, `FindableExactly`, `HandlersComeThrough`,
  `SameAgain`, `AnswersAreReadable`): `Synthesis` computes instances and bodies by recursion over trees, with recursive operators
  the provers do not read, and these properties would need induction over data.

## 5. What is not modelled, and the plan

Not modelled, and why:

* `NewCtrl`, `validateExecSpec`, `config.go`: HCL is decoded by a library, and the rules are conditions on single blocks without
  state.  The models take any configuration; executions may share a label, which the rules do not exclude across names.
* The expander cache as a Go map under concurrent access: the runtime may abort the process, or not; the model takes an
  access as one step.  What is cached, when, and under which key is in `MockServer`.
* `request_descriptor.go` but for what it changes in a request: string operations on paths.
* `root_model`, file positions and relative links in the output: layout.
* `log/log.go`, flags, HTTP, the file system: I/O and libraries.  The token of `handleToken` is a constant.

What is left to prove: the synthesizer, whose recursion over trees is out of the prover's reach as it stands.
