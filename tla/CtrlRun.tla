-------------------------------- MODULE CtrlRun --------------------------------
(***************************************************************************)
(* Ctrl.Run (ctrl/ctrl.go): the loop over the executions of the             *)
(* configuration, the result map it builds, and the start and stop of the   *)
(* mock server around it (mockserver/server.go Start and Stop).             *)
(*                                                                          *)
(* What one execution does is left open here: ctrl.execute returns a        *)
(* ModelMap, returns an error or panics.  Bridge opens it.                  *)
(***************************************************************************)
EXTENDS ModelMap

CONSTANTS
  N,         \* number of executions of the configuration
  Label,     \* Label[j]: execution j in the form `name.type`
  NameOf,    \* NameOf[j]: its name, the key of the result
  Unset,     \* an option that was not given
  Options,   \* the command lines and skip marks to consider
  Maps       \* the model maps an execution may return

Execs == 1..N
Names == {NameOf[j] : j \in Execs}

ASSUME NAssumption == N \in Nat
ASSUME OptionsAssumption ==
  \A o \in Options : /\ o.keep \in BOOLEAN
                     /\ o.skip \subseteq Execs
ASSUME MapsAssumption == \A m \in Maps : IsLinkedMap(m)

VARIABLES
  opt,        \* from, to: -from and -to; keep: -k; skip: executions marked skip
  pc,         \* where Run is
  i,          \* the execution the loop is at
  execState,  \* before, running or after the window of -from and -to
  succeed, fail, skipped,   \* execSucceed, execFail, execSkip
  results,    \* name -> ModelMap
  lis,        \* the goroutine of Start that serves HTTP
  shut,       \* Shutdown was called on the http.Server
  printed,    \* WriteResult has printed the results
  exit,       \* exit status of the process, -1 while it runs
  outcome,    \* history: what became of each execution
  got         \* history: the map each successful execution returned

vars == <<opt, pc, i, execState, succeed, fail, skipped, results, lis, shut,
          printed, exit, outcome, got>>

loopVars == <<i, execState, succeed, fail, skipped, results, outcome, got>>
srvVars == <<lis, shut>>

(* A panic in the main goroutine ends the process with status 2. *)
Panicked == 2
Listener == {"off", "starting", "listening", "returned", "closed"}

Init ==
  /\ opt \in Options
  /\ pc = "start"
  /\ i = 1
  /\ execState = "before"
  /\ succeed = 0 /\ fail = 0 /\ skipped = 0
  /\ results = [n \in {} |-> EmptyMap]
  /\ lis = "off" /\ shut = FALSE
  /\ printed = FALSE
  /\ exit = -1
  /\ outcome = [j \in Execs |-> "none"]
  /\ got = [j \in Execs |-> EmptyMap]

-------------------------------------------------------------------------------
(* Start launches the goroutine that binds and serves, and never fails.     *)
Start ==
  /\ pc = "start"
  /\ pc' = "loop"
  /\ lis' = "starting"
  /\ UNCHANGED <<opt, loopVars, shut, printed, exit>>

(* Variant: a failed bind returns without closing the channel.              *)
BindLeavesChannel ==
  /\ lis = "starting" /\ ~shut /\ exit = -1
  /\ lis' \in {"listening", "off"}
  /\ UNCHANGED <<opt, pc, loopVars, shut, printed, exit>>

(* The goroutine.  ListenAndServe returns at once when Shutdown came first. *)
Bind ==
  /\ lis = "starting" /\ ~shut /\ exit = -1
  /\ lis' \in {"listening", "returned"}
  /\ UNCHANGED <<opt, pc, loopVars, shut, printed, exit>>

ServeReturns ==
  /\ lis \in {"starting", "listening"} /\ shut /\ exit = -1
  /\ lis' = "returned"
  /\ UNCHANGED <<opt, pc, loopVars, shut, printed, exit>>

CloseChannel ==
  /\ lis = "returned" /\ exit = -1
  /\ lis' = "closed"
  /\ UNCHANGED <<opt, pc, loopVars, shut, printed, exit>>

-------------------------------------------------------------------------------
(* One turn of the loop: the switch over execState, then the skip mark.     *)
Opens == execState = "before" /\ (opt.from = Unset \/ opt.from = Label[i])
(* Variant: -to is looked for before the window has opened, too.            *)
ClosesAnywhere == opt.to # Unset /\ opt.to = Label[i]

Closes == execState = "running" /\ opt.to # Unset /\ opt.to = Label[i]
Passes == Opens \/ (execState = "running" /\ ~Closes)

(* Variant: -to puts the loop back to where it waits for -from.             *)
SkipByWindowReopens ==
  /\ pc = "loop" /\ i \in Execs
  /\ ~Passes
  /\ execState' = IF Closes THEN "before" ELSE execState
  /\ skipped' = skipped + 1
  /\ i' = i + 1
  /\ UNCHANGED <<opt, pc, succeed, fail, results, outcome, got, srvVars,
                 printed, exit>>

SkipByWindow ==
  /\ pc = "loop" /\ i \in Execs
  /\ ~Passes
  /\ execState' = IF Closes THEN "after" ELSE execState
  /\ skipped' = skipped + 1
  /\ i' = i + 1
  /\ UNCHANGED <<opt, pc, succeed, fail, results, outcome, got, srvVars,
                 printed, exit>>

SkipMarked ==
  /\ pc = "loop" /\ i \in Execs
  /\ Passes /\ i \in opt.skip
  /\ execState' = "running"
  /\ skipped' = skipped + 1
  /\ i' = i + 1
  /\ UNCHANGED <<opt, pc, succeed, fail, results, outcome, got, srvVars,
                 printed, exit>>

Launch ==
  /\ pc = "loop" /\ i \in Execs
  /\ Passes /\ i \notin opt.skip
  /\ execState' = "running"
  /\ pc' = "exec"
  /\ UNCHANGED <<opt, i, succeed, fail, skipped, results, outcome, got,
                 srvVars, printed, exit>>

(* Variant: the newest map replaces the ones before it.                     *)
EarlierNone(n) == EmptyMap

(* execute returned the map m, which is added to the ones of that name.     *)
Earlier(n) == IF n \in DOMAIN results THEN results[n] ELSE EmptyMap

Succeed(m) ==
  /\ pc = "exec"
  /\ succeed' = succeed + 1
  /\ \E r \in AddOutcomes(Earlier(NameOf[i]), m) :
       results' = [n \in DOMAIN results \cup {NameOf[i]} |->
                     IF n = NameOf[i] THEN r ELSE results[n]]
  /\ outcome' = [outcome EXCEPT ![i] = "ok"]
  /\ got' = [got EXCEPT ![i] = m]
  /\ pc' = "loop"
  /\ i' = i + 1
  /\ UNCHANGED <<opt, execState, fail, skipped, srvVars, printed, exit>>

(* execute returned an error: -k goes on, otherwise Run returns it and main *)
(* exits with the server still up.                                          *)
Fail ==
  /\ pc = "exec"
  /\ fail' = fail + 1
  /\ outcome' = [outcome EXCEPT ![i] = "failed"]
  /\ IF opt.keep
       THEN pc' = "loop" /\ i' = i + 1 /\ exit' = exit
       ELSE pc' = "exit" /\ i' = i /\ exit' = 1
  /\ UNCHANGED <<opt, execState, succeed, skipped, results, got, srvVars,
                 printed>>

Crash ==
  /\ pc = "exec"
  /\ pc' = "exit"
  /\ exit' = Panicked
  /\ UNCHANGED <<opt, loopVars, srvVars, printed>>

-------------------------------------------------------------------------------
WriteResult ==
  /\ pc = "loop" /\ i > N
  /\ printed' = TRUE
  /\ pc' = "shutdown"
  /\ UNCHANGED <<opt, loopVars, srvVars, exit>>

(* Stop: Shutdown, then wait for the goroutine to close the channel.        *)
Shutdown ==
  /\ pc = "shutdown"
  /\ shut' = TRUE
  /\ pc' = "await"
  /\ UNCHANGED <<opt, loopVars, lis, printed, exit>>

(* Variants: failures are only logged; the channel is not waited for.       *)
FinishQuietly ==
  /\ pc = "await" /\ lis = "closed"
  /\ exit' = 0
  /\ pc' = "exit"
  /\ UNCHANGED <<opt, loopVars, srvVars, printed>>

FinishAtOnce ==
  /\ pc = "await"
  /\ exit' = IF fail > 0 THEN 1 ELSE 0
  /\ pc' = "exit"
  /\ UNCHANGED <<opt, loopVars, srvVars, printed>>

Finish ==
  /\ pc = "await" /\ lis = "closed"
  /\ exit' = IF fail > 0 THEN 1 ELSE 0
  /\ pc' = "exit"
  /\ UNCHANGED <<opt, loopVars, srvVars, printed>>

Run ==
  \/ Start \/ SkipByWindow \/ SkipMarked \/ Launch
  \/ (\E m \in Maps : Succeed(m)) \/ Fail \/ Crash
  \/ WriteResult \/ Shutdown \/ Finish

Serve == Bind \/ ServeReturns \/ CloseChannel

Next == Run \/ Serve

SafetySpec == Init /\ [][Next]_vars

(* Run and the goroutine of Start are scheduled; that an execution ends is  *)
(* an assumption on the external program, runCommand waits for it for ever. *)
Spec == SafetySpec /\ WF_vars(Run) /\ WF_vars(Serve)

-------------------------------------------------------------------------------
(* Properties.                                                              *)

(* Types, and the counters: every execution the loop has left behind was    *)
(* counted once.                                                            *)
TypeOK ==
  /\ opt \in Options
  /\ pc \in {"start", "loop", "exec", "shutdown", "await", "exit"}
  /\ i \in 1..(N + 1)
  /\ execState \in {"before", "running", "after"}
  /\ succeed \in Nat /\ fail \in Nat /\ skipped \in Nat
  /\ DOMAIN results \subseteq Names
  /\ \A n \in DOMAIN results : IsLinkedMap(results[n])
  /\ lis \in Listener /\ shut \in BOOLEAN
  /\ printed \in BOOLEAN
  /\ exit \in {-1, 0, 1, Panicked}
  /\ outcome \in [Execs -> {"none", "ok", "failed"}]
  /\ DOMAIN got = Execs /\ \A j \in Execs : IsLinkedMap(got[j])

(* The window, without the state machine: -from opens it at its label (or   *)
(* at once), and -to closes it at its label, looked for only among the      *)
(* executions after the one that opened it.  So the execution that opens    *)
(* the window is in it even if -to names it too, although -to is said to be *)
(* exclusive (main.go:25): ToExclusive is what the option promises.         *)
StartedBy(j) == opt.from = Unset \/ \E h \in 1..j : Label[h] = opt.from
EndedBy(j) ==
  /\ opt.to # Unset
  /\ \E h \in 2..j : Label[h] = opt.to /\ StartedBy(h - 1)
Wanted(j) == StartedBy(j) /\ ~EndedBy(j) /\ j \notin opt.skip

(* What has been executed so far is exactly what is in the window and not   *)
(* marked as skipped: the executions from the first that -from names up to, *)
(* and without, the next one after it that -to names.  None of them is      *)
(* passed over and no other is run (ctrl.go:173-194).  That the window      *)
(* takes in the one that opens it, whatever -to says, is part of this.      *)
WindowExact ==
  \A j \in Execs :
    /\ (pc = "exec" /\ j = i) => Wanted(j)
    /\ j < i => (outcome[j] # "none" <=> Wanted(j))
    /\ j > i => outcome[j] = "none"

(* The exit status tells what happened.  0: every wanted execution          *)
(* succeeded and its results were printed.  1: some execution failed, and   *)
(* the results were printed only with -k.  Only a panic gives 2.            *)
ExitTellsTruth ==
  /\ exit = 0 => /\ printed
                 /\ \A j \in Execs : Wanted(j) => outcome[j] = "ok"
  /\ exit = 1 => /\ \E j \in Execs : outcome[j] = "failed"
                 /\ printed <=> opt.keep
  /\ exit = Panicked => ~printed
  /\ exit \in {0, 1} => succeed + fail + skipped = IF printed THEN N ELSE i

(* The printed map has a key for every name with a successful execution and *)
(* no other; each of its positions was returned by a successful execution   *)
(* of that name, for that property; and of the latest one nothing is lost.  *)
LatestOK(n, j) ==
  /\ NameOf[j] = n /\ outcome[j] = "ok"
  /\ \A h \in Execs : NameOf[h] = n /\ outcome[h] = "ok" => h <= j

ResultsFromSuccesses ==
  /\ DOMAIN results = {NameOf[j] : j \in {h \in Execs : outcome[h] = "ok"}}
  /\ \A n \in DOMAIN results : \A a \in DOMAIN results[n] : \A p \in results[n][a] :
       \E j \in Execs : /\ NameOf[j] = n /\ outcome[j] = "ok"
                        /\ p \in PositionsAt(got[j], a)
  /\ \A j \in Execs : \A n \in DOMAIN results : LatestOK(n, j) =>
       \A a \in DOMAIN got[j] : got[j][a] \subseteq PositionsAt(results[n], a)

(* No property of the application model that some execution mapped is ever  *)
(* left without a position: Add may drop positions, never a key.            *)
KeysNeverLost ==
  \A j \in Execs : outcome[j] = "ok" =>
    /\ NameOf[j] \in DOMAIN results
    /\ DOMAIN got[j] \subseteq DOMAIN results[NameOf[j]]

(* A run that reaches the end of the loop leaves no server behind: the      *)
(* goroutine has returned and the channel is closed before the process      *)
(* exits.  (The two early returns, an error without -k and a panic, do not  *)
(* stop the server.)                                                        *)
CleanExitStopsServer == exit # -1 /\ printed => lis = "closed" /\ shut

(* Results are printed once, after the loop, and are final: no step changes *)
(* them afterwards, and the window never moves backwards.                   *)
Stage(s) == CASE s = "before" -> 0 [] s = "running" -> 1 [] s = "after" -> 2
OnlyForward ==
  [][ /\ printed => printed' /\ UNCHANGED <<results, outcome>>
      /\ Stage(execState) <= Stage(execState')
      /\ i' \in {i, i + 1} ]_vars

(* Run ends: also with a port that cannot be bound, and when Shutdown comes *)
(* before the goroutine of Start has bound it.                              *)
Termination == <>(pc = "exit")

(* main.go:25 says of -to: until the specified one, exclusively.            *)
ToExclusive == \A j \in Execs : outcome[j] # "none" => Label[j] # opt.to

(* ModelMap (map.go:48-50) maps one property to multiple positions, the     *)
(* result of merging maps: every position a success found would be there.   *)
NothingLost ==
  \A j \in Execs : outcome[j] = "ok" =>
    \A a \in DOMAIN got[j] :
      got[j][a] \subseteq PositionsAt(Earlier(NameOf[j]), a)
===============================================================================
