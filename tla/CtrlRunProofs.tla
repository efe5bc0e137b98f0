----------------------------- MODULE CtrlRunProofs -----------------------------
(***************************************************************************)
(* Proofs about CtrlRun, for any number of executions, any labels, options  *)
(* and maps.  IInv strengthens the properties to an inductive invariant:    *)
(* it says how execState, i and the counters stand to each other at each    *)
(* place of the loop.  The theorems about the maps it records come first.   *)
(***************************************************************************)
EXTENDS CtrlRun, TLAPS

(***************************************************************************)
(* What the operators of ModelMap return, for any maps and positions.       *)
(***************************************************************************)

LEMMA EmptyIsLinked == IsLinkedMap(EmptyMap) /\ DOMAIN EmptyMap = {}
  BY DEF IsLinkedMap, EmptyMap

(* Add, for any two maps without nil: the keys of both are there, the       *)
(* argument keeps all its positions, nothing comes from elsewhere, and the  *)
(* receiver keeps a position for each of its keys.                          *)
THEOREM AddKeepsKeysAndNewest ==
  ASSUME NEW mm, NEW omm, IsLinkedMap(mm), IsLinkedMap(omm),
         NEW r \in AddOutcomes(mm, omm)
  PROVE  /\ IsLinkedMap(r)
         /\ DOMAIN r = DOMAIN mm \cup DOMAIN omm
         /\ \A a \in DOMAIN r : r[a] \subseteq PositionsAt(mm, a) \cup PositionsAt(omm, a)
         /\ \A a \in DOMAIN omm : omm[a] \subseteq r[a]
         /\ \A a \in DOMAIN mm : mm[a] \cap r[a] # {}
<1>1. PICK s \in Survivors(mm) : r = Added(s, mm, omm)
  BY DEF AddOutcomes
<1>2. DOMAIN r = DOMAIN mm \cup DOMAIN omm
  BY <1>1 DEF Added
<1>3. \A a \in DOMAIN r :
        r[a] = (IF a \in DOMAIN mm THEN {s[a]} ELSE {}) \cup PositionsAt(omm, a)
  BY <1>1 DEF Added
<1>4. \A a \in DOMAIN mm : s[a] \in mm[a]
  BY DEF Survivors, Lasts
<1>5. IsLinkedMap(r)
  BY <1>2, <1>3, <1>4 DEF IsLinkedMap, PositionsAt
<1>6. \A a \in DOMAIN r : r[a] \subseteq PositionsAt(mm, a) \cup PositionsAt(omm, a)
  BY <1>3, <1>4 DEF PositionsAt
<1>7. \A a \in DOMAIN omm : omm[a] \subseteq r[a]
  BY <1>2, <1>3 DEF PositionsAt
<1>8. \A a \in DOMAIN mm : mm[a] \cap r[a] # {}
  BY <1>2, <1>3, <1>4
<1> QED
  BY <1>2, <1>5, <1>6, <1>7, <1>8

(* A receiver with one position per property, as the maps before their      *)
(* first Add have, loses nothing: Add is then the union of the two maps.    *)
THEOREM AddIsUnionOfSingles ==
  ASSUME NEW mm, NEW omm,
         \A a \in DOMAIN mm : \E p \in Pos : mm[a] = {p},
         NEW r \in AddOutcomes(mm, omm), NEW a \in DOMAIN mm \cup DOMAIN omm
  PROVE  r[a] = PositionsAt(mm, a) \cup PositionsAt(omm, a)
<1>1. PICK s \in Survivors(mm) : r = Added(s, mm, omm)
  BY DEF AddOutcomes
<1>2. a \in DOMAIN mm => mm[a] = {s[a]}
  BY DEF Survivors, Lasts
<1>3. r[a] = (IF a \in DOMAIN mm THEN {s[a]} ELSE {}) \cup PositionsAt(omm, a)
  BY <1>1 DEF Added
<1> QED
  BY <1>2, <1>3 DEF PositionsAt

(* A mapped property of the application model has a value that no other     *)
(* property has, and its position is that of the one leaf of the recorded   *)
(* responses with this value.                                               *)
THEOREM MappedByUniqueValue ==
  ASSUME NEW app, NEW val, NEW pos,
         NEW a \in DOMAIN MapSingleAppModel(app, val, pos)
  PROVE  /\ \A b \in DOMAIN app : app[b] = app[a] => b = a
         /\ \E o \in DOMAIN val :
              /\ val[o] = app[a]
              /\ \A q \in DOMAIN val : val[q] = app[a] => q = o
              /\ MapSingleAppModel(app, val, pos)[a] = pos[o]
<1> DEFINE Leaves(b) == {o \in Unambiguous(val) : val[o] = app[b]}
           chosen == CHOOSE o \in Leaves(a) : TRUE
<1>1. a \in Unambiguous(app) /\ Leaves(a) # {}
  BY DEF MapSingleAppModel
<1>2. chosen \in Leaves(a)
  BY <1>1
<1>3. MapSingleAppModel(app, val, pos)[a] = pos[chosen]
  BY DEF MapSingleAppModel
<1>4. \A b \in DOMAIN app : app[b] = app[a] => b = a
  BY <1>1 DEF Unambiguous
<1>5. /\ chosen \in DOMAIN val
      /\ val[chosen] = app[a]
      /\ \A q \in DOMAIN val : val[q] = app[a] => q = chosen
  BY <1>2 DEF Unambiguous
<1> QED
  BY <1>3, <1>4, <1>5

(***************************************************************************)
(* The control loop.                                                        *)
(***************************************************************************)

Looping == pc \in {"start", "loop"}
Printing == pc \in {"shutdown", "await"}

(* An execution is under way only for an index of the list, and the results *)
(* are printed only when the list is done.                                  *)
Places ==
  /\ pc = "exec" => i \in Execs
  /\ Printing => printed
  /\ printed => i = N + 1 /\ pc \notin {"start", "loop", "exec"}
  /\ exit = -1 <=> pc # "exit"

(* What execState says of the executions before i, and during i.            *)
WindowState ==
  /\ Looping =>
       /\ execState = "before" <=> i = 1 \/ ~StartedBy(i - 1)
       /\ execState = "after" <=> i > 1 /\ EndedBy(i - 1)
  /\ pc = "exec" => execState = "running" /\ Wanted(i)

Outcomes ==
  /\ \A j \in Execs : j < i => (outcome[j] # "none" <=> Wanted(j))
  /\ \A j \in Execs : j > i => outcome[j] = "none"
  /\ Looping \/ pc = "exec" => (i \in Execs => outcome[i] = "none")

Failures ==
  /\ fail > 0 <=> \E j \in Execs : outcome[j] = "failed"
  /\ fail > 0 /\ pc # "exit" => opt.keep

Counted ==
  /\ pc # "exit" \/ printed => succeed + fail + skipped = i - 1
  /\ pc = "exit" /\ ~printed /\ exit = 1 => succeed + fail + skipped = i

Exits ==
  /\ exit = 0 => printed /\ fail = 0
  /\ exit = 1 => fail > 0 /\ (printed <=> opt.keep)
  /\ exit = Panicked => ~printed

ServerState ==
  /\ pc = "await" => shut
  /\ exit # -1 /\ printed => lis = "closed" /\ shut

IInv ==
  TypeOK /\ Places /\ WindowState /\ Outcomes /\ Failures /\ Counted /\ Exits /\ ServerState

-------------------------------------------------------------------------------
(* Initial states.                                                          *)
LEMMA InitIInv == Init => IInv
<1> SUFFICES ASSUME Init PROVE IInv
  OBVIOUS
<1> USE NAssumption, OptionsAssumption
<1>1. TypeOK
  <2>1. 1 \in 1..(N + 1)
    OBVIOUS
  <2>2. results = [n \in {} |-> EmptyMap] => DOMAIN results = {}
    OBVIOUS
  <2>3. \A j \in Execs : got[j] = EmptyMap
    BY DEF Init
  <2>4. outcome \in [Execs -> {"none", "ok", "failed"}]
    BY DEF Init
  <2>5. DOMAIN got = Execs
    BY DEF Init
  <2>6. \A j \in Execs : IsLinkedMap(got[j])
    BY <2>3, EmptyIsLinked
  <2> QED
    BY <2>1, <2>2, <2>4, <2>5, <2>6 DEF Init, TypeOK, Listener, Panicked
<1>2. Places /\ WindowState /\ Exits /\ ServerState /\ Counted
  BY DEF Init, Places, WindowState, Exits, ServerState, Counted, Looping, Printing,
         Panicked, Execs
<1>3. Outcomes /\ Failures
  BY DEF Init, Outcomes, Failures, Looping, Execs
<1> QED
  BY <1>1, <1>2, <1>3 DEF IInv

(* The new results of a successful execution.                               *)
LEMMA SucceedResults ==
  ASSUME TypeOK, Places, NEW m \in Maps, Succeed(m)
  PROVE  /\ i \in Execs
         /\ DOMAIN results' = DOMAIN results \cup {NameOf[i]}
         /\ \A n \in DOMAIN results' : IsLinkedMap(results'[n])
         /\ \A n \in DOMAIN results : n # NameOf[i] => results'[n] = results[n]
         /\ results'[NameOf[i]] \in AddOutcomes(Earlier(NameOf[i]), m)
         /\ IsLinkedMap(Earlier(NameOf[i]))
<1>1. i \in Execs
  BY DEF Succeed, Places
<1>2. PICK r \in AddOutcomes(Earlier(NameOf[i]), m) :
        results' = [n \in DOMAIN results \cup {NameOf[i]} |->
                      IF n = NameOf[i] THEN r ELSE results[n]]
  BY DEF Succeed
<1>3. IsLinkedMap(Earlier(NameOf[i]))
  BY EmptyIsLinked DEF Earlier, TypeOK
<1>4. IsLinkedMap(m)
  BY MapsAssumption
<1>5. IsLinkedMap(r)
  BY <1>3, <1>4, AddKeepsKeysAndNewest
<1>6. \A n \in DOMAIN results' : IsLinkedMap(results'[n])
  BY <1>2, <1>5 DEF TypeOK
<1> QED
  BY <1>1, <1>2, <1>3, <1>6

LEMMA NextTypeOK == TypeOK /\ Places /\ [Next]_vars => TypeOK'
<1> SUFFICES ASSUME TypeOK, Places, [Next]_vars PROVE TypeOK'
  OBVIOUS
<1> USE NAssumption, OptionsAssumption DEF TypeOK, Execs, Listener, Panicked
<1>1. CASE Start
  BY <1>1 DEF Start, loopVars
<1>2. CASE SkipByWindow
  BY <1>2 DEF SkipByWindow, srvVars
<1>3. CASE SkipMarked
  BY <1>3 DEF SkipMarked, srvVars
<1>4. CASE Launch
  BY <1>4 DEF Launch, srvVars
<1>5. ASSUME NEW m \in Maps, Succeed(m) PROVE TypeOK'
  <2>1. i \in Execs
    BY <1>5 DEF Succeed, Places
  <2>5. i' \in 1..(N + 1) /\ succeed' \in Nat
    BY <1>5, <2>1 DEF Succeed
  <2>2. DOMAIN results' \subseteq Names /\ \A n \in DOMAIN results' : IsLinkedMap(results'[n])
    BY <1>5, SucceedResults DEF Names
  <2>3. outcome' \in [Execs -> {"none", "ok", "failed"}]
    BY <1>5, <2>1 DEF Succeed
  <2>4. DOMAIN got' = Execs /\ \A j \in Execs : IsLinkedMap(got'[j])
    <3>1. IsLinkedMap(m)
      BY MapsAssumption
    <3>2. \A j \in Execs : got'[j] = m \/ got'[j] = got[j]
      BY <1>5, <2>1 DEF Succeed
    <3>3. DOMAIN got' = Execs
      BY <1>5 DEF Succeed
    <3> QED
      BY <3>1, <3>2, <3>3
  <2> QED
    BY <1>5, <2>2, <2>3, <2>4, <2>5 DEF Succeed, srvVars
<1>6. CASE Fail
  <2>1. i \in Execs
    BY <1>6 DEF Fail, Places
  <2> QED
    BY <1>6, <2>1 DEF Fail, srvVars
<1>7. CASE Crash
  BY <1>7 DEF Crash, loopVars, srvVars
<1>8. CASE WriteResult
  BY <1>8 DEF WriteResult, loopVars, srvVars
<1>9. CASE Shutdown
  BY <1>9 DEF Shutdown, loopVars
<1>10. CASE Finish
  BY <1>10 DEF Finish, loopVars, srvVars
<1>11. CASE Serve
  BY <1>11 DEF Serve, Bind, ServeReturns, CloseChannel, loopVars
<1>12. CASE UNCHANGED vars
  BY <1>12 DEF vars
<1> QED
  BY <1>1, <1>2, <1>3, <1>4, <1>5, <1>6, <1>7, <1>8, <1>9, <1>10, <1>11, <1>12
     DEF Next, Run

-------------------------------------------------------------------------------
(* The options never change, so neither does the window.                    *)
LEMMA OptionsConstant == [Next]_vars => opt' = opt
  BY DEF Next, Run, Serve, Start, SkipByWindow, SkipMarked, Launch, Succeed, Fail, Crash,
         WriteResult, Shutdown, Finish, Bind, ServeReturns, CloseChannel, vars

LEMMA WindowConstant ==
  ASSUME [Next]_vars, NEW j
  PROVE  /\ StartedBy(j)' = StartedBy(j)
         /\ EndedBy(j)' = EndedBy(j)
         /\ Wanted(j)' = Wanted(j)
  BY OptionsConstant DEF Wanted, StartedBy, EndedBy

LEMMA NextPlaces == TypeOK /\ Places /\ [Next]_vars => Places'
<1> SUFFICES ASSUME TypeOK, Places, [Next]_vars PROVE Places'
  OBVIOUS
<1> USE NAssumption DEF TypeOK, Places, Printing, Execs, Panicked
<1>1. CASE Run
  BY <1>1 DEF Run, Start, SkipByWindow, SkipMarked, Launch, Succeed, Fail, Crash,
              WriteResult, Shutdown, Finish, loopVars
<1>2. CASE Serve
  BY <1>2 DEF Serve, Bind, ServeReturns, CloseChannel, loopVars
<1>3. CASE UNCHANGED vars
  BY <1>3 DEF vars
<1> QED
  BY <1>1, <1>2, <1>3 DEF Next

(* One execution further: the window opens at its label, and closes at its  *)
(* label if it was open before.                                             *)
LEMMA StartedStep ==
  ASSUME NEW j \in Nat, j >= 1
  PROVE  StartedBy(j) <=> StartedBy(j - 1) \/ Label[j] = opt.from
<1>1. 1..j = 1..(j - 1) \cup {j}
  OBVIOUS
<1> QED
  BY <1>1 DEF StartedBy

LEMMA EndedStep ==
  ASSUME NEW j \in Nat, j >= 2
  PROVE  EndedBy(j) <=>
           EndedBy(j - 1) \/ (opt.to # Unset /\ Label[j] = opt.to /\ StartedBy(j - 1))
<1>1. 2..j = 2..(j - 1) \cup {j}
  OBVIOUS
<1> QED
  BY <1>1 DEF EndedBy

LEMMA EndedAfterStarted ==
  ASSUME NEW j \in Nat, EndedBy(j)
  PROVE  j >= 2 /\ StartedBy(j - 1)
<1>1. PICK h \in 2..j : StartedBy(h - 1)
  BY DEF EndedBy
<1>2. 1..(h - 1) \subseteq 1..(j - 1) /\ j >= 2
  OBVIOUS
<1> QED
  BY <1>1, <1>2 DEF StartedBy

(* At the top of the loop, the switch lets exactly the window through.      *)
LEMMA SwitchIsWindow ==
  ASSUME TypeOK, WindowState, pc = "loop", i \in Execs
  PROVE  /\ Passes <=> StartedBy(i) /\ ~EndedBy(i)
         /\ execState = "before" /\ ~Passes => ~StartedBy(i)
         /\ execState # "before" => StartedBy(i)
         /\ EndedBy(i) => StartedBy(i)
         /\ Closes \/ execState = "after" => EndedBy(i)
         /\ execState = "running" /\ ~Closes => ~EndedBy(i)
<1> USE NAssumption DEF TypeOK, Execs
<1>1. /\ execState = "before" <=> i = 1 \/ ~StartedBy(i - 1)
      /\ execState = "after" <=> i > 1 /\ EndedBy(i - 1)
  BY DEF WindowState, Looping
<1>2. i \in Nat /\ i >= 1
  OBVIOUS
<1>3. StartedBy(i) <=> StartedBy(i - 1) \/ Label[i] = opt.from
  BY <1>2, StartedStep
<1>4. i >= 2 =>
        (EndedBy(i) <=>
           EndedBy(i - 1) \/ (opt.to # Unset /\ Label[i] = opt.to /\ StartedBy(i - 1)))
  BY <1>2, EndedStep
<1>5. EndedBy(i) => i >= 2 /\ StartedBy(i - 1)
  BY <1>2, EndedAfterStarted
<1>6. opt.from = Unset => StartedBy(i - 1) /\ StartedBy(i)
  BY DEF StartedBy
<1>7. i = 1 => (StartedBy(i - 1) <=> opt.from = Unset)
  BY DEF StartedBy
<1>8. CASE execState = "before"
  <2>1. ~EndedBy(i)
    BY <1>1, <1>5, <1>8
  <2>2. Passes <=> opt.from = Unset \/ opt.from = Label[i]
    BY <1>8 DEF Passes, Opens, Closes
  <2>3. StartedBy(i) <=> opt.from = Unset \/ opt.from = Label[i]
    BY <1>1, <1>3, <1>6, <1>7, <1>8
  <2> QED
    BY <1>8, <2>1, <2>2, <2>3 DEF Closes
<1>9. CASE execState = "running"
  <2>1. i >= 2 /\ StartedBy(i - 1) /\ ~EndedBy(i - 1)
    BY <1>1, <1>2, <1>9
  <2>2. Passes <=> ~Closes
    BY <1>9 DEF Passes, Opens
  <2>3. Closes <=> EndedBy(i)
    BY <1>4, <1>9, <2>1 DEF Closes
  <2> QED
    BY <1>3, <1>9, <2>1, <2>2, <2>3
<1>10. CASE execState = "after"
  <2>1. EndedBy(i)
    BY <1>1, <1>2, <1>4, <1>10
  <2> QED
    BY <1>3, <1>5, <1>10, <2>1 DEF Passes, Opens, Closes
<1> QED
  BY <1>8, <1>9, <1>10

LEMMA NextWindow == TypeOK /\ Places /\ WindowState /\ [Next]_vars => WindowState'
<1> SUFFICES ASSUME TypeOK, Places, WindowState, [Next]_vars PROVE WindowState'
  OBVIOUS
<1> USE NAssumption DEF TypeOK, Execs, Looping
<1>1. \A j : /\ StartedBy(j)' = StartedBy(j)
             /\ EndedBy(j)' = EndedBy(j)
             /\ Wanted(j)' = Wanted(j)
  BY WindowConstant
<1>2. CASE SkipByWindow
  <2>1. pc = "loop" /\ i \in Execs /\ ~Passes
    BY <1>2 DEF SkipByWindow
  <2>2. pc' = "loop" /\ i' = i + 1 /\ execState' = IF Closes THEN "after" ELSE execState
    BY <1>2 DEF SkipByWindow
  <2>3. execState' = "before" <=> ~StartedBy(i)
    BY <2>1, <2>2, SwitchIsWindow DEF Closes, Passes, Opens
  <2>4. execState' = "after" <=> EndedBy(i)
    BY <2>1, <2>2, SwitchIsWindow DEF Closes, Passes, Opens
  <2> QED
    BY <1>1, <2>1, <2>2, <2>3, <2>4 DEF WindowState
<1>3. CASE SkipMarked
  <2>1. pc = "loop" /\ i \in Execs /\ Passes
    BY <1>3 DEF SkipMarked
  <2>2. pc' = "loop" /\ i' = i + 1 /\ execState' = "running"
    BY <1>3 DEF SkipMarked
  <2> QED
    BY <1>1, <2>1, <2>2, SwitchIsWindow DEF WindowState
<1>4. CASE Launch
  <2>1. pc = "loop" /\ i \in Execs /\ Passes /\ i \notin opt.skip
    BY <1>4 DEF Launch
  <2>2. pc' = "exec" /\ i' = i /\ execState' = "running" /\ Wanted(i)
    BY <1>4, <2>1, SwitchIsWindow DEF Launch, Wanted
  <2> QED
    BY <1>1, <2>2 DEF WindowState
(* A wanted execution is inside the window, and leaves it open.             *)
<1>5. pc = "exec" => /\ i \in Execs /\ i + 1 > 1 /\ (i + 1) - 1 = i
                     /\ execState = "running"
                     /\ StartedBy(i) /\ ~EndedBy(i)
  BY DEF WindowState, Wanted, Places
<1>6. ASSUME NEW m \in Maps, Succeed(m) PROVE WindowState'
  <2>1. pc = "exec" /\ pc' = "loop" /\ i' = i + 1 /\ execState' = execState
    BY <1>6 DEF Succeed
  <2> QED
    BY <1>1, <1>5, <2>1 DEF WindowState
<1>7. CASE Fail
  <2>1. pc = "exec" /\ execState' = execState /\ (pc' = "exit" \/ (pc' = "loop" /\ i' = i + 1))
    BY <1>7 DEF Fail
  <2> QED
    BY <1>1, <1>5, <2>1 DEF WindowState
<1>8. CASE Start
  BY <1>1, <1>8 DEF Start, loopVars, WindowState
<1>9. CASE Crash \/ WriteResult \/ Shutdown \/ Finish
  BY <1>9 DEF Crash, WriteResult, Shutdown, Finish, WindowState
<1>10. CASE Serve
  BY <1>1, <1>10 DEF Serve, Bind, ServeReturns, CloseChannel, loopVars, WindowState
<1>11. CASE UNCHANGED vars
  BY <1>1, <1>11 DEF vars, WindowState
<1> QED
  BY <1>2, <1>3, <1>4, <1>6, <1>7, <1>8, <1>9, <1>10, <1>11 DEF Next, Run

LEMMA NextOutcomes ==
  TypeOK /\ Places /\ WindowState /\ Outcomes /\ [Next]_vars => Outcomes'
<1> SUFFICES ASSUME TypeOK, Places, WindowState, Outcomes, [Next]_vars PROVE Outcomes'
  OBVIOUS
<1> USE NAssumption DEF TypeOK, Execs, Looping
<1>1. \A j : Wanted(j)' = Wanted(j)
  BY WindowConstant
(* An execution that is left out is not wanted, one that ran is.            *)
<1>2. CASE SkipByWindow
  <2>1. pc = "loop" /\ i \in Execs /\ ~Passes
    BY <1>2 DEF SkipByWindow
  <2>2. ~Wanted(i)
    BY <2>1, SwitchIsWindow DEF Wanted
  <2> QED
    BY <1>1, <1>2, <2>1, <2>2 DEF SkipByWindow, Outcomes
<1>3. CASE SkipMarked
  <2>1. pc = "loop" /\ i \in Execs /\ ~Wanted(i)
    BY <1>3 DEF SkipMarked, Wanted
  <2> QED
    BY <1>1, <1>3, <2>1 DEF SkipMarked, Outcomes
<1>4. pc = "exec" => i \in Execs /\ Wanted(i)
  BY DEF WindowState, Places
<1>5. ASSUME NEW m \in Maps, Succeed(m) PROVE Outcomes'
  <2>1. i \in Execs /\ Wanted(i) /\ pc = "exec" /\ pc' = "loop" /\ i' = i + 1
    BY <1>4, <1>5 DEF Succeed
  <2>2. \A j \in Execs : outcome'[j] = IF j = i THEN "ok" ELSE outcome[j]
    BY <1>5, <2>1 DEF Succeed
  <2> QED
    BY <1>1, <2>1, <2>2 DEF Outcomes
<1>6. CASE Fail
  <2>1. i \in Execs /\ Wanted(i) /\ pc = "exec"
    BY <1>4, <1>6 DEF Fail
  <2>2. \A j \in Execs : outcome'[j] = IF j = i THEN "failed" ELSE outcome[j]
    BY <1>6, <2>1 DEF Fail
  <2>3. (pc' = "loop" /\ i' = i + 1) \/ (pc' = "exit" /\ i' = i)
    BY <1>6 DEF Fail
  <2> QED
    BY <1>1, <2>1, <2>2, <2>3 DEF Outcomes
<1>7. CASE Start \/ Launch \/ Crash \/ WriteResult \/ Shutdown \/ Finish
  BY <1>1, <1>7 DEF Start, Launch, Crash, WriteResult, Shutdown, Finish, loopVars, Outcomes
<1>8. CASE Serve
  BY <1>1, <1>8 DEF Serve, Bind, ServeReturns, CloseChannel, loopVars, Outcomes
<1>9. CASE UNCHANGED vars
  BY <1>1, <1>9 DEF vars, Outcomes
<1> QED
  BY <1>2, <1>3, <1>5, <1>6, <1>7, <1>8, <1>9 DEF Next, Run

LEMMA NextFailures ==
  TypeOK /\ Places /\ Outcomes /\ Failures /\ [Next]_vars => Failures'
<1> SUFFICES ASSUME TypeOK, Places, Outcomes, Failures, [Next]_vars PROVE Failures'
  OBVIOUS
<1> USE NAssumption, OptionsAssumption DEF TypeOK, Execs
<1>1. opt' = opt
  BY OptionsConstant
<1>2. ASSUME NEW m \in Maps, Succeed(m) PROVE Failures'
  <2>1. i \in Execs /\ pc = "exec" /\ outcome[i] = "none"
    BY <1>2 DEF Succeed, Places, Outcomes
  <2>2. \A j \in Execs : outcome'[j] = IF j = i THEN "ok" ELSE outcome[j]
    BY <1>2, <2>1 DEF Succeed
  <2> QED
    BY <1>1, <1>2, <2>1, <2>2 DEF Succeed, Failures
<1>3. CASE Fail
  <2>1. i \in Execs /\ pc = "exec"
    BY <1>3 DEF Fail, Places
  <2>2. outcome'[i] = "failed" /\ fail' > 0
    BY <1>3, <2>1 DEF Fail
  <2>3. pc' # "exit" => opt.keep
    BY <1>3 DEF Fail
  <2> QED
    BY <1>1, <2>1, <2>2, <2>3 DEF Failures
<1>4. CASE Start \/ SkipByWindow \/ SkipMarked \/ Launch \/ Crash
  BY <1>1, <1>4 DEF Start, SkipByWindow, SkipMarked, Launch, Crash, loopVars, Failures
<1>5. CASE WriteResult \/ Shutdown \/ Finish
  BY <1>1, <1>5 DEF WriteResult, Shutdown, Finish, loopVars, Failures
<1>6. CASE Serve
  BY <1>1, <1>6 DEF Serve, Bind, ServeReturns, CloseChannel, loopVars, Failures
<1>7. CASE UNCHANGED vars
  BY <1>1, <1>7 DEF vars, Failures
<1> QED
  BY <1>2, <1>3, <1>4, <1>5, <1>6, <1>7 DEF Next, Run

LEMMA NextCounted == TypeOK /\ Places /\ Counted /\ [Next]_vars => Counted'
<1> SUFFICES ASSUME TypeOK, Places, Counted, [Next]_vars PROVE Counted'
  OBVIOUS
<1> USE NAssumption DEF TypeOK, Execs, Counted, Places
<1>1. CASE Start \/ SkipByWindow \/ SkipMarked \/ Launch
  BY <1>1 DEF Start, SkipByWindow, SkipMarked, Launch, loopVars
<1>2. ASSUME NEW m \in Maps, Succeed(m) PROVE Counted'
  <2>1. /\ pc = "exec" /\ pc' = "loop" /\ i' = i + 1 /\ succeed' = succeed + 1
        /\ fail' = fail /\ skipped' = skipped /\ printed' = printed
    BY <1>2 DEF Succeed
  <2> QED
    BY <2>1
<1>3. CASE Fail
  BY <1>3 DEF Fail
<1>4. CASE Crash \/ Finish
  BY <1>4 DEF Crash, Finish, loopVars, Panicked, Printing
<1>5. CASE WriteResult \/ Shutdown
  BY <1>5 DEF WriteResult, Shutdown, loopVars, Printing
<1>6. CASE Serve
  BY <1>6 DEF Serve, Bind, ServeReturns, CloseChannel, loopVars
<1>7. CASE UNCHANGED vars
  BY <1>7 DEF vars
<1> QED
  BY <1>1, <1>2, <1>3, <1>4, <1>5, <1>6, <1>7 DEF Next, Run

LEMMA NextExits ==
  TypeOK /\ Places /\ Failures /\ Exits /\ [Next]_vars => Exits'
<1> SUFFICES ASSUME TypeOK, Places, Failures, Exits, [Next]_vars PROVE Exits'
  OBVIOUS
<1> USE NAssumption, OptionsAssumption DEF TypeOK, Places, Exits, Panicked, Printing
<1>1. opt' = opt
  BY OptionsConstant
<1>2. CASE Start \/ SkipByWindow \/ SkipMarked \/ Launch \/ WriteResult \/ Shutdown
  BY <1>1, <1>2 DEF Start, SkipByWindow, SkipMarked, Launch, WriteResult, Shutdown, loopVars
<1>3. ASSUME NEW m \in Maps, Succeed(m) PROVE Exits'
  BY <1>1, <1>3 DEF Succeed
<1>4. CASE Fail
  BY <1>1, <1>4 DEF Fail
<1>5. CASE Crash
  BY <1>1, <1>5 DEF Crash, loopVars
<1>6. CASE Finish
  BY <1>1, <1>6 DEF Finish, loopVars, Failures
<1>7. CASE Serve
  BY <1>1, <1>7 DEF Serve, Bind, ServeReturns, CloseChannel, loopVars
<1>8. CASE UNCHANGED vars
  BY <1>1, <1>8 DEF vars
<1> QED
  BY <1>2, <1>3, <1>4, <1>5, <1>6, <1>7, <1>8 DEF Next, Run

LEMMA NextServerState == TypeOK /\ Places /\ ServerState /\ [Next]_vars => ServerState'
<1> SUFFICES ASSUME TypeOK, Places, ServerState, [Next]_vars PROVE ServerState'
  OBVIOUS
<1> USE DEF TypeOK, Places, ServerState, Printing
<1>1. CASE Run
  BY <1>1 DEF Run, Start, SkipByWindow, SkipMarked, Launch, Succeed, Fail, Crash,
              WriteResult, Shutdown, Finish, loopVars, srvVars
<1>2. CASE Serve
  BY <1>2 DEF Serve, Bind, ServeReturns, CloseChannel, loopVars
<1>3. CASE UNCHANGED vars
  BY <1>3 DEF vars
<1> QED
  BY <1>1, <1>2, <1>3 DEF Next

LEMMA NextIInv == IInv /\ [Next]_vars => IInv'
  BY NextTypeOK, NextPlaces, NextWindow, NextOutcomes, NextFailures, NextCounted,
     NextExits, NextServerState DEF IInv

-------------------------------------------------------------------------------
(* The results.  A step that is not a success changes neither them nor the  *)
(* set of successful executions.                                            *)
ResultsRight == ResultsFromSuccesses /\ KeysNeverLost

LEMMA NoNewSuccess ==
  ASSUME TypeOK, ResultsRight,
         UNCHANGED <<results, got>>,
         \A j \in Execs : outcome'[j] = "ok" <=> outcome[j] = "ok"
  PROVE  ResultsRight'
<1>1. {NameOf[j] : j \in {h \in Execs : outcome'[h] = "ok"}}
        = {NameOf[j] : j \in {h \in Execs : outcome[h] = "ok"}}
  OBVIOUS
<1>2. ASSUME NEW n, NEW j \in Execs PROVE LatestOK(n, j)' = LatestOK(n, j)
  BY <1>2 DEF LatestOK
<1>3. ResultsFromSuccesses'
  BY <1>1, <1>2 DEF ResultsRight, ResultsFromSuccesses
<1> QED
  BY <1>3 DEF ResultsRight, KeysNeverLost

LEMMA SucceedKeepsResults ==
  ASSUME TypeOK, Places, Outcomes, ResultsRight, NEW m \in Maps, Succeed(m)
  PROVE  ResultsRight'
<1> DEFINE nm == NameOf[i]
           old == Earlier(nm)
           new == results'[nm]
<1>1. /\ i \in Execs
      /\ DOMAIN results' = DOMAIN results \cup {nm}
      /\ \A n \in DOMAIN results : n # nm => results'[n] = results[n]
      /\ new \in AddOutcomes(old, m)
      /\ IsLinkedMap(old)
  BY SucceedResults
<1>2. /\ \A j \in Execs : outcome'[j] = IF j = i THEN "ok" ELSE outcome[j]
      /\ \A j \in Execs : got'[j] = IF j = i THEN m ELSE got[j]
      /\ outcome[i] # "ok"
      /\ \A j \in Execs : j > i => outcome[j] # "ok"
  BY <1>1 DEF Succeed, TypeOK, Outcomes
<1>3. /\ DOMAIN new = DOMAIN old \cup DOMAIN m
      /\ \A a \in DOMAIN new : new[a] \subseteq PositionsAt(old, a) \cup PositionsAt(m, a)
      /\ \A a \in DOMAIN m : m[a] \subseteq new[a]
  <2>1. IsLinkedMap(m)
    BY MapsAssumption
  <2> HIDE DEF old, new
  <2> QED
    BY <1>1, <2>1, AddKeepsKeysAndNewest
(* The names with a success.                                                *)
<1>4. DOMAIN results' = {NameOf[j] : j \in {h \in Execs : outcome'[h] = "ok"}}
  <2>1. DOMAIN results = {NameOf[j] : j \in {h \in Execs : outcome[h] = "ok"}}
    BY DEF ResultsRight, ResultsFromSuccesses
  <2>2. {h \in Execs : outcome'[h] = "ok"} = {h \in Execs : outcome[h] = "ok"} \cup {i}
    BY <1>1, <1>2
  <2> QED
    BY <1>1, <2>1, <2>2
(* Where a position comes from.                                             *)
<1>5. ASSUME NEW n \in DOMAIN results', NEW a \in DOMAIN results'[n], NEW p \in results'[n][a]
      PROVE  \E j \in Execs : /\ NameOf[j] = n /\ outcome'[j] = "ok"
                              /\ p \in PositionsAt(got'[j], a)
  <2>1. ASSUME n \in DOMAIN results, a \in DOMAIN results[n], p \in results[n][a]
        PROVE  \E j \in Execs : /\ NameOf[j] = n /\ outcome'[j] = "ok"
                                /\ p \in PositionsAt(got'[j], a)
    <3>1. PICK j \in Execs : NameOf[j] = n /\ outcome[j] = "ok" /\ p \in PositionsAt(got[j], a)
      BY <2>1 DEF ResultsRight, ResultsFromSuccesses
    <3>2. outcome'[j] = "ok" /\ got'[j] = got[j]
      BY <1>2, <3>1
    <3> QED
      BY <3>1, <3>2
  <2>2. CASE n # nm
    BY <1>1, <2>1, <2>2
  <2>3. CASE n = nm
    <3>1. CASE p \in PositionsAt(m, a)
      BY <1>1, <1>2, <2>3, <3>1
    <3>2. CASE p \in PositionsAt(old, a)
      <4>1. nm \in DOMAIN results /\ a \in DOMAIN results[nm] /\ p \in results[nm][a]
        BY <3>2 DEF Earlier, PositionsAt, EmptyMap
      <4> QED
        BY <2>1, <2>3, <4>1
    <3> QED
      BY <1>3, <2>3, <3>1, <3>2
  <2> QED
    BY <2>2, <2>3
(* The latest success of a name.                                            *)
<1>6. ASSUME NEW j \in Execs, NEW n \in DOMAIN results', LatestOK(n, j)', NEW a \in DOMAIN got'[j]
      PROVE  got'[j][a] \subseteq PositionsAt(results'[n], a)
  <2>1. NameOf[j] = n /\ outcome'[j] = "ok"
    BY <1>6 DEF LatestOK
  <2>2. CASE n = nm
    <3>1. i <= j
      BY <1>1, <1>2, <1>6, <2>2 DEF LatestOK
    <3>2. j = i
      BY <1>1, <1>2, <2>1, <3>1 DEF Execs
    <3> QED
      BY <1>2, <1>3, <2>2, <3>2 DEF PositionsAt
  <2>3. CASE n # nm
    <3>1. j # i /\ n \in DOMAIN results /\ results'[n] = results[n] /\ got'[j] = got[j]
      BY <1>1, <1>2, <2>1, <2>3
    <3>2. LatestOK(n, j)
      BY <1>2, <1>6, <3>1, <2>3 DEF LatestOK
    <3> QED
      BY <3>1, <3>2 DEF ResultsRight, ResultsFromSuccesses
  <2> QED
    BY <2>2, <2>3
<1>7. ASSUME NEW j \in Execs, outcome'[j] = "ok"
      PROVE  NameOf[j] \in DOMAIN results' /\ DOMAIN got'[j] \subseteq DOMAIN results'[NameOf[j]]
  <2>1. CASE j = i
    BY <1>1, <1>2, <1>3, <2>1
  <2>2. CASE j # i
    <3>1. NameOf[j] \in DOMAIN results /\ DOMAIN got[j] \subseteq DOMAIN results[NameOf[j]]
      BY <1>2, <1>7, <2>2 DEF ResultsRight, KeysNeverLost
    <3>2. NameOf[j] = nm => results[nm] = old
      BY <3>1 DEF Earlier
    <3>3. DOMAIN results[NameOf[j]] \subseteq DOMAIN results'[NameOf[j]]
      BY <1>1, <1>3, <3>1, <3>2
    <3> QED
      BY <1>1, <1>2, <2>2, <3>1, <3>3
  <2> QED
    BY <2>1, <2>2
<1> QED
  BY <1>4, <1>5, <1>6, <1>7 DEF ResultsRight, ResultsFromSuccesses, KeysNeverLost

LEMMA NextResultsRight ==
  TypeOK /\ Places /\ Outcomes /\ ResultsRight /\ [Next]_vars => ResultsRight'
<1> SUFFICES ASSUME TypeOK, Places, Outcomes, ResultsRight, [Next]_vars PROVE ResultsRight'
  OBVIOUS
<1>1. ASSUME NEW m \in Maps, Succeed(m) PROVE ResultsRight'
  BY <1>1, SucceedKeepsResults
<1>2. CASE Fail
  <2>1. i \in Execs /\ outcome[i] = "none"
    BY <1>2 DEF Fail, Places, Outcomes
  <2>2. \A j \in Execs : outcome'[j] = "ok" <=> outcome[j] = "ok"
    BY <1>2, <2>1 DEF Fail, TypeOK
  <2> QED
    BY <1>2, <2>2, NoNewSuccess DEF Fail
<1>3. CASE Start \/ SkipByWindow \/ SkipMarked \/ Launch \/ Crash \/ WriteResult
           \/ Shutdown \/ Finish \/ Serve \/ UNCHANGED vars
  <2>1. UNCHANGED <<results, got, outcome>>
    BY <1>3 DEF Start, SkipByWindow, SkipMarked, Launch, Crash, WriteResult, Shutdown, Finish,
                Serve, Bind, ServeReturns, CloseChannel, loopVars, vars
  <2> QED
    BY <2>1, NoNewSuccess
<1> QED
  BY <1>1, <1>2, <1>3 DEF Next, Run

-------------------------------------------------------------------------------
(* The theorems.                                                            *)

(* IInv holds in every reachable state.                                     *)
THEOREM InductiveInvariant == Spec => []IInv
<1>1. IInv /\ [Next]_vars => IInv'
  BY NextIInv
<1> QED
  BY InitIInv, <1>1, PTL DEF Spec, SafetySpec

(* The types of the run's state, for every list of executions.              *)
THEOREM TypeCorrect == Spec => []TypeOK
<1>1. IInv => TypeOK
  BY DEF IInv
<1> QED
  BY <1>1, InductiveInvariant, PTL

(* The state machine of ctrl.go:174-194 runs exactly the executions in the  *)
(* window that are not marked as skipped, for any list of labels; the       *)
(* window takes in the execution that opens it, also if -to names it.       *)
THEOREM WindowCorrect == Spec => []WindowExact
<1>1. IInv => WindowExact
  BY DEF IInv, WindowExact, WindowState, Outcomes
<1> QED
  BY <1>1, InductiveInvariant, PTL

(* The exit status of the process (ctrl.go:203-208, 230-233) tells what     *)
(* became of the executions.                                                *)
THEOREM ExitCorrect == Spec => []ExitTellsTruth
<1>1. IInv => ExitTellsTruth
  <2> SUFFICES ASSUME IInv PROVE ExitTellsTruth
    OBVIOUS
  <2> USE NAssumption DEF IInv, TypeOK, Places, Counted, Exits, Panicked, Execs
  <2>1. ASSUME exit = 0, NEW j \in Execs, Wanted(j) PROVE outcome[j] = "ok"
    <3>1. fail = 0 /\ j < i
      BY <2>1
    <3>2. outcome[j] # "none" /\ outcome[j] # "failed"
      BY <2>1, <3>1 DEF Outcomes, Failures
    <3> QED
      BY <3>2
  <2>2. exit = 1 => \E j \in Execs : outcome[j] = "failed"
    BY DEF Failures
  <2>3. exit \in {0, 1} => succeed + fail + skipped = IF printed THEN N ELSE i
    OBVIOUS
  <2> QED
    BY <2>1, <2>2, <2>3 DEF ExitTellsTruth
<1> QED
  BY <1>1, InductiveInvariant, PTL

(* A run that prints its results exits only after the server's goroutine    *)
(* has returned (server.go:458-464).                                        *)
THEOREM ServerStopped == Spec => []CleanExitStopsServer
<1>1. IInv => CleanExitStopsServer
  BY DEF IInv, ServerState, CleanExitStopsServer
<1> QED
  BY <1>1, InductiveInvariant, PTL

LEMMA ResultsInvariant == Spec => []ResultsRight
<1>1. Init => ResultsRight
  <2> SUFFICES ASSUME Init PROVE ResultsRight
    OBVIOUS
  <2>1. DOMAIN results = {} /\ \A j \in Execs : outcome[j] = "none"
    BY DEF Init
  <2> QED
    BY <2>1 DEF ResultsRight, ResultsFromSuccesses, KeysNeverLost, LatestOK
<1>2. IInv /\ ResultsRight /\ [Next]_vars => ResultsRight'
  BY NextResultsRight DEF IInv
<1> QED
  BY <1>1, <1>2, InductiveInvariant, PTL DEF Spec, SafetySpec

(* Merging the maps of executions that share a name (ctrl.go:209-211 and    *)
(* map.go:52-82) invents no position and drops none of the latest success,  *)
(* however many executions there are and whatever maps they return.         *)
THEOREM ResultsCorrect == Spec => []ResultsFromSuccesses
<1>1. ResultsRight => ResultsFromSuccesses
  BY DEF ResultsRight
<1> QED
  BY <1>1, ResultsInvariant, PTL

(* Nor does it ever leave a property without a position that some execution *)
(* of that name has mapped, although Add drops positions (map.go:54-58).    *)
THEOREM KeysCorrect == Spec => []KeysNeverLost
<1>1. ResultsRight => KeysNeverLost
  BY DEF ResultsRight
<1> QED
  BY <1>1, ResultsInvariant, PTL

(* Results are final once printed, and the window only moves forward.       *)
THEOREM ForwardOnly == Spec => OnlyForward
<1> DEFINE Forward == /\ printed => printed' /\ UNCHANGED <<results, outcome>>
                      /\ Stage(execState) <= Stage(execState')
                      /\ i' \in {i, i + 1}
<1>1. IInv /\ [Next]_vars => [Forward]_vars
  <2> SUFFICES ASSUME IInv, Next PROVE Forward
    BY DEF vars
  <2> USE DEF IInv, TypeOK, Places, Stage
  <2>1. CASE SkipByWindow
    BY <2>1 DEF SkipByWindow, Closes, srvVars
  <2>2. CASE SkipMarked \/ Launch
    BY <2>2 DEF SkipMarked, Launch, Passes, Opens, srvVars
  <2>3. ASSUME NEW m \in Maps, Succeed(m) PROVE Forward
    BY <2>3 DEF Succeed
  <2>4. CASE Fail
    BY <2>4 DEF Fail
  <2>5. CASE Start \/ Crash \/ WriteResult \/ Shutdown \/ Finish \/ Serve
    BY <2>5 DEF Start, Crash, WriteResult, Shutdown, Finish, Serve, Bind, ServeReturns,
                CloseChannel, loopVars
  <2> QED
    BY <2>1, <2>2, <2>3, <2>4, <2>5 DEF Next, Run
<1> QED
  BY <1>1, InductiveInvariant, PTL DEF Spec, SafetySpec, OnlyForward
===============================================================================
