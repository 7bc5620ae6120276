-------------------------- MODULE ModuleInitProofs --------------------------
(* Theorems about ModuleInit for every set of modules, every width of the    *)
(* generation counter and every number of edits.                             *)
EXTENDS ModuleInit, TLAPS

-----------------------------------------------------------------------------
(* The verification cache.  The two generations agree exactly when nothing   *)
(* was set since the last accepted pass; the verified one is never ahead, so *)
(* that counting on cannot make them agree, and a wrap puts it back to 0.    *)
Generations ==
    /\ 1 <= gen /\ verified <= gen
    /\ accepted <= edits
    /\ verified = gen <=> accepted = edits
    /\ verified = gen => AllSound
    /\ at # "idle" => verified = gen

(* The module table.                                                         *)
Listed ==
    /\ \A i \in 1 .. Len(order) : state[order[i]] # "absent"
    /\ \A m \in Module : state[m] # "absent" => \E i \in 1 .. Len(order) : order[i] = m
    /\ \A i, j \in 1 .. Len(order) : order[i] = order[j] => i = j
Passed ==
    at \in {"init", "child"} =>
        \A i \in 1 .. Len(order) : i < cursor => state[order[i]] = "Initialized"
InChild ==
    at = "child" =>
        /\ cursor <= Len(order) /\ state[Current] = "Initializing"
        /\ \A m \in child : m = Current \/ state[m] = "Initialized"

IInv ==
    /\ TypeOK /\ Generations
    /\ Listed /\ InOrder /\ Passed /\ InChild /\ Settled /\ NoHalfModule /\ MainAfterAll
    /\ CacheCurrent

LEMMA InitIInv == Init => IInv
<1> SUFFICES ASSUME Init PROVE IInv
  OBVIOUS
<1> USE DEF Init
<1>1. TypeOK
  <2>1. gen \in 0 .. Width - 1 /\ verified \in 0 .. Width - 1
    BY WidthAssumption
  <2>2. edits \in 0 .. MaxEdits /\ accepted \in -1 .. MaxEdits
    BY EditsAssumption
  <2>3. compiled \in [Jit -> -1 .. MaxEdits]
    BY EditsAssumption
  <2>4. sound \in [Parts -> BOOLEAN] /\ state \in [Module -> States] /\ order \in Seq(Module)
    BY DEF States
  <2> QED
    <3>1. passes \in BOOLEAN /\ frames \in BOOLEAN /\ active \subseteq Jit
          /\ vars \subseteq Module /\ child \subseteq Module
      OBVIOUS
    <3>2. cursor \in Nat \ {0} /\ at \in {"idle", "init", "child", "main"}
      OBVIOUS
    <3> QED
      BY <2>1, <2>2, <2>3, <2>4, <3>1, <3>2 DEF TypeOK
<1>2. Generations
  BY DEF Generations, AllSound
<1>3. /\ Listed /\ InOrder /\ Passed /\ InChild /\ Settled /\ NoHalfModule /\ MainAfterAll
      /\ CacheCurrent
  BY DEF Listed, InOrder, Passed, InChild, Settled, NoHalfModule, MainAfterAll, CacheCurrent
<1> QED
  BY <1>1, <1>2, <1>3 DEF IInv

LEMMA Invalidated ==
  ASSUME TypeOK, Generations, Invalidate
  PROVE  /\ gen' \in 0 .. Width - 1 /\ verified' \in 0 .. Width - 1
         /\ 1 <= gen' /\ verified' < gen'
BY WidthAssumption DEF TypeOK, Generations, Invalidate

(* A setter leaves the table and the caches alone.                           *)
LEMMA SetterKeeps ==
  ASSUME IInv, at = "idle", NEW part \in Parts, NEW ok \in BOOLEAN,
         Installs(part, ok), UNCHANGED <<vars_table, vars_jit, at, frames>>
  PROVE  IInv'
<1> USE DEF IInv, Installs
<1>1. verified' < gen' /\ 1 <= gen' /\ gen' \in 0 .. Width - 1 /\ verified' \in 0 .. Width - 1
  BY Invalidated
<1>2. TypeOK'
  <2>1. edits' \in 0 .. MaxEdits
    BY EditsAssumption DEF TypeOK
  <2>2. sound' \in [Parts -> BOOLEAN]
    BY DEF TypeOK
  <2> QED
    BY <1>1, <2>1, <2>2 DEF TypeOK, vars_table, vars_jit
<1>3. Generations'
  BY <1>1 DEF Generations, TypeOK
<1>4. /\ Listed' /\ InOrder' /\ Passed' /\ InChild' /\ Settled' /\ NoHalfModule' /\ MainAfterAll'
      /\ CacheCurrent'
  BY DEF Listed, InOrder, Passed, InChild, Settled, NoHalfModule, MainAfterAll, CacheCurrent,
         vars_table, vars_jit, Current
<1> QED
  BY <1>2, <1>3, <1>4

LEMMA AddKeeps ==
  ASSUME IInv, NEW m \in Module, NEW ok \in BOOLEAN, AddModule(m, ok)
  PROVE  IInv'
<1> USE DEF IInv, AddModule, Installs
<1>1. verified' < gen' /\ 1 <= gen' /\ gen' \in 0 .. Width - 1 /\ verified' \in 0 .. Width - 1
  BY Invalidated
<1>2. /\ order \in Seq(Module) /\ state \in [Module -> States]
      /\ order' \in Seq(Module) /\ Len(order') = Len(order) + 1
      /\ \A i \in 1 .. Len(order) : order'[i] = order[i]
      /\ order'[Len(order) + 1] = m
  BY DEF TypeOK
<1>3. TypeOK'
  <2>1. edits' \in 0 .. MaxEdits
    BY EditsAssumption DEF TypeOK
  <2>2. sound' \in [Parts -> BOOLEAN]
    BY DEF TypeOK
  <2>3. state' \in [Module -> States]
    BY <1>2 DEF States
  <2> QED
    BY <1>1, <1>2, <2>1, <2>2, <2>3 DEF TypeOK, vars_jit
<1>4. Generations'
  BY <1>1 DEF Generations, TypeOK
<1>5. \A i \in 1 .. Len(order) : order[i] \in Module /\ order[i] # m
                                 /\ state'[order[i]] = state[order[i]]
  BY <1>2 DEF Listed
<1>6. state'[m] = "Uninitialized" /\ \A n \in Module \ {m} : state'[n] = state[n]
  BY <1>2
<1>7. Listed'
  <2>1. \A i \in 1 .. Len(order') : state'[order'[i]] # "absent"
    BY <1>2, <1>5, <1>6 DEF Listed
  <2>2. \A i, j \in 1 .. Len(order') : order'[i] = order'[j] => i = j
    BY <1>2, <1>5 DEF Listed
  <2>3. ASSUME NEW n \in Module, state'[n] # "absent"
        PROVE  \E i \in 1 .. Len(order') : order'[i] = n
    <3>1. CASE n = m
      BY <3>1, <1>2
    <3>2. CASE n # m
      BY <3>2, <2>3, <1>2, <1>6 DEF Listed
    <3> QED
      BY <3>1, <3>2
  <2> QED
    BY <2>1, <2>2, <2>3 DEF Listed
<1>8. InOrder'
  BY <1>2, <1>5, <1>6 DEF InOrder
<1>9. Passed' /\ InChild' /\ MainAfterAll' /\ CacheCurrent'
  BY DEF Passed, InChild, MainAfterAll, CacheCurrent, vars_jit
<1>10. Settled' /\ NoHalfModule'
  BY <1>6 DEF Settled, NoHalfModule, TypeOK
<1> QED
  BY <1>3, <1>4, <1>7, <1>8, <1>9, <1>10

(* The steps of initializeModules change the state of the current module.    *)
LEMMA ModuleStep ==
  ASSUME IInv, NEW new \in States \ {"absent"},
         cursor <= Len(order), state' = [state EXCEPT ![Current] = new],
         UNCHANGED order
  PROVE  /\ Current \in Module /\ state'[Current] = new /\ state' \in [Module -> States]
         /\ \A m \in Module \ {Current} : state'[m] = state[m]
         /\ \A i \in 1 .. Len(order) : i # cursor =>
                order[i] \in Module /\ order[i] # Current /\ state'[order[i]] = state[order[i]]
         /\ Listed'
<1>1. cursor \in 1 .. Len(order) /\ order \in Seq(Module) /\ state \in [Module -> States]
  BY DEF IInv, TypeOK
<1>2. Current \in Module
  BY <1>1 DEF Current
<1>3. \A i \in 1 .. Len(order) : i # cursor => order[i] \in Module /\ order[i] # Current
  BY <1>1 DEF IInv, Listed, Current
<1>4. state'[Current] = new /\ \A m \in Module \ {Current} : state'[m] = state[m]
  BY <1>1, <1>2
<1>5. Listed'
  <2>1. \A i \in 1 .. Len(order) : state'[order[i]] # "absent"
    <3> TAKE i \in 1 .. Len(order)
    <3>1. CASE i = cursor
      BY <3>1, <1>4 DEF Current
    <3>2. CASE i # cursor
      BY <3>2, <1>3, <1>4 DEF IInv, Listed
    <3> QED
      BY <3>1, <3>2
  <2>2. \A m \in Module : state'[m] # "absent" => \E i \in 1 .. Len(order) : order[i] = m
    <3> TAKE m \in Module
    <3>1. CASE m = Current
      BY <3>1, <1>1 DEF Current
    <3>2. CASE m # Current
      BY <3>2, <1>4 DEF IInv, Listed
    <3> QED
      BY <3>1, <3>2
  <2> QED
    BY <2>1, <2>2 DEF IInv, Listed
<1> QED
  BY <1>1, <1>2, <1>3, <1>4, <1>5

LEMMA BeginKeeps ==
  ASSUME IInv, Begin
  PROVE  IInv'
<1> USE DEF IInv, Begin, Recorded, Verifies
<1>1. TypeOK'
  BY DEF TypeOK, vars_jit
<1>2. Generations'
  BY DEF Generations, TypeOK, AllSound
<1>3. Listed' /\ InOrder' /\ Passed' /\ InChild' /\ NoHalfModule' /\ MainAfterAll'
  BY DEF Listed, InOrder, Passed, InChild, NoHalfModule, MainAfterAll, TypeOK
<1>4. Settled' /\ CacheCurrent'
  BY DEF Settled, CacheCurrent, vars_jit
<1> QED
  BY <1>1, <1>2, <1>3, <1>4

(* Steps that leave the program, the order and the caches alone.             *)
LEMMA SameProgram ==
  ASSUME IInv, UNCHANGED <<gen, verified, accepted, sound, edits>>, at # "idle" \/ at' = "idle"
  PROVE  Generations'
BY DEF IInv, Generations, AllSound

LEMMA SkipKeeps ==
  ASSUME IInv, Skip
  PROVE  IInv'
<1> USE DEF IInv, Skip, Skips
<1>1. TypeOK'
  <2>1. cursor' \in Nat \ {0}
    BY DEF TypeOK
  <2> QED
    BY <2>1 DEF TypeOK, vars_jit
<1>2. Generations'
  BY SameProgram
<1>3. Passed'
  <2> SUFFICES ASSUME NEW i \in 1 .. Len(order), i < cursor + 1
               PROVE  state[order[i]] = "Initialized"
    BY DEF Passed
  <2>1. CASE i = cursor
    BY <2>1 DEF Current
  <2>2. CASE i # cursor
    BY <2>2 DEF Passed, TypeOK
  <2> QED
    BY <2>1, <2>2
<1>4. Listed' /\ InOrder' /\ InChild' /\ Settled' /\ NoHalfModule' /\ MainAfterAll' /\ CacheCurrent'
  BY DEF Listed, InOrder, InChild, Settled, NoHalfModule, MainAfterAll, CacheCurrent, vars_jit
<1> QED
  BY <1>1, <1>2, <1>3, <1>4

LEMMA BeginModuleKeeps ==
  ASSUME IInv, BeginModule
  PROVE  IInv'
<1> USE DEF IInv, BeginModule, Begins
<1>1. /\ Current \in Module /\ state'[Current] = "Initializing" /\ state' \in [Module -> States]
      /\ \A m \in Module \ {Current} : state'[m] = state[m]
      /\ \A i \in 1 .. Len(order) : i # cursor =>
             order[i] \in Module /\ order[i] # Current /\ state'[order[i]] = state[order[i]]
      /\ Listed'
  BY ModuleStep DEF States
<1>2. TypeOK'
  BY <1>1 DEF TypeOK, vars_jit
<1>3. Generations'
  BY SameProgram
<1>4. InOrder'
  <2> SUFFICES ASSUME NEW i \in 1 .. Len(order), NEW j \in 1 .. Len(order), i < j
               PROVE  state'[order[j]] = "Uninitialized" \/ state'[order[i]] = "Initialized"
    BY DEF InOrder
  <2>1. CASE j = cursor
    BY <2>1, <1>1 DEF Passed, TypeOK
  <2>2. CASE i = cursor
    BY <2>2, <1>1 DEF InOrder, Current, TypeOK
  <2>3. CASE i # cursor /\ j # cursor
    BY <2>3, <1>1 DEF InOrder
  <2> QED
    BY <2>1, <2>2, <2>3
<1>5. Passed'
  BY <1>1 DEF Passed, TypeOK
<1>6. InChild' /\ Settled' /\ NoHalfModule'
  BY <1>1 DEF InChild, Settled, NoHalfModule, TypeOK, Current
<1>7. MainAfterAll' /\ CacheCurrent'
  BY DEF MainAfterAll, CacheCurrent, vars_jit
<1> QED
  BY <1>1, <1>2, <1>3, <1>4, <1>5, <1>6, <1>7

LEMMA CompletesKeeps ==
  ASSUME IInv, Completes
  PROVE  IInv'
<1> USE DEF IInv, Completes
<1>1. cursor <= Len(order) /\ state[Current] = "Initializing"
  BY DEF InChild
<1>2. /\ Current \in Module /\ state'[Current] = "Initialized" /\ state' \in [Module -> States]
      /\ \A m \in Module \ {Current} : state'[m] = state[m]
      /\ \A i \in 1 .. Len(order) : i # cursor =>
             order[i] \in Module /\ order[i] # Current /\ state'[order[i]] = state[order[i]]
      /\ Listed'
  BY <1>1, ModuleStep DEF States
<1>3. TypeOK'
  <2>1. cursor' \in Nat \ {0}
    BY DEF TypeOK
  <2> QED
    BY <1>2, <2>1 DEF TypeOK, vars_jit
<1>4. Generations'
  BY SameProgram
<1>5. InOrder'
  <2> SUFFICES ASSUME NEW i \in 1 .. Len(order), NEW j \in 1 .. Len(order), i < j
               PROVE  state'[order[j]] = "Uninitialized" \/ state'[order[i]] = "Initialized"
    BY DEF InOrder
  <2>1. CASE j = cursor
    BY <2>1, <1>1, <1>2 DEF Passed, TypeOK
  <2>2. CASE i = cursor
    BY <2>2, <1>2 DEF Current
  <2>3. CASE i # cursor /\ j # cursor
    BY <2>3, <1>2 DEF InOrder
  <2> QED
    BY <2>1, <2>2, <2>3
<1>6. Passed'
  <2> SUFFICES ASSUME NEW i \in 1 .. Len(order), i < cursor + 1
               PROVE  state'[order[i]] = "Initialized"
    BY DEF Passed
  <2>1. CASE i = cursor
    BY <2>1, <1>2 DEF Current
  <2>2. CASE i # cursor
    BY <2>2, <1>2 DEF Passed, TypeOK
  <2> QED
    BY <2>1, <2>2
<1>7. InChild' /\ MainAfterAll' /\ CacheCurrent'
  BY DEF InChild, MainAfterAll, CacheCurrent, vars_jit
<1>8. Settled'
  BY <1>2 DEF Settled
<1>9. NoHalfModule'
  BY <1>2 DEF InChild, NoHalfModule, TypeOK
<1> QED
  BY <1>2, <1>3, <1>4, <1>5, <1>6, <1>7, <1>8, <1>9

LEMMA FailsKeeps ==
  ASSUME IInv, Fails
  PROVE  IInv'
<1> USE DEF IInv, Fails, MarkFailed, Dropped
<1>1. cursor <= Len(order) /\ state[Current] = "Initializing"
  BY DEF InChild
<1>2. /\ Current \in Module /\ state'[Current] = "Failed" /\ state' \in [Module -> States]
      /\ \A m \in Module \ {Current} : state'[m] = state[m]
      /\ \A i \in 1 .. Len(order) : i # cursor =>
             order[i] \in Module /\ order[i] # Current /\ state'[order[i]] = state[order[i]]
      /\ Listed'
  BY <1>1, ModuleStep DEF States
<1>3. TypeOK'
  BY <1>2 DEF TypeOK, vars_jit
<1>4. Generations'
  BY SameProgram
<1>5. InOrder'
  <2> SUFFICES ASSUME NEW i \in 1 .. Len(order), NEW j \in 1 .. Len(order), i < j
               PROVE  state'[order[j]] = "Uninitialized" \/ state'[order[i]] = "Initialized"
    BY DEF InOrder
  <2>1. CASE j = cursor
    BY <2>1, <1>1, <1>2 DEF Passed, TypeOK
  <2>2. CASE i = cursor
    BY <2>2, <1>1, <1>2 DEF InOrder, Current, TypeOK
  <2>3. CASE i # cursor /\ j # cursor
    BY <2>3, <1>2 DEF InOrder
  <2> QED
    BY <2>1, <2>2, <2>3
<1>6. Passed' /\ InChild' /\ MainAfterAll' /\ CacheCurrent'
  BY DEF Passed, InChild, MainAfterAll, CacheCurrent, vars_jit
<1>7. Settled'
  BY <1>2 DEF Settled
<1>8. NoHalfModule'
  BY <1>1, <1>2 DEF NoHalfModule, TypeOK
<1> QED
  BY <1>2, <1>3, <1>4, <1>5, <1>6, <1>7, <1>8

LEMMA StartKeeps ==
  ASSUME IInv, NEW mode \in Jit \cup {"plain"}, Start(mode)
  PROVE  IInv'
<1> USE DEF IInv, Start
<1>1. TypeOK'
  <2>1. edits \in -1 .. MaxEdits
    BY DEF TypeOK
  <2>2. compiled' \in [Jit -> -1 .. MaxEdits]
    BY <2>1 DEF TypeOK
  <2>3. active' \subseteq Jit
    BY DEF TypeOK, Jit
  <2> QED
    BY <2>2, <2>3 DEF TypeOK, vars_table
<1>2. Generations'
  BY SameProgram
<1>3. MainAfterAll'
  <2>1. \A i \in 1 .. Len(order) : state[order[i]] = "Initialized"
    BY DEF Passed, TypeOK
  <2> QED
    BY <2>1 DEF MainAfterAll, Listed, vars_table
<1>4. CacheCurrent'
  BY DEF CacheCurrent, TypeOK
<1>5. Listed' /\ InOrder' /\ Passed' /\ InChild' /\ Settled' /\ NoHalfModule'
  BY DEF Listed, InOrder, Passed, InChild, Settled, NoHalfModule, vars_table
<1> QED
  BY <1>1, <1>2, <1>3, <1>4, <1>5

(* Steps that go back to idle and leave the table and the program alone.     *)
LEMMA BackToIdle ==
  ASSUME IInv, at' = "idle", passes' \in BOOLEAN, frames' \in BOOLEAN,
         UNCHANGED <<gen, verified, accepted, sound, edits, vars_table>>,
         Cleared \/ (UNCHANGED vars_jit /\ active = {}), at # "child"
  PROVE  IInv'
<1> USE DEF IInv
<1>1. compiled' \in [Jit -> -1 .. MaxEdits] /\ active' = {}
  <2>1. -1 \in -1 .. MaxEdits
    BY EditsAssumption
  <2> QED
    BY <2>1 DEF TypeOK, Cleared, vars_jit
<1>2. TypeOK'
  BY <1>1 DEF TypeOK, vars_table
<1>3. Generations'
  BY SameProgram
<1>4. /\ Listed' /\ InOrder' /\ Passed' /\ InChild' /\ Settled' /\ NoHalfModule' /\ MainAfterAll'
      /\ CacheCurrent'
  BY <1>1 DEF Listed, InOrder, Passed, InChild, Settled, NoHalfModule, MainAfterAll, CacheCurrent,
              vars_table
<1> QED
  BY <1>2, <1>3, <1>4

LEMMA ChildWritesKeeps ==
  ASSUME IInv, ChildWrites
  PROVE  IInv'
<1> USE DEF IInv, ChildWrites
<1>1. cursor \in 1 .. Len(order) /\ Current \in Module
  BY DEF InChild, TypeOK, Current
<1>2. TypeOK'
  BY <1>1 DEF TypeOK, vars_jit
<1>3. Generations'
  BY SameProgram
<1>4. InChild'
  BY DEF InChild, Current
<1>5. Listed' /\ InOrder' /\ Passed' /\ Settled' /\ NoHalfModule' /\ MainAfterAll' /\ CacheCurrent'
  BY DEF Listed, InOrder, Passed, Settled, NoHalfModule, MainAfterAll, CacheCurrent, vars_jit, Current
<1> QED
  BY <1>2, <1>3, <1>4, <1>5

LEMMA StepIInv ==
  ASSUME IInv, [Next]_allVars
  PROVE  IInv'
<1>1. ASSUME NEW ok \in BOOLEAN, SetFunctions(ok) \/ SetForeign(ok) PROVE IInv'
  BY <1>1, SetterKeeps DEF SetFunctions, SetForeign, Parts
<1>2. ASSUME NEW ok \in BOOLEAN, NEW m \in Module, AddModule(m, ok) PROVE IInv'
  BY <1>2, AddKeeps
<1>3. CASE Begin
  BY <1>3, BeginKeeps
<1>4. CASE Rejected \/ Refuse
  <2>1. active = {} /\ at # "child"
    BY <1>4 DEF IInv, CacheCurrent, Rejected, Refuse
  <2> QED
    BY <1>4, <2>1, BackToIdle DEF Rejected, Refuse, IInv, TypeOK, vars_table
<1>5. CASE Skip
  BY <1>5, SkipKeeps
<1>6. CASE BeginModule
  BY <1>6, BeginModuleKeeps
<1>7. CASE ChildWrites
  BY <1>7, ChildWritesKeeps
<1>8. CASE Completes
  BY <1>8, CompletesKeeps
<1>9. CASE Fails
  BY <1>9, FailsKeeps
<1>10. ASSUME NEW mode \in Jit \cup {"plain"}, Start(mode) PROVE IInv'
  BY <1>10, StartKeeps
<1>11. CASE Ends
  BY <1>11, BackToIdle DEF Ends, IInv, TypeOK
<1>12. ASSUME NEW unwound \in BOOLEAN, Throws(unwound) PROVE IInv'
  BY <1>12, BackToIdle DEF Throws, ClearedOnThrow
<1>13. CASE UNCHANGED allVars
  BY <1>13 DEF IInv, TypeOK, Generations, AllSound, Listed, InOrder, Passed, InChild, Settled,
               NoHalfModule, MainAfterAll, CacheCurrent, Current, allVars, vars_table, vars_code,
               vars_jit
<1> QED
  BY <1>1, <1>2, <1>3, <1>4, <1>5, <1>6, <1>7, <1>8, <1>9, <1>10, <1>11, <1>12, <1>13 DEF Next

THEOREM Invariance == Spec => []IInv
BY InitIInv, StepIInv, PTL DEF Spec

-----------------------------------------------------------------------------
(* Whatever the host sets and in whatever order, nothing runs while the      *)
(* verifier would reject any installed part (ensureBytecodeVerified).        *)
THEOREM RunsVerifiedHolds == Spec => []RunsVerified
<1>1. IInv => RunsVerified
  BY DEF IInv, Generations, RunsVerified
<1> QED
  BY <1>1, Invariance, PTL

(* Modules are initialised in the order they were added, over any number of  *)
(* runs and failures (initializeModules).                                    *)
THEOREM InOrderHolds == Spec => []InOrder
<1>1. IInv => InOrder
  BY DEF IInv
<1> QED
  BY <1>1, Invariance, PTL

(* The program starts after all of them, keeps no variable of a failed one,  *)
(* and no module is left between two states.                                 *)
THEOREM InitialisationHolds == Spec => [](MainAfterAll /\ NoHalfModule /\ Settled)
<1>1. IInv => MainAfterAll /\ NoHalfModule /\ Settled
  BY DEF IInv
<1> QED
  BY <1>1, Invariance, PTL

(* A JIT never uses code compiled before the functions were replaced.        *)
THEOREM CacheCurrentHolds == Spec => []CacheCurrent
<1>1. IInv => CacheCurrent
  BY DEF IInv
<1> QED
  BY <1>1, Invariance, PTL

(* One accepted pass per change of the program (verificationPassCount).      *)
THEOREM VerifiesOnceHolds == Spec => VerifiesOnce
<1>1. ASSUME IInv, [Next]_allVars
      PROVE  [passes' => accepted # edits]_allVars
  <2> SUFFICES ASSUME passes', Next PROVE accepted # edits
    BY <1>1
  <2>1. Begin \/ Rejected
    BY DEF Next, SetFunctions, SetForeign, AddModule, Installs, Skip, Refuse, BeginModule,
           ChildWrites, Completes, Fails, Start, Ends, Throws
  <2> QED
    BY <1>1, <2>1 DEF Begin, Rejected, Verifies, IInv, Generations
<1> QED
  BY <1>1, Invariance, PTL DEF Spec, VerifiesOnce

(* No initialiser runs twice: Initialized and Failed are final.              *)
THEOREM FinalHolds == Spec => Final
<1>1. ASSUME IInv, [Next]_allVars
      PROVE  [\A m \in Module : state[m] \in {"Initialized", "Failed"} => state'[m] = state[m]]_allVars
  <2> SUFFICES ASSUME Next, NEW m \in Module, state[m] \in {"Initialized", "Failed"}
               PROVE  state'[m] = state[m]
    BY <1>1
  <2>1. state \in [Module -> States]
    BY <1>1 DEF IInv, TypeOK
  <2>2. ASSUME NEW n \in Module, NEW ok \in BOOLEAN, AddModule(n, ok) PROVE state'[m] = state[m]
    BY <2>1, <2>2 DEF AddModule
  <2>3. CASE BeginModule
    BY <2>1, <2>3 DEF BeginModule, Begins
  <2>4. CASE Completes \/ Fails
    BY <1>1, <2>1, <2>4 DEF Completes, Fails, MarkFailed, IInv, InChild
  <2> QED
    BY <2>2, <2>3, <2>4 DEF Next, SetFunctions, SetForeign, Begin, Rejected, Skip, Refuse,
       ChildWrites, Start, Ends, Throws, vars_table
<1> QED
  BY <1>1, Invariance, PTL DEF Spec, Final

(* All of it together, for any number of modules, runs and failures.         *)
THEOREM ModulesInitialisedHolds == Spec => ModulesInitialised
<1>1. Spec => []InitState
  BY RunsVerifiedHolds, InOrderHolds, InitialisationHolds, CacheCurrentHolds, PTL DEF InitState
<1> QED
  BY <1>1, VerifiesOnceHolds, FinalHolds DEF ModulesInitialised
=============================================================================
