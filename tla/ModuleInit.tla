----------------------------- MODULE ModuleInit -----------------------------
(* One VM as its host drives it: install functions, foreign descriptors and  *)
(* module initialisers, run, reset, run again.  Each run verifies what       *)
(* changed since the last verification, runs the initialisers that never     *)
(* ran, each in a child VM, and then the program itself, interpreted or      *)
(* through one of the two JITs (src/runtime/vm.cpp, src/runtime/module.cpp). *)
EXTENDS Integers, Sequences, FiniteSets

CONSTANTS
    Module,     \* identities a host may add
    Width,      \* the generation counter counts modulo Width (2^64 in the build)
    MaxEdits    \* bound: how often the host changes the program

ASSUME WidthAssumption == Width \in Nat /\ Width > 2
ASSUME EditsAssumption == MaxEdits \in Nat
ASSUME PartsApart == {"functions", "foreign"} \cap Module = {}

VARIABLES
    gen,        \* programGeneration_
    verified,   \* verifiedGeneration_
    passes,     \* verificationPassCount_, as "some pass happened in this step"
    sound,      \* would the verifier accept what is installed now, by part
    accepted,   \* ghost: the edits at the last accepted pass, -1 before
    edits,      \* how often functions, descriptors or initialisers were set
    order,      \* moduleTable.order_
    state,      \* modules_[m].state, "absent" before the module is added
    at,         \* where run() is: idle, init, child or main
    cursor,     \* the position of initializeModules in order
    vars,       \* the modules whose globals are in variables and classTable
    child,      \* the same of the child VM
    frames,     \* executionStack is not empty
    compiled,   \* jitPrograms_ / machinePrograms_: the edits they were built at, -1 none
    active      \* jitActive_ / machineJitActive_

vars_table == <<order, state, cursor, vars, child>>
vars_code == <<gen, verified, passes, accepted, sound, edits>>
vars_jit == <<compiled, active>>
allVars == <<vars_table, vars_code, vars_jit, at, frames>>

Jit == {"jit", "machine"}
States == {"absent", "Uninitialized", "Initializing", "Initialized", "Failed"}
Parts == {"functions", "foreign"} \cup Module
AllSound == \A p \in Parts : sound[p]

Init ==
    /\ gen = 1 /\ verified = 0 /\ passes = FALSE /\ edits = 0 /\ accepted = -1
    /\ sound = [p \in Parts |-> TRUE]
    /\ order = <<>> /\ state = [m \in Module |-> "absent"]
    /\ at = "idle" /\ cursor = 1 /\ vars = {} /\ child = {} /\ frames = FALSE
    /\ compiled = [k \in Jit |-> -1] /\ active = {}
-----------------------------------------------------------------------------
(* invalidateBytecodeVerification: 0 stays reserved for "never verified"     *)
Invalidate ==
    LET wraps == gen + 1 = Width
    IN  /\ gen' = IF wraps THEN 1 ELSE gen + 1
        /\ verified' = IF wraps THEN 0 ELSE verified
Installs(part, ok) ==
    /\ edits < MaxEdits /\ edits' = edits + 1
    /\ sound' = [sound EXCEPT ![part] = ok]
    /\ passes' = FALSE /\ UNCHANGED accepted
    /\ Invalidate

SetFunctions(ok) ==
    /\ at = "idle" /\ ~frames /\ Installs("functions", ok)
    /\ UNCHANGED <<vars_table, vars_jit, at, frames>>
SetForeign(ok) ==
    /\ at = "idle" /\ ~frames /\ Installs("foreign", ok)
    /\ UNCHANGED <<vars_table, vars_jit, at, frames>>
(* addModuleInitializer: an identity that is known is refused, unchanged     *)
AddModule(m, ok) ==
    /\ at = "idle" /\ state[m] = "absent"
    /\ order' = Append(order, m)
    /\ state' = [state EXCEPT ![m] = "Uninitialized"]
    /\ Installs(m, ok)
    /\ UNCHANGED <<cursor, vars, child, vars_jit, at, frames>>
-----------------------------------------------------------------------------
Recorded == verified' = gen
(* run(): verification comes first and throws before anything is executed    *)
Verifies == gen # verified
Begin ==
    /\ at = "idle" /\ ~frames
    /\ ~Verifies \/ AllSound
    /\ at' = "init" /\ cursor' = 1
    /\ passes' = Verifies
    /\ IF Verifies THEN Recorded /\ accepted' = edits ELSE UNCHANGED <<verified, accepted>>
    /\ UNCHANGED <<gen, sound, edits, order, state, vars, child, vars_jit, frames>>
Rejected ==
    /\ at = "idle" /\ ~frames /\ Verifies /\ ~AllSound
    /\ passes' = TRUE
    /\ UNCHANGED <<gen, verified, accepted, sound, edits, vars_table, vars_jit, at, frames>>
-----------------------------------------------------------------------------
(* initializeModules                                                         *)
Current == order[cursor]
Retries == state[Current] \in {"Uninitialized", "Failed"}
Begins == state[Current] = "Uninitialized"
Skips == state[Current] = "Initialized"
Skip ==
    /\ at = "init" /\ cursor <= Len(order) /\ Skips
    /\ cursor' = cursor + 1
    /\ passes' = FALSE
    /\ UNCHANGED <<gen, verified, accepted, sound, edits, order, state, vars, child, vars_jit, at, frames>>
(* a module that failed, or that begin() refuses, ends the run               *)
Refuse ==
    /\ at = "init" /\ cursor <= Len(order) /\ ~Skips
    /\ ~Begins
    /\ at' = "idle" /\ passes' = FALSE
    /\ UNCHANGED <<gen, verified, accepted, sound, edits, vars_table, vars_jit, frames>>
BeginModule ==
    /\ at = "init" /\ cursor <= Len(order) /\ Begins
    /\ state' = [state EXCEPT ![Current] = "Initializing"]
    /\ child' = vars /\ at' = "child" /\ passes' = FALSE
    /\ UNCHANGED <<gen, verified, accepted, sound, edits, order, cursor, vars, vars_jit, frames>>
(* the child VM works on copies of variables and classTable                  *)
ChildWrites ==
    /\ at = "child" /\ Current \notin child
    /\ child' = child \cup {Current} /\ passes' = FALSE
    /\ UNCHANGED <<gen, verified, accepted, sound, edits, order, state, cursor, vars, vars_jit, at, frames>>
Completes ==
    /\ at = "child"
    /\ vars' = child /\ child' = {}
    /\ state' = [state EXCEPT ![Current] = "Initialized"]
    /\ cursor' = cursor + 1 /\ at' = "init" /\ passes' = FALSE
    /\ UNCHANGED <<gen, verified, accepted, sound, edits, order, vars_jit, frames>>
Dropped == UNCHANGED vars
MarkFailed == state' = [state EXCEPT ![Current] = "Failed"]
(* catch (...): every exception of the child, cancellation included          *)
Fails ==
    /\ at = "child"
    /\ MarkFailed /\ Dropped /\ child' = {}
    /\ at' = "idle" /\ passes' = FALSE
    /\ UNCHANGED <<gen, verified, accepted, sound, edits, order, cursor, vars_jit, frames>>
-----------------------------------------------------------------------------
(* the program: VPP_ENABLE_MACHINE_JIT, VPP_ENABLE_JIT or neither            *)
Start(mode) ==
    /\ at = "init" /\ cursor > Len(order)
    /\ compiled' = IF mode = "plain" THEN compiled ELSE [compiled EXCEPT ![mode] = edits]
    /\ active' = IF mode = "plain" THEN active ELSE active \cup {mode}
    /\ at' = "main" /\ passes' = FALSE
    /\ UNCHANGED <<gen, verified, accepted, sound, edits, vars_table, frames>>
Cleared ==
    /\ compiled' = [k \in Jit |-> IF k \in active THEN -1 ELSE compiled[k]]
    /\ active' = {}
(* every exit of runJitCompiled and runMachineCompiled clears; an exception  *)
(* that is neither a LanguageException nor a RuntimeError unwinds no frame   *)
ClearedOnThrow == Cleared
Ends ==
    /\ at = "main" /\ Cleared /\ at' = "idle" /\ passes' = FALSE
    /\ UNCHANGED <<gen, verified, accepted, sound, edits, vars_table, frames>>
Throws(unwound) ==
    /\ at = "main" /\ ClearedOnThrow /\ at' = "idle" /\ passes' = FALSE
    /\ frames' = ~unwound
    /\ UNCHANGED <<gen, verified, accepted, sound, edits, vars_table>>

Next ==
    \/ \E ok \in BOOLEAN :
        \/ SetFunctions(ok) \/ SetForeign(ok)
        \/ \E m \in Module : AddModule(m, ok)
    \/ Begin \/ Rejected
    \/ Skip \/ Refuse \/ BeginModule \/ ChildWrites \/ Completes \/ Fails
    \/ \E mode \in Jit \cup {"plain"} : Start(mode)
    \/ Ends \/ \E unwound \in BOOLEAN : Throws(unwound)

Spec == Init /\ [][Next]_allVars
-----------------------------------------------------------------------------
(* The types of the variables.                                               *)
TypeOK ==
    /\ gen \in 0 .. Width - 1 /\ verified \in 0 .. Width - 1
    /\ passes \in BOOLEAN /\ sound \in [Parts -> BOOLEAN] /\ edits \in 0 .. MaxEdits
    /\ accepted \in -1 .. MaxEdits
    /\ order \in Seq(Module) /\ state \in [Module -> States]
    /\ at \in {"idle", "init", "child", "main"} /\ cursor \in Nat \ {0}
    /\ vars \subseteq Module /\ child \subseteq Module /\ frames \in BOOLEAN
    /\ compiled \in [Jit -> -1 .. MaxEdits] /\ active \subseteq Jit

(* Nothing runs, not even an initialiser that is sound itself, while any     *)
(* installed part is one the verifier rejects: the generation that counts    *)
(* changes never meets a stale verified generation, not after a wrap either  *)
(* (ensureBytecodeVerified, invalidateBytecodeVerification).                 *)
RunsVerified == at # "idle" => AllSound

(* A pass over the bytecode, good or bad, happens only when something was    *)
(* set since the last pass that accepted: a run repeated costs none.         *)
VerifiesOnce == [][passes' => accepted # edits]_allVars

(* A module leaves Uninitialized only when every module added before it is   *)
(* Initialized, across runs and after failures too.                          *)
InOrder ==
    \A i, j \in 1 .. Len(order) : i < j =>
        \/ state[order[j]] = "Uninitialized"
        \/ state[order[i]] = "Initialized"

(* The program starts only when every module is Initialized.                 *)
MainAfterAll == at = "main" => \A m \in Module : state[m] \in {"absent", "Initialized"}

(* Globals of a module reach the parent only when its initialiser completed: *)
(* what a failing one wrote is dropped with its child VM.                    *)
NoHalfModule == \A m \in vars : state[m] = "Initialized"

(* Between runs no module is left Initializing, where neither a later run    *)
(* nor begin() could ever take it up.                                        *)
Settled ==
    \A m \in Module : state[m] = "Initializing" =>
        at = "child" /\ cursor <= Len(order) /\ m = Current

(* While the program runs, each JIT cache that is consulted was built from   *)
(* the functions installed now; between runs none is consulted, whatever the *)
(* last run ended with and whichever JIT it used.                            *)
CacheCurrent ==
    /\ \A k \in active : at = "main" /\ compiled[k] = edits
    /\ at # "main" => active = {}

(* An initialiser never runs again: a module that is Initialized or Failed   *)
(* stays so.                                                                 *)
Final == [][\A m \in Module : state[m] \in {"Initialized", "Failed"} => state'[m] = state[m]]_allVars

(* Initialisation over any number of runs: modules in order, each once, on   *)
(* verified code, and nothing left half done.                                *)
InitState == RunsVerified /\ InOrder /\ MainAfterAll /\ NoHalfModule /\ Settled /\ CacheCurrent
ModulesInitialised == []InitState /\ VerifiesOnce /\ Final
=============================================================================
