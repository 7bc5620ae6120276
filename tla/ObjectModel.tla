---------------------------- MODULE ObjectModel ----------------------------
(***************************************************************************)
(* Classes, from the analysis to a method call: what semantic.cpp accepts  *)
(* of a hierarchy and of a call, the bytecode codegen.cpp emits for the    *)
(* classes and for the entry class, and what the VM does with both.        *)
(* A program is a record                                                   *)
(*   order       the classes, in the order of the text                     *)
(*   super       the name each class extends, "none" without one           *)
(*   visibility  the modifier of each class                                *)
(*   methods     per class, a function from its methods' names             *)
(*   implements  per class, a sequence of interfaces                       *)
(*   interfaces  per interface, [extends, signatures]                      *)
(* and a method is its modifier, the arguments it needs and may take.      *)
(***************************************************************************)
EXTENDS Integers, SequencesExt, FiniteSetsExt, Functions

VARIABLES question, answer

vars == <<question, answer>>

Constructor == "khoi_tao"
Classes(program) == ToSet(program.order)
Has(program, class, name) == class # "none" /\ name \in DOMAIN program.methods[class]

FirstOf(chain, Test(_)) ==
  LET index == SelectInSeq(chain, Test) IN IF index = 0 THEN "none" ELSE chain[index]

(***************************************************************************)
(* The declarations (semantic.cpp).                                        *)
(***************************************************************************)

(* Any class of the program but the class itself; an unknown name and a    *)
(* self-extension are reported and leave the class without one.            *)
Superclass(program, class) ==
  IF program.super[class] \in Classes(program) \ {class} THEN program.super[class] ELSE "none"

(* The class and what it extends, up to the first repetition.              *)
RECURSIVE Lineage(_, _, _)
Lineage(program, class, seen) ==
  IF class = "none" \/ class \in seen THEN <<>>
  ELSE <<class>> \o Lineage(program, Superclass(program, class), seen \cup {class})

Ancestry(program, class) == Lineage(program, class, {})
IsSubclassSymbol(program, derived, base) == base \in ToSet(Ancestry(program, derived))

(* A method without a modifier has its class's; Unspecified is as open as  *)
(* Public everywhere.                                                      *)
EffectiveVisibility(program, class, name) ==
  LET own == program.methods[class][name].visibility
      inherited == IF own = "unspecified" THEN program.visibility[class] ELSE own
  IN  IF inherited = "unspecified" THEN "public" ELSE inherited

LookupMethodSymbol(program, class, name) ==
  FirstOf(Ancestry(program, class), LAMBDA c : Has(program, c, name))

LookupOverriddenMethod(program, class, name) ==
  IF name = Constructor THEN "none"
  ELSE FirstOf(Tail(Ancestry(program, class)),
               LAMBDA c : Has(program, c, name) /\ EffectiveVisibility(program, c, name) # "private")

(* Depth first in three colours; a grey node reached again is a cycle.     *)
RECURSIVE Visit(_, _, _)
Visit(parents, walk, node) ==
  CASE walk.colour[node] = "black" -> walk
    [] walk.colour[node] = "grey" -> [walk EXCEPT !.cycles = Append(@, node)]
    [] OTHER ->
         LET inside == FoldLeft(LAMBDA w, parent : Visit(parents, w, parent),
                                [walk EXCEPT !.colour[node] = "grey"], parents[node])
         IN  [inside EXCEPT !.colour[node] = "black"]

Cycles(parents, nodes) ==
  FoldLeft(LAMBDA walk, node : Visit(parents, walk, node),
           [colour |-> [n \in ToSet(nodes) |-> "white"], cycles |-> <<>>], nodes).cycles

ValidateClassInheritance(program) ==
  Cycles([c \in Classes(program) |->
            IF Superclass(program, c) = "none" THEN <<>> ELSE <<Superclass(program, c)>>],
         program.order)

Rank(visibility) == CASE visibility = "private" -> 0 [] visibility = "protected" -> 1 [] OTHER -> 2

ValidateMethodOverrides(program) ==
  {why \in {"arity", "narrowing"} :
     \E c \in Classes(program) : \E name \in DOMAIN program.methods[c] :
       LET overridden == LookupOverriddenMethod(program, c, name)
       IN  /\ overridden # "none"
           /\ \/ /\ why = "arity"
                 /\ program.methods[c][name].total # program.methods[overridden][name].total
              \/ /\ why = "narrowing"
                 /\ Rank(EffectiveVisibility(program, c, name))
                      < Rank(EffectiveVisibility(program, overridden, name))}

(* An interface's own signatures and those of everything it extends.       *)
RECURSIVE CollectRequired(_, _, _)
CollectRequired(program, interface, visited) ==
  IF interface \in visited THEN {}
  ELSE LET declared == program.interfaces[interface]
       IN  {<<name, declared.signatures[name]>> : name \in DOMAIN declared.signatures}
             \cup UNION {CollectRequired(program, parent, visited \cup {interface})
                           : parent \in ToSet(declared.extends)}

ValidateInterfaceContracts(program) ==
  {why \in {"missing", "hidden"} :
     \E c \in Classes(program) : \E interface \in ToSet(program.implements[c]) :
       \E required \in CollectRequired(program, interface, {}) :
         LET owner == LookupMethodSymbol(program, c, required[1])
             absent == owner = "none" \/ program.methods[owner][required[1]].total # required[2]
         IN  \/ why = "missing" /\ absent
             \/ /\ why = "hidden" /\ ~absent
                /\ EffectiveVisibility(program, owner, required[1]) # "public"}

(* An interface that extends itself is reported where it says so and keeps *)
(* no edge for it; repeated ones are reported there too.                   *)
InterfaceParents(program) ==
  [i \in DOMAIN program.interfaces |-> SelectSeq(program.interfaces[i].extends, LAMBDA p : p # i)]

ExtendsItself(program) ==
  {i \in DOMAIN program.interfaces : i \in ToSet(program.interfaces[i].extends)}

Diagnostics(program) ==
  {"superclass" : c \in {d \in Classes(program) : Superclass(program, d) # program.super[d]}}
    \cup {"duplicate" : c \in {d \in Classes(program) : ~IsInjective(program.implements[d])}}
    \cup {"cycle" : at \in ToSet(ValidateClassInheritance(program))}
    \cup {"interface cycle" : at \in ToSet(Cycles(InterfaceParents(program),
                                                  SetToSeq(DOMAIN program.interfaces)))}
    \cup {"self interface" : i \in ExtendsItself(program)}
    \cup ValidateMethodOverrides(program) \cup ValidateInterfaceContracts(program)

(***************************************************************************)
(* A call: from the methods of class "from" (or "none", the top level),    *)
(* through a variable whose class is known, mình ("self") or gốc           *)
(* ("super"), or the constructor of a class ("new").                       *)
(***************************************************************************)
ReceiverClass(program, call) ==
  CASE call.via = "self" -> call.from
    [] call.via = "super" -> Superclass(program, call.from)
    [] OTHER -> call.class

ValidateMemberAccess(program, owner, name, from) ==
  LET visibility == EffectiveVisibility(program, owner, name)
  IN  \/ visibility = "public"
      \/ from = owner
      \/ visibility = "protected" /\ from # "none" /\ IsSubclassSymbol(program, from, owner)

ArityFits(method, argc) == method.required <= argc /\ argc <= method.total

(* A class inherits no constructor, and the access to one is not checked.  *)
KnownTarget(program, call) ==
  IF call.via = "new" THEN IF Has(program, call.class, Constructor) THEN call.class ELSE "none"
  ELSE LookupMethodSymbol(program, ReceiverClass(program, call), call.name)

ValidateCall(program, call) ==
  LET owner == KnownTarget(program, call)
  IN  IF owner = "none"
      THEN IF call.via = "new" /\ call.argc > 0 THEN {"arity"} ELSE {}
      ELSE {why \in {"access", "arity"} :
              \/ /\ why = "access" /\ call.via # "new"
                 /\ ~ValidateMemberAccess(program, owner, call.name, call.from)
              \/ why = "arity" /\ ~ArityFits(program.methods[owner][call.name], call.argc)}

(***************************************************************************)
(* What codegen.cpp emits.  Names are positions of the pool and functions  *)
(* are numbered, both from zero: a private method is a negated number, a   *)
(* protected one a negated position.                                       *)
(***************************************************************************)
Position(program, class) == CHOOSE i \in 0 .. Len(program.order) - 1 : program.order[i + 1] = class
Names == <<Constructor, "m", "chay">>

EmitMethod(program, emission, class, name) ==
  LET function == Len(emission.functions)
      visibility == EffectiveVisibility(program, class, name)
      position == Position(program, class)
  IN  [emission EXCEPT
         !.functions = Append(@, <<class, name>>),
         !.code = Append(@, [op |-> "THEM_PHUONG_THUC", name |-> name,
                             class |-> IF visibility = "protected" THEN -(position + 1) ELSE position,
                             value |-> IF visibility = "private" THEN -(function + 1) ELSE function])]

EmitClass(program, emission, class) ==
  LET super == Superclass(program, class)
      created == [emission EXCEPT
        !.code = Append(@, [op |-> "TAO_LOP", name |-> "", class |-> Position(program, class),
                            value |-> IF super = "none" THEN 0 ELSE Position(program, super) + 1])]
  IN  FoldLeft(LAMBDA e, name : EmitMethod(program, e, class, name), created,
               SelectSeq(Names, LAMBDA name : Has(program, class, name)))

(* Broken variant: classes in the order of the text. *)
EmitAsWritten(program, emission, class) == EmitClass(program, emission, class)

RECURSIVE EmitClassWithSuperclass(_, _, _)
EmitClassWithSuperclass(program, emission, class) ==
  IF class \in emission.emitted \/ emission.thrown THEN emission
  ELSE IF class \in emission.emitting THEN [emission EXCEPT !.thrown = TRUE]
  ELSE LET super == Superclass(program, class)
           entered == [emission EXCEPT !.emitting = @ \cup {class}]
           above == IF super = "none" THEN entered
                    ELSE EmitClassWithSuperclass(program, entered, super)
       IN  [EmitClass(program, above, class) EXCEPT
              !.emitting = @ \ {class}, !.emitted = @ \cup {class}]

NoEmission == [code |-> <<>>, functions |-> <<>>, emitted |-> {}, emitting |-> {}, thrown |-> FALSE]
EmitProgram(program) ==
  FoldLeft(LAMBDA e, class : EmitClassWithSuperclass(program, e, class), NoEmission, program.order)

(***************************************************************************)
(* The VM.  Its class table maps a class to [super, methods], a method to  *)
(* [function, visibility]; "fault" is the first error.                     *)
(***************************************************************************)
DefineClass(program, vm, instr) ==
  LET class == program.order[instr.class + 1]
      super == IF instr.value = 0 THEN "none" ELSE program.order[instr.value]
  IN  IF class \in DOMAIN vm.table THEN vm
      ELSE IF super # "none" /\ super \notin DOMAIN vm.table THEN [vm EXCEPT !.fault = "class not found"]
      ELSE [vm EXCEPT !.table = (class :> [super |-> super, methods |-> <<>>]) @@ @]

DefineMethod(program, vm, instr) ==
  LET class == program.order[(IF instr.class < 0 THEN -(instr.class + 1) ELSE instr.class) + 1]
      method == [function |-> IF instr.value < 0 THEN -(instr.value + 1) ELSE instr.value,
                 visibility |-> IF instr.value < 0 THEN "private"
                                ELSE IF instr.class < 0 THEN "protected" ELSE "public"]
  IN  IF class \notin DOMAIN vm.table THEN [vm EXCEPT !.fault = "class not found"]
      ELSE [vm EXCEPT !.table[class].methods = (instr.name :> method) @@ @]

ExecuteClasses(program, code) ==
  FoldLeft(LAMBDA vm, instr :
             IF vm.fault # "none" THEN vm
             ELSE IF instr.op = "TAO_LOP" THEN DefineClass(program, vm, instr)
             ELSE DefineMethod(program, vm, instr),
           [table |-> <<>>, fault |-> "none"], code)

RECURSIVE ChainOf(_, _)
ChainOf(table, class) == IF class = "none" THEN <<>> ELSE <<class>> \o ChainOf(table, table[class].super)

IsSubclassOf(table, class, base) == base \in ToSet(ChainOf(table, class))
ResolveMethod(table, class, name) ==
  FirstOf(ChainOf(table, class), LAMBDA c : name \in DOMAIN table[c].methods)

CanAccessRuntimeMethod(table, visibility, caller, owner) ==
  \/ visibility = "public"
  \/ visibility = "private" /\ caller = owner
  \/ visibility = "protected" /\ caller # "none" /\ IsSubclassOf(table, caller, owner)

(* Broken variant: without the rule for hooks. *)
NoHook(table, instance, caller, owner, name) == FALSE

(* A method of a base class may call a protected method it can see where   *)
(* a subclass overrides it.                                                *)
Hook(table, instance, caller, owner, name) ==
  /\ caller # "none"
  /\ table[owner].methods[name].visibility = "protected"
  /\ IsSubclassOf(table, instance, caller)
  /\ IsSubclassOf(table, owner, caller)
  /\ LET declared == ResolveMethod(table, caller, name)
     IN  declared # "none" /\ CanAccessRuntimeMethod(table, table[declared].methods[name].visibility,
                                                     caller, declared)

Outcome(kind, class) == [kind |-> kind, class |-> class]

Invoke(program, emission, vm, owner, name, argc) ==
  LET target == emission.functions[vm.table[owner].methods[name].function + 1]
  IN  IF ArityFits(program.methods[target[1]][target[2]], argc)
      THEN Outcome("ran", target[1]) ELSE Outcome("arity", owner)

(* GOI_PHUONG_THUC on an instance: gốc starts above the class of the       *)
(* running method, everything else at the class of the instance.           *)
CallMethod(program, emission, vm, call) ==
  LET start == IF call.via = "super" THEN vm.table[call.from].super ELSE call.instance
      owner == ResolveMethod(vm.table, start, call.name)
  IN  IF owner = "none" THEN Outcome("method not found", owner)
      ELSE IF /\ ~CanAccessRuntimeMethod(vm.table, vm.table[owner].methods[call.name].visibility,
                                         call.from, owner)
              /\ ~Hook(vm.table, call.instance, call.from, owner, call.name)
      THEN Outcome("access", owner)
      ELSE Invoke(program, emission, vm, owner, call.name, call.argc)

(* TAO_DOI_TUONG: only the class's own constructor runs. *)
CreateObject(program, emission, vm, class, from, argc) ==
  IF Constructor \notin DOMAIN vm.table[class].methods
  THEN IF argc = 0 THEN Outcome("ran", "none") ELSE Outcome("arity", class)
  ELSE IF ~CanAccessRuntimeMethod(vm.table, vm.table[class].methods[Constructor].visibility, from, class)
  THEN Outcome("access", class)
  ELSE Invoke(program, emission, vm, class, Constructor, argc)

RunCall(program, call) ==
  LET emission == EmitProgram(program)
      vm == ExecuteClasses(program, emission.code)
  IN  IF call.via = "new" THEN CreateObject(program, emission, vm, call.class, call.from, call.argc)
      ELSE CallMethod(program, emission, vm, call)

(***************************************************************************)
(* The entry class: what emitProgram refuses, and the two instructions it  *)
(* adds after the classes.                                                 *)
(***************************************************************************)

EntryRefused(program) ==
  LET run == FirstOf(Ancestry(program, "Chinh"), LAMBDA c : Has(program, c, "chay"))
  IN  \/ run = "none" /\ program.super["Chinh"] = "none"
      \/ run # "none" /\ EffectiveVisibility(program, run, "chay") # "public"
      \/ run # "none" /\ program.methods[run]["chay"].required > 0
      \/ Has(program, "Chinh", Constructor) /\ program.methods["Chinh"][Constructor].required > 0

RunEntry(program) ==
  LET emission == EmitProgram(program)
      vm == ExecuteClasses(program, emission.code)
      created == CreateObject(program, emission, vm, "Chinh", "none", 0)
  IN  IF created.kind # "ran" THEN created
      ELSE CallMethod(program, emission, vm,
                      [via |-> "variable", from |-> "none", instance |-> "Chinh",
                       name |-> "chay", argc |-> 0])

(***************************************************************************)
(* Inference of a variable's class, in the order of the text.  Statements  *)
(* assign a new object ("new"), a value the analysis knows nothing of      *)
(* ("unknown"), another variable ("copy") or a number ("other"), maybe     *)
(* under a condition ("maybe"), or call a method that is private in class  *)
(* A and public in B, at once or in a function called at the end           *)
(* ("deferred").                                                           *)
(***************************************************************************)
InferredClassForExpression(inference, s) ==
  CASE s.op = "new" -> s.class [] s.op = "copy" -> inference.class[s.from] [] OTHER -> "none"

UpdateAssignedInstanceClass(inference, s) ==
  LET inferred == InferredClassForExpression(inference, s)
      current == inference.class[s.var]
  IN  IF s.var \in inference.ambiguous \/ inferred = current THEN inference
      ELSE IF current = "none" THEN [inference EXCEPT !.class[s.var] = inferred]
      ELSE [inference EXCEPT !.class[s.var] = "none", !.ambiguous = @ \cup {s.var}]

Infer(statements) ==
  FoldLeftDomain(
    LAMBDA inference, i :
      LET s == statements[i]
      IN  IF s.op # "call" THEN UpdateAssignedInstanceClass(inference, s)
          ELSE IF inference.class[s.var] = "A" THEN [inference EXCEPT !.alarms = @ \cup {i}]
          ELSE inference,
    [class |-> [v \in {"x", "y"} |-> "none"], ambiguous |-> {}, alarms |-> {}], statements)

(* The calls a run gets past, when the conditions of the statements        *)
(* "skipped" are false.  A variable starts as the number 0.                *)
Passed(statements, skipped) ==
  LET order == SelectSeq([i \in DOMAIN statements |-> i],
                         LAMBDA i : statements[i].op # "call" \/ ~statements[i].deferred)
                 \o SelectSeq([i \in DOMAIN statements |-> i],
                              LAMBDA i : statements[i].op = "call" /\ statements[i].deferred)
      Step(run, i) ==
        LET s == statements[i]
        IN  IF run.stopped \/ i \in skipped THEN run
            ELSE CASE s.op \in {"new", "unknown"} -> [run EXCEPT !.value[s.var] = s.class]
                   [] s.op = "copy" -> [run EXCEPT !.value[s.var] = run.value[s.from]]
                   [] s.op = "other" -> [run EXCEPT !.value[s.var] = "number"]
                   [] OTHER -> IF run.value[s.var] = "B" THEN [run EXCEPT !.passed = @ \cup {i}]
                               ELSE [run EXCEPT !.stopped = TRUE]
  IN  FoldLeft(Step, [value |-> [v \in {"x", "y"} |-> "number"], passed |-> {}, stopped |-> FALSE],
               order).passed

-----------------------------------------------------------------------------

AnswerQuestion ==
  /\ answer = <<>>
  /\ answer' = CASE question.kind \in {"hierarchy", "interfaces"} -> <<Diagnostics(question.program)>>
                 [] question.kind \in {"call", "contract"} ->
                      IF Diagnostics(question.program) # {} THEN <<"refused">>
                      ELSE <<ValidateCall(question.program, question.call),
                             RunCall(question.program, question.call)>>
                 [] question.kind = "entry" ->
                      IF Diagnostics(question.program) # {} THEN <<"refused">>
                      ELSE <<EntryRefused(question.program), RunEntry(question.program)>>
                 [] question.kind = "inference" -> <<Infer(question.statements).alarms>>
  /\ UNCHANGED question

-----------------------------------------------------------------------------

(* Every cycle of classes is reported once, and of interfaces when there   *)
(* is one: validateClassInheritance, validateInterfaceInheritance.         *)
CyclesFound ==
  /\ question.kind = "hierarchy" =>
       LET program == question.program
           circular == {c \in Classes(program) :
                          c \in ToSet(Ancestry(program, Superclass(program, c)))}
       IN  Len(ValidateClassInheritance(program))
             = Cardinality({ToSet(Ancestry(program, c)) : c \in circular})
  /\ question.kind = "interfaces" =>
       LET parents == InterfaceParents(question.program)
           nodes == DOMAIN parents
           closed(S) == \A n \in nodes : ToSet(parents[n]) \subseteq S => n \in S
       IN  (Cycles(parents, SetToSeq(nodes)) = <<>>) <=> \A S \in SUBSET nodes : closed(S) => S = nodes

(* An accepted hierarchy is created whole whatever the order of the text,  *)
(* each class above its subclasses, with the superclass, the methods and   *)
(* the visibilities of its declaration.                                    *)
HierarchyBuilt ==
  question.kind \in {"hierarchy", "call"} /\ Diagnostics(question.program) = {} =>
    LET program == question.program
        emission == EmitProgram(program)
        vm == ExecuteClasses(program, emission.code)
    IN  /\ ~emission.thrown /\ vm.fault = "none"
        /\ DOMAIN vm.table = Classes(program)
        /\ \A c \in Classes(program) :
             /\ vm.table[c].super = program.super[c]
             /\ DOMAIN vm.table[c].methods = DOMAIN program.methods[c]
             /\ \A name \in DOMAIN program.methods[c] :
                  vm.table[c].methods[name].visibility = EffectiveVisibility(program, c, name)

Answered(kind) == question.kind = kind /\ Len(answer) = 2

(* A call through mình, gốc or a constructor that the analysis accepts     *)
(* with a known target runs in that method or in one below it.  What can   *)
(* fail: a method below that is private or needs more arguments, or takes  *)
(* the place of a private one, and a constructor that is not public.       *)
AcceptedCallsRun ==
  Answered("call") /\ question.call.via # "variable" /\ answer[1] = {} =>
    LET program == question.program
        call == question.call
        known == KnownTarget(program, call)
        outcome == answer[2]
    IN  CASE call.via = "new" ->
               outcome.kind = "ran" <=> \/ known = "none"
                                        \/ ValidateMemberAccess(program, known, Constructor, call.from)
          [] known = "none" -> outcome.class = "none" \/ IsSubclassSymbol(program, outcome.class, call.from)
          [] call.via = "super" -> outcome = Outcome("ran", known)
          [] OTHER ->
               /\ outcome.class # "none" /\ IsSubclassSymbol(program, outcome.class, known)
               /\ CASE outcome.kind = "ran" -> TRUE
                    [] outcome.kind = "access" ->
                         /\ outcome.class # known
                         /\ EffectiveVisibility(program, outcome.class, call.name) = "private"
                    [] outcome.kind = "arity" ->
                         \/ program.methods[outcome.class][call.name].required > call.argc
                         \/ EffectiveVisibility(program, known, call.name) = "private"

(* On an object whose class is known exactly the analysis and the VM agree *)
(* on every call, but for a hook called from a base class.                 *)
VariableCallsAgree ==
  Answered("call") /\ question.call.via = "variable" /\ KnownTarget(question.program, question.call) # "none" =>
    LET program == question.program
        call == question.call
        known == KnownTarget(program, call)
    IN  /\ answer[2].class = known
        /\ "arity" \in answer[1] => answer[2].kind \in {"arity", "access"}
        /\ answer[1] = {} => answer[2].kind = "ran"
        /\ answer[1] = {"access"} =>
             \/ answer[2].kind = "access"
             \/ /\ EffectiveVisibility(program, known, call.name) = "protected"
                /\ \E base \in ToSet(Ancestry(program, call.from)) :
                     /\ base \in ToSet(Ancestry(program, known)) \ {known}
                     /\ Has(program, base, call.name)

(* Every object of an accepted class, and of its subclasses, answers every *)
(* method of the interfaces the class implements, from anywhere.           *)
ContractsKept ==
  Answered("contract") => answer[2].kind = "ran"

(* What emitProgram refuses of the entry class would fail when run; what   *)
(* it accepts runs unless no class has the method, or the constructor is   *)
(* hidden.                                                                 *)
EntryStarts ==
  Answered("entry") =>
    LET program == question.program
    IN  answer[2].kind = "ran" <=>
          /\ ~answer[1]
          /\ LookupMethodSymbol(program, "Chinh", "chay") # "none"
          /\ Has(program, "Chinh", Constructor) =>
               EffectiveVisibility(program, "Chinh", Constructor) = "public"

(* A call reported through an inferred class fails in every run that       *)
(* reaches it, when each variable's first value had a known class and a    *)
(* deferred call's variable is not assigned again.                         *)
AlarmsAreReal ==
  question.kind = "inference" =>
    LET statements == question.statements
        Assigns(i, v) == statements[i].op # "call" /\ statements[i].var = v
        firstKnown(i) ==
          \A v \in {"x", "y"} : \A j \in 1 .. i - 1 :
            Assigns(j, v) /\ (\A k \in 1 .. j - 1 : ~Assigns(k, v)) =>
              Infer(SubSeq(statements, 1, j)).class[v] # "none"
        again(i) == statements[i].deferred
                      /\ \E j \in i + 1 .. Len(statements) : Assigns(j, statements[i].var)
        maybe == {i \in DOMAIN statements : statements[i].op # "call" /\ statements[i].maybe}
    IN  \A i \in Infer(statements).alarms :
          firstKnown(i) /\ ~again(i) =>
            \A skipped \in SUBSET maybe : i \notin Passed(statements, skipped)
=============================================================================
