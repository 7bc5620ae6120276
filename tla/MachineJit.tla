----------------------------- MODULE MachineJit -----------------------------
(***************************************************************************)
(* The three engines of the VM over one bytecode: the interpreter, the      *)
(* closure JIT and the machine JIT, whose native regions, branches, leaf    *)
(* functions and call bundles replace stretches of the interpreter loop.    *)
(* Opcodes keep their names without OP_.  A value is an int of MinInt to    *)
(* MaxInt, or a text.  Native code is a list of operations on temporaries:  *)
(* registers w9 to w15 of AArch64, slots of the native frame of x86-64.     *)
(* Left out: doubles and boxed integers, which no native path takes, and    *)
(* switch frames, around which regions are not used.                        *)
(***************************************************************************)
EXTENDS Integers, SequencesExt, FiniteSetsExt, Functions

CONSTANTS MinInt, MaxInt,   \* the range of int
          Temporaries,      \* 7 in the code
          MaxCode,          \* instructions compiled at once: 96 in the code
          MaxNative,        \* depth of native calls: 32 in the code
          Fuel              \* steps a run may take here

VARIABLES question, answer

vars == <<question, answer>>

Ints == MinInt .. MaxInt
IntValue(v) == [kind |-> "int", v |-> v]
Text == [kind |-> "text", v |-> 0]
IsInt(value) == value.kind = "int"
Bit(b) == IF b THEN 1 ELSE 0

Instr(op, a, b) == [op |-> op, a |-> a, b |-> b]
Op(op) == Instr(op, 0, 0)

Arithmetic == {"CONG", "TRU", "NHAN"}
Comparisons == {"SO_SANH_BANG", "NHO_HON"}
Logic == {"Logic_VA", "Logic_HOAC"}
Binary == Arithmetic \cup Comparisons \cup Logic
Constants == {"BIEN_SO", "DUNG_GIA_TRI", "SAI_GIA_TRI"}
Negations == {"KHONG", "PHU_DINH"}

ConstantOf(instr) ==
  CASE instr.op = "BIEN_SO" -> instr.a [] instr.op = "DUNG_GIA_TRI" -> 1 [] OTHER -> 0

-----------------------------------------------------------------------------
(* What the operators of the language give.                                 *)

WrapRuntimeInt32(v) == ((v - MinInt) % (MaxInt - MinInt + 1)) + MinInt

Exact(op, a, b) ==
  CASE op = "CONG" -> a + b
    [] op = "TRU" -> a - b
    [] op = "NHAN" -> a * b
    [] op = "SO_SANH_BANG" -> Bit(a = b)
    [] op = "NHO_HON" -> Bit(a < b)
    [] op = "Logic_VA" -> Bit(a # 0 /\ b # 0)
    [] op = "Logic_HOAC" -> Bit(a # 0 \/ b # 0)

Truthy(value) == ~IsInt(value) \/ value.v # 0

(* A text is never empty here, and all texts are equal: what is printed of   *)
(* them is not looked at.  A set of at most one value; none is a fault.     *)
EvaluateBinaryOperator(op, a, b) ==
  CASE IsInt(a) /\ IsInt(b) -> {IntValue(WrapRuntimeInt32(Exact(op, a.v, b.v)))}
    [] op \in Logic -> {IntValue(Exact(op, Bit(Truthy(a)), Bit(Truthy(b))))}
    [] op = "SO_SANH_BANG" -> {IntValue(Bit(a.kind = b.kind))}
    [] op = "CONG" -> {Text}
    [] op = "NHO_HON" /\ a.kind = b.kind -> {IntValue(0)}
    [] OTHER -> {}

Negated(op, value) ==
  IF op = "KHONG" /\ ~IsInt(value) THEN {} ELSE {IntValue(Bit(~Truthy(value)))}

-----------------------------------------------------------------------------
(* The emitters.  Depth counts the temporaries in use; operations on the    *)
(* topmost ones are checked for overflow where the caller asks for it.      *)

Push(e, what, value) ==
  [e EXCEPT !.depth = @ + 1, !.words = Append(@, [do |-> what, to |-> e.depth + 1, of |-> value])]
Negate(e) == [e EXCEPT !.words = Append(@, [do |-> "negate", to |-> e.depth])]
EmitBinary(e, op, checked) ==
  [e EXCEPT !.depth = @ - 1,
            !.words = Append(@, [do |-> op, to |-> e.depth - 1, checked |-> checked])]
EmitCall(e, id, argc) ==
  LET result == e.depth - argc + 1
  IN  [e EXCEPT !.depth = result, !.calls = Append(@, [callee |-> id, argc |-> argc]),
                !.words = Append(@, [do |-> "call", to |-> result, of |-> id, argc |-> argc])]
Result(e) == [e EXCEPT !.words = Append(@, [do |-> "return", to |-> e.depth])]

Blank == [depth |-> 0, words |-> <<>>, calls |-> <<>>, ok |-> TRUE]

(* Parameters are bound in order, each perhaps just after its own slot was  *)
(* initialised, at the head of the function: a set of at most one           *)
(* [slots, next].                                                           *)
BindOne(code, at) ==
  LET bare == [ok |-> FALSE, slots |-> at.slots, next |-> at.next]
      skip == /\ at.next + 1 <= Len(code)
              /\ code[at.next].op = "KHOI_TAO" /\ code[at.next + 1].op = "PARAM"
              /\ code[at.next].a = code[at.next + 1].a
      pos == at.next + Bit(skip)
  IN  IF ~at.ok \/ pos > Len(code) THEN bare
      ELSE [ok |-> /\ code[pos].op = "PARAM" /\ code[pos].b = Len(at.slots)
                   /\ \A i \in DOMAIN at.slots : at.slots[i] # code[pos].a,
            slots |-> Append(at.slots, code[pos].a), next |-> pos + 1]

Parameters(code, argc) ==
  LET first == [ok |-> TRUE, slots |-> <<>>, next |-> 1 + Bit(code[1].op = "MO_KHOI")]
      one == BindOne(code, first)
  IN  CASE argc = 0 -> first [] argc = 1 -> one [] OTHER -> BindOne(code, one)

EmitOne(e, instr, slots, allowCalls) ==
  LET refused == [e EXCEPT !.ok = FALSE]
      param == {i \in DOMAIN slots : slots[i] = instr.a}
  IN  CASE ~e.ok -> e
        [] instr.op \in Constants /\ e.depth < Temporaries -> Push(e, "constant", ConstantOf(instr))
        [] instr.op = "TEN_BIEN_GIA_TRI" /\ e.depth < Temporaries /\ param # {} ->
             Push(e, "parameter", CHOOSE i \in param : TRUE)
        [] instr.op \in Negations /\ e.depth >= 1 -> Negate(e)
        [] instr.op \in Binary /\ e.depth >= 2 -> EmitBinary(e, instr.op, TRUE)
        [] instr.op = "GOI" /\ allowCalls /\ instr.a >= 0 /\ instr.b <= 2 /\ e.depth >= instr.b
             /\ ~(instr.b = 0 /\ e.depth = Temporaries) -> EmitCall(e, instr.a, instr.b)
        [] OTHER -> refused

(* A straight line of supported instructions up to the first return, which  *)
(* finds one value; only the end of the block may follow it.                *)
CompileCandidate(code, argc, allowCalls) ==
  LET head == Parameters(code, argc)
      returns == {i \in DOMAIN code : i >= head.next /\ code[i].op = "TRA_VE"}
      stop == Min(returns)
      body == FoldLeft(LAMBDA e, instr : EmitOne(e, instr, head.slots, allowCalls), Blank,
                       SubSeq(code, head.next, stop - 1))
  IN  IF /\ code # <<>> /\ Len(code) <= MaxCode /\ head.ok /\ returns # {}
         /\ body.ok /\ body.depth = 1
         /\ \/ stop = Len(code)
            \/ stop = Len(code) - 1 /\ code[stop + 1].op = "DONG_KHOI"
      THEN {[words |-> Result(body).words, calls |-> body.calls, argc |-> argc]}
      ELSE {}

(* The backends follow the same rules, with calls and without.              *)
CompileCallCandidate(code, argc) == CompileCandidate(code, argc, TRUE)
TryCompileLeaf(code, argc) == CompileCandidate(code, argc, FALSE)

(* The smallest number of arguments that compiles.                          *)
FirstThatCompiles(Compile(_), argcs) ==
  LET fit == {argc \in argcs : Compile(argc) # {}}
  IN  IF fit = {} THEN {} ELSE Compile(Min(fit))

(* Functions reached through calls, when all of them compiled, take what is *)
(* passed to them and end within the native depth: depth 0 means refused.   *)
RECURSIVE NativeDepth(_, _, _)
NativeDepth(candidates, id, active) ==
  IF id \in active \/ id \notin DOMAIN candidates THEN 0
  ELSE LET calls == ToSet(candidates[id].calls)
           depthOf(call) == NativeDepth(candidates, call.callee, active \cup {id})
       IN  IF /\ \A call \in calls :
                   /\ depthOf(call) \in 1 .. MaxNative - 1
                   /\ candidates[call.callee].argc = call.argc
           THEN Max({1} \cup {1 + depthOf(call) : call \in calls}) ELSE 0

TryCompileCallBundle(functions) ==
  LET compile(id) == FirstThatCompiles(LAMBDA argc : CompileCallCandidate(functions[id], argc), 0 .. 2)
      compiled == {id \in DOMAIN functions : compile(id) # {}}
      candidates == [id \in compiled |-> CHOOSE c \in compile(id) : TRUE]
      depth == [id \in compiled |-> NativeDepth(candidates, id, {})]
  IN  [id \in {i \in compiled : depth[i] > 0} |->
         [words |-> candidates[id].words, depth |-> depth[id],
          hasCalls |-> candidates[id].calls # <<>>]]

(* A region: constants and operators from start on, as far as no jump leads *)
(* in and no result leaves int, cut after the last operator that left one   *)
(* value: a set of at most one [words, length].                             *)
RegionStep(r, instr, pos, start, entries) ==
  LET depth == Len(r.values)
      value == Exact(instr.op, r.values[depth - 1], r.values[depth])
      grown == CASE r.over \/ (pos > start /\ pos \in entries) -> <<>>
                 [] instr.op \in Constants /\ depth < Temporaries -> <<Append(r.values, ConstantOf(instr))>>
                 [] instr.op \in Binary /\ depth >= 2 ->
                      IF value \in Ints THEN <<Append(SubSeq(r.values, 1, depth - 2), value)>> ELSE <<>>
                 [] OTHER -> <<>>
      worked == r.worked \/ instr.op \in Binary
  IN  IF grown = <<>> THEN [r EXCEPT !.over = TRUE]
      ELSE [r EXCEPT !.values = grown[1], !.worked = worked,
                     !.last = IF worked /\ Len(grown[1]) = 1 THEN pos + 1 ELSE @]

TryCompile(code, start, entries) ==
  LET scan == FoldLeft(LAMBDA r, pos : RegionStep(r, code[pos], pos, start, entries),
                       [values |-> <<>>, worked |-> FALSE, last |-> start, over |-> FALSE],
                       [i \in 1 .. Min({Len(code) - start + 1, MaxCode}) |-> start + i - 1])
      emit(e, instr) == IF instr.op \in Constants THEN Push(e, "constant", ConstantOf(instr))
                        ELSE EmitBinary(e, instr.op, FALSE)
  IN  IF scan.last = start THEN {}
      ELSE {[words |-> Result(FoldLeft(emit, Blank, SubSeq(code, start, scan.last - 1))).words,
             length |-> scan.last - start]}

TryCompileBinary(op) ==
  LET operands == Push(Push(Blank, "parameter", 1), "parameter", 2)
  IN  Result(EmitBinary(operands, op, FALSE)).words

-----------------------------------------------------------------------------
(* Native execution: what a temporary holds is an int; the overflow         *)
(* sentinel ends all calls in progress.  On AArch64 a callee uses the same  *)
(* registers, and the caller keeps its own on the native stack.             *)

SavedAcrossCall == 1 .. Temporaries

RECURSIVE Native(_, _, _, _, _, _)
Native(backend, bundle, words, i, args, temps) ==
  LET word == words[i]
      continue(value) == Native(backend, bundle, words, i + 1, args, [temps EXCEPT ![word.to] = value])
      overflow == [ok |-> FALSE, value |-> 0, temps |-> temps]
  IN  CASE word.do = "constant" -> continue(word.of)
        [] word.do = "parameter" -> continue(args[word.of])
        [] word.do = "negate" -> continue(Bit(temps[word.to] = 0))
        [] word.do = "return" -> [ok |-> TRUE, value |-> temps[word.to], temps |-> temps]
        [] word.do = "call" ->
             LET passed == [k \in 1 .. 2 |-> IF k <= word.argc THEN temps[word.to + k - 1] ELSE 0]
                 callee == Native(backend, bundle, bundle[word.of].words, 1, passed,
                                  IF backend = "aarch64" THEN temps ELSE [t \in 1 .. Temporaries |-> 0])
                 kept == [t \in 1 .. Temporaries |->
                            IF backend = "x64" \/ t \in SavedAcrossCall THEN temps[t] ELSE callee.temps[t]]
             IN  IF ~callee.ok THEN overflow
                 ELSE Native(backend, bundle, words, i + 1, args, [kept EXCEPT ![word.to] = callee.value])
        [] OTHER ->
             LET value == Exact(word.do, temps[word.to], temps[word.to + 1])
             IN  IF word.checked /\ value \notin Ints THEN overflow
                 ELSE continue(WrapRuntimeInt32(value))

RunNative(backend, bundle, words, args) ==
  Native(backend, bundle, words, 1, args, [t \in 1 .. Temporaries |-> 0])

-----------------------------------------------------------------------------
(* The VM.  A program has the function 0, its main code, and others by id.  *)
(* A frame is an explicit execution context; what is compiled is made once  *)
(* before the loop starts.                                                  *)

Entries(code) ==
  {code[i].a : i \in {i \in DOMAIN code : code[i].op \in {"JUMP", "JUMP_IF_FALSE", "THU"}}}
    \cap DOMAIN code

RECURSIVE RegionsFrom(_, _)
RegionsFrom(code, index) ==
  IF index > Len(code) THEN <<>>
  ELSE LET region == TryCompile(code, index, Entries(code))
       IN  IF region = {} THEN RegionsFrom(code, index + 1)
           ELSE LET r == CHOOSE x \in region : TRUE
                IN  (index :> r) @@ RegionsFrom(code, index + r.length)

RunMachineCompiled(program) ==
  LET functions == [id \in DOMAIN program \ {0} |-> program[id]]
      leaf(id) == FirstThatCompiles(LAMBDA argc : TryCompileLeaf(program[id], argc), 0 .. 2)
      leaves == {id \in DOMAIN functions : leaf(id) # {}}
  IN  [regions |-> [id \in DOMAIN program |-> RegionsFrom(program[id], 1)],
       bundle |-> TryCompileCallBundle(functions),
       leaves |-> [id \in leaves |-> (CHOOSE c \in leaf(id) : TRUE).words]]

Frame(id, args) == [id |-> id, pc |-> 1, stack |-> <<>>, locals |-> <<>>, args |-> args, tries |-> <<>>]

TopFrame(s) == s.frames[Len(s.frames)]
WithTop(s, frame) == [s EXCEPT !.frames[Len(s.frames)] = frame]
Below(stack, n) == SubSeq(stack, 1, Len(stack) - n)

(* An error of the runtime ends the run: handlers get thrown values only.   *)
Raise(s, error) == [s EXCEPT !.ended = error]

(* A thrown value goes to the nearest handler of the frame, or of a caller. *)
RECURSIVE Throw(_, _)
Throw(s, value) ==
  LET f == TopFrame(s)
      handler == f.tries[Len(f.tries)]
  IN  IF f.tries # <<>>
      THEN WithTop(s, [f EXCEPT !.pc = handler.to, !.tries = Below(@, 1),
                                !.stack = Append(SubSeq(@, 1, Min({handler.height, Len(@)})), value)])
      ELSE IF Len(s.frames) = 1 THEN Raise(s, "thrown")
      ELSE Throw([s EXCEPT !.frames = Below(@, 1)], value)

(* The loop's advance past an instruction, with the new operand stack.      *)
Then(s, stack) == LET f == TopFrame(s) IN WithTop(s, [f EXCEPT !.stack = stack, !.pc = @ + 1])

CompleteFunctionCall(s) ==
  LET f == TopFrame(s)
      caller == [s EXCEPT !.frames = Below(@, 1)]
  IN  IF Len(s.frames) = 1 THEN [s EXCEPT !.ended = "end"]
      ELSE Then(caller, TopFrame(caller).stack
                          \o (IF f.stack = <<>> THEN <<>> ELSE <<f.stack[Len(f.stack)]>>))

Arity(code) == Max({0} \cup {code[i].b + 1 : i \in {i \in DOMAIN code : code[i].op = "PARAM"}})

(* Broken variant: the frame of the root is not counted. *)
FitsBelow(depth, called, most) == depth - 1 <= most - called
FitsBudget(depth, called, most) == depth <= most - called

(* A call: the limit of the depth, the function, its arity, and then native *)
(* code where there is some for int arguments; an overflow starts over in   *)
(* the interpreter.                                                         *)
NativeResult(q, jit, id, args, called) ==
  LET ints == [k \in 1 .. 2 |-> IF k <= Len(args) THEN args[k].v ELSE 0]
      run(words) == RunNative(q.backend, jit.bundle, words, ints)
      bundled == id \in DOMAIN jit.bundle /\ jit.bundle[id].hasCalls
                   /\ FitsBudget(jit.bundle[id].depth, called, q.maxCallDepth)
      tries == (IF bundled THEN <<run(jit.bundle[id].words)>> ELSE <<>>)
                 \o (IF id \in DOMAIN jit.leaves THEN <<run(jit.leaves[id])>> ELSE <<>>)
  IN  IF \A k \in DOMAIN args : IsInt(args[k])
      THEN {tries[k].value : k \in {k \in DOMAIN tries : tries[k].ok}} ELSE {}

CallVmFunction(q, jit, s, instr) ==
  LET f == TopFrame(s)
      called == Len(s.frames) - 1
      rest == Below(f.stack, instr.b)
      args == SubSeq(f.stack, Len(rest) + 1, Len(f.stack))
      native == IF q.engine = "machine" THEN NativeResult(q, jit, instr.a, args, called) ELSE {}
  IN  IF Len(f.stack) < instr.b THEN Raise(s, "operands")
      ELSE IF called + 1 > q.maxCallDepth THEN Raise(s, "depth")
      ELSE IF instr.a \notin DOMAIN q.program \ {0} THEN Raise(s, "missing")
      ELSE IF Arity(q.program[instr.a]) # instr.b THEN Raise(s, "arity")
      ELSE IF native # {} THEN Then(s, Append(rest, IntValue(CHOOSE v \in native : TRUE)))
      ELSE [WithTop(s, [f EXCEPT !.stack = rest]) EXCEPT !.frames = Append(@, Frame(instr.a, args))]

ExecuteBranch(q, s, instr) ==
  LET f == TopFrame(s)
      code == q.program[f.id]
      top == f.stack[Len(f.stack)]
      popped == IF instr.op = "JUMP" THEN f.stack ELSE Below(f.stack, 1)
      jump == IF instr.a \in DOMAIN code THEN WithTop(s, [f EXCEPT !.pc = instr.a, !.stack = popped])
              ELSE Raise(s, "jump")
  IN  IF instr.op = "JUMP" THEN jump
      ELSE IF f.stack = <<>> THEN Raise(s, "operands")
      ELSE IF ~IsInt(top) THEN Raise(s, "type")
      ELSE IF top.v # 0 THEN Then(s, popped) ELSE jump

ExecuteVariable(s, instr) ==
  LET f == TopFrame(s)
      set(value) == WithTop(s, [f EXCEPT !.locals = (instr.a :> value) @@ @, !.pc = @ + 1])
  IN  CASE instr.op = "KHOI_TAO" -> set(IntValue(0))
        [] instr.op = "PARAM" -> set(IF instr.b < Len(f.args) THEN f.args[instr.b + 1] ELSE IntValue(0))
        [] OTHER -> Then(s, Append(f.stack, IF instr.a \in DOMAIN f.locals THEN f.locals[instr.a]
                                           ELSE IntValue(0)))

ExecuteValue(s, instr) ==
  LET f == TopFrame(s)
      n == Len(f.stack)
      result(values, used) == IF values = {} THEN Raise(s, "type")
                              ELSE Then(s, Append(Below(f.stack, used), CHOOSE v \in values : TRUE))
  IN  CASE instr.op \in Constants -> Then(s, Append(f.stack, IntValue(ConstantOf(instr))))
        [] instr.op = "CHUOI" -> Then(s, Append(f.stack, Text))
        [] instr.op \in Binary ->
             IF n < 2 THEN Raise(s, "operands")
             ELSE result(EvaluateBinaryOperator(instr.op, f.stack[n - 1], f.stack[n]), 2)
        [] instr.op \in Negations ->
             IF n < 1 THEN Raise(s, "operands") ELSE result(Negated(instr.op, f.stack[n]), 1)

ExecuteOutput(s) ==
  LET f == TopFrame(s)
  IN  IF f.stack = <<>> THEN Raise(s, "operands")
      ELSE [Then(s, Below(f.stack, 1)) EXCEPT !.output = Append(@, f.stack[Len(f.stack)])]

Interpreted(q, jit, s, instr) ==
  LET f == TopFrame(s)
  IN  CASE instr.op \in Constants \cup {"CHUOI"} \cup Binary \cup Negations -> ExecuteValue(s, instr)
        [] instr.op \in {"KHOI_TAO", "PARAM", "TEN_BIEN_GIA_TRI"} -> ExecuteVariable(s, instr)
        [] instr.op \in {"JUMP", "JUMP_IF_FALSE"} -> ExecuteBranch(q, s, instr)
        [] instr.op = "GOI" -> CallVmFunction(q, jit, s, instr)
        [] instr.op = "TRA_VE" ->
             CompleteFunctionCall(IF f.stack = <<>> THEN WithTop(s, [f EXCEPT !.stack = <<IntValue(0)>>]) ELSE s)
        [] instr.op = "IN" -> ExecuteOutput(s)
        [] instr.op = "THU" ->
             WithTop(s, [f EXCEPT !.tries = Append(@, [to |-> instr.a, height |-> Len(f.stack)]),
                                  !.pc = @ + 1])
        [] instr.op = "NEM" ->
             IF f.stack = <<>> THEN Throw(s, Text)
             ELSE Throw(WithTop(s, [f EXCEPT !.stack = Below(@, 1)]), f.stack[Len(f.stack)])
        [] OTHER -> Then(s, f.stack)

(* The closure JIT has an operation of its own for these, and leaves all    *)
(* that changes the context to the interpreter.                             *)
JitOperations == Constants \cup {"CHUOI", "KHOI_TAO", "TEN_BIEN_GIA_TRI", "IN"} \cup Binary \cup Negations

JitOperation(s, instr) ==
  LET stack == TopFrame(s).stack
      n == Len(stack)
  IN  CASE instr.op \in Binary /\ n >= 2 ->
             LET values == EvaluateBinaryOperator(instr.op, stack[n - 1], stack[n])
             IN  IF values = {} THEN Raise(s, "type")
                 ELSE Then(s, Append(Below(stack, 2), CHOOSE v \in values : TRUE))
        [] instr.op \in Binary /\ n < 2 -> Raise(s, "operands")
        [] OTHER -> Interpreted([program |-> <<>>], <<>>, s, instr)

(* The machine JIT: native branch, region or operator where one applies and *)
(* cannot fail.  A set of at most one state.                                *)

NoOverflow(op, value) == op \in Arithmetic => value \in Ints

MachineBranch(q, s, instr) ==
  LET f == TopFrame(s)
      top == f.stack[Len(f.stack)]
  IN  IF /\ instr.op = "JUMP_IF_FALSE" /\ f.stack # <<>> /\ IsInt(top)
         /\ top.v # 0 \/ instr.a \in DOMAIN q.program[f.id]
      THEN {WithTop(s, [f EXCEPT !.stack = Below(@, 1), !.pc = IF top.v = 0 THEN instr.a ELSE f.pc + 1])}
      ELSE {}

MachineRegion(q, jit, s) ==
  LET f == TopFrame(s)
      region == jit.regions[f.id][f.pc]
      value == RunNative(q.backend, <<>>, region.words, <<0, 0>>).value
  IN  IF f.pc \in DOMAIN jit.regions[f.id]
      THEN {WithTop(s, [f EXCEPT !.stack = Append(@, IntValue(value)), !.pc = @ + region.length])}
      ELSE {}

MachineBinary(q, s, instr) ==
  LET stack == TopFrame(s).stack
      a == stack[Len(stack) - 1]
      b == stack[Len(stack)]
  IN  IF instr.op \in Binary /\ Len(stack) >= 2 /\ IsInt(a) /\ IsInt(b) /\ NoOverflow(instr.op, Exact(instr.op, a.v, b.v))
      THEN {Then(s, Append(Below(stack, 2), IntValue(
              RunNative(q.backend, <<>>, TryCompileBinary(instr.op), <<a.v, b.v>>).value)))}
      ELSE {}

Machine(q, jit, s, instr) ==
  LET branch == MachineBranch(q, s, instr)
      region == MachineRegion(q, jit, s)
  IN  IF branch # {} THEN branch
      ELSE IF region # {} THEN region ELSE MachineBinary(q, s, instr)

Step(q, jit, s) ==
  LET f == TopFrame(s)
      instr == q.program[f.id][f.pc]
      native == IF q.engine = "machine" THEN Machine(q, jit, s, instr) ELSE {}
  IN  IF f.pc > Len(q.program[f.id]) THEN CompleteFunctionCall(s)
      ELSE IF native # {} THEN CHOOSE x \in native : TRUE
      ELSE IF q.engine = "closure" /\ instr.op \in JitOperations THEN JitOperation(s, instr)
      ELSE Interpreted(q, jit, s, instr)

RECURSIVE RunInterpreterLoop(_, _, _, _)
RunInterpreterLoop(q, jit, s, fuel) ==
  IF s.ended # "" \/ fuel = 0 THEN [ended |-> s.ended, output |-> s.output]
  ELSE RunInterpreterLoop(q, jit, Step(q, jit, s), fuel - 1)

Run(program, engine, backend, maxCallDepth) ==
  LET q == [program |-> program, engine |-> engine, backend |-> backend, maxCallDepth |-> maxCallDepth]
  IN  RunInterpreterLoop(q, IF engine = "machine" THEN RunMachineCompiled(program) ELSE <<>>,
                         [frames |-> <<Frame(0, <<>>)>>, output |-> <<>>, ended |-> ""], Fuel)

(* All engines over one program.                                            *)
Engines == {<<"interpreter", "none">>, <<"closure", "none">>, <<"machine", "aarch64">>, <<"machine", "x64">>}

Init(Questions) == question \in Questions /\ answer = <<>>

RunProgram ==
  /\ answer = <<>>
  /\ answer' = [e \in Engines |-> Run(question.program, e[1], e[2], question.maxCallDepth)]
  /\ UNCHANGED question

Reference == answer[<<"interpreter", "none">>]

(* Whatever the interpreter comes to, an error included, the other engines  *)
(* come to, with the same output; none of them needs more steps.            *)
EnginesAgree ==
  answer # <<>> /\ Reference.ended # "" => \A e \in Engines : answer[e] = Reference
=============================================================================
