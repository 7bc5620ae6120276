-------------------------- MODULE ExpressionMachine --------------------------
(***************************************************************************)
(* The interpreter on the code of CodeEmitter: variables, shared cells,     *)
(* closures, containers and exceptions (src/runtime/vm.cpp), as a function  *)
(* from code to what it prints.                                             *)
(*                                                                         *)
(* Values are <<"int", n>>, <<"text", s>>, <<"null">>, <<"object", o>> for a *)
(* list, a map or a closure; integers stay small, and an operation on other *)
(* types than the ones written here ends a run as "beyond".                 *)
(***************************************************************************)
EXTENDS CodeEmitter, TLC

Null == <<"null", 0>>
IntValue(n) == <<"int", n>>
TextValue(s) == <<"text", s>>
Object(o) == <<"object", o>>
IsInt(v) == v[1] = "int"
Truth(b) == IntValue(IF b THEN 1 ELSE 0)
argToRawString(v) == IF v[1] = "text" THEN v[2] ELSE ToString(v[2])

ListObject(items) == [kind |-> "list", items |-> items, fn |-> 0]
MapObject(items) == [kind |-> "map", items |-> items, fn |-> 0]
ClosureObject(fn, cells) == [kind |-> "closure", items |-> cells, fn |-> fn]

BinaryOn == [op \in {"CONG", "TRU", "NHAN", "NHO_HON", "SO_SANH_BANG", "Logic_VA", "Logic_HOAC"} |->
  [a, b \in -50 .. 50 |->
    CASE op = "CONG" -> IntValue(a + b)
      [] op = "TRU" -> IntValue(a - b)
      [] op = "NHAN" -> IntValue(a * b)
      [] op = "NHO_HON" -> Truth(a < b)
      [] op = "SO_SANH_BANG" -> Truth(a = b)
      [] op = "Logic_VA" -> Truth(a # 0 /\ b # 0)
      [] op = "Logic_HOAC" -> Truth(a # 0 \/ b # 0)]]
Calculable(a, b) == IsInt(a) /\ IsInt(b) /\ a[2] \in -50 .. 50 /\ b[2] \in -50 .. 50

(* What is seen of a value when it is printed: of a container, its kind.    *)
View(objects, v) == IF v[1] = "object" THEN <<objects[v[2]].kind>> ELSE <<v>>

-----------------------------------------------------------------------------
(* The machine.                                                             *)

Root == -1
Frame(at, args, cells) ==
  [at |-> at, pc |-> 1, stack |-> <<>>, tries |-> <<>>, locals |-> <<>>, cells |-> cells, args |-> args]
Machine == [f |-> Frame(Root, <<>>, <<>>), callers |-> <<>>, globals |-> <<>>, values |-> <<>>,
            objects |-> <<>>, out |-> <<>>, status |-> "run"]
InCall(m) == m.callers # <<>>
End(m, status) == [m EXCEPT !.status = status]

Arg(m, k) == m.f.stack[Len(m.f.stack) - k]
Has(m, k) == Len(m.f.stack) >= k
Next(m) == [m EXCEPT !.f.pc = @ + 1]
\* k operands are replaced by some values.
Replace(m, k, vs) == Next([m EXCEPT !.f.stack = SubSeq(@, 1, Len(@) - k) \o vs])

(* Where a slot's value is: a cell shared with closures, the frame, or the  *)
(* globals.                                                                 *)
Where(m, slot) ==
  CASE InCall(m) /\ slot \in DOMAIN m.f.cells -> "cell"
    [] InCall(m) /\ slot \in DOMAIN m.f.locals -> "local"
    [] slot \in DOMAIN m.globals -> "global"
    [] OTHER -> "nowhere"
Held(m, slot) ==
  CASE Where(m, slot) = "cell" -> m.values[m.f.cells[slot]]
    [] Where(m, slot) = "local" -> m.f.locals[slot]
    [] Where(m, slot) = "global" -> m.globals[slot]
    [] OTHER -> IntValue(0)
Put(m, where, slot, v) ==
  CASE where = "cell" -> [m EXCEPT !.values[m.f.cells[slot]] = v]
    [] where = "local" -> [m EXCEPT !.f.locals = With(@, slot, v)]
    [] where = "global" -> [m EXCEPT !.globals = With(@, slot, v)]

ReadVariable(m, slot) ==
  Replace(IF Where(m, slot) = "nowhere" THEN Put(m, "global", slot, IntValue(0)) ELSE m, 0, <<Held(m, slot)>>)
AssignVariable(m) ==
  LET slot == Arg(m, 0)[2]
      where == Where(m, slot)
  IN  Replace(Put(m, IF where # "nowhere" THEN where ELSE IF InCall(m) THEN "local" ELSE "global", slot, Arg(m, 1)),
              2, <<>>)
StepVariable(m, delta) ==
  LET slot == Arg(m, 0)[2]
      where == Where(m, slot)
      stepped == IntValue(Held(m, slot)[2] + delta)
  IN  IF ~IsInt(Held(m, slot)) THEN End(m, "beyond")
      ELSE Replace(Put(m, IF where = "nowhere" THEN "global" ELSE where, slot, stepped), 1, <<stepped>>)
InitVariable(m, slot) ==
  Next(IF InCall(m) THEN Put(m, "local", slot, IntValue(0))
       ELSE IF slot \in DOMAIN m.globals THEN m ELSE Put(m, "global", slot, IntValue(0)))

(* A constant of the pool as a value: a literal list or map is made afresh. *)
RECURSIVE Materialise(_, _)
Materialise(m, value) ==
  LET Add(acc, i) == LET made == Materialise(acc.m, value.kids[i])
                     IN  [m |-> made.m, vs |-> Append(acc.vs, made.v)]
      parts == FoldLeft(Add, [m |-> m, vs |-> <<>>], SetToSortSeq(Entries(value), LAMBDA a, b : a < b))
      o == Len(parts.m.objects) + 1
      keys == {value.kids[i].text : i \in DOMAIN value.kids \ Entries(value)}
      Latest(k) == Max({i \in 1 .. Len(parts.vs) : value.kids[2 * i - 1].text = k})
      items == IF value.op = "ListLiteral" THEN parts.vs ELSE [k \in keys |-> parts.vs[Latest(k)]]
      made == IF value.op = "ListLiteral" THEN ListObject(items) ELSE MapObject(items)
  IN  CASE value.op = "ConstInt" -> [m |-> m, v |-> IntValue(value.v)]
        [] value.op = "ConstString" -> [m |-> m, v |-> TextValue(value.text)]
        [] value.op = "ConstNull" -> [m |-> m, v |-> Null]
        [] value.op = "Unary" -> [m |-> m, v |-> IntValue(-value.kids[1].v)]
        [] OTHER -> [m |-> [parts.m EXCEPT !.objects = Append(@, made)], v |-> Object(o)]

Collect(m, instruction) ==
  LET n == instruction.operand
      size == IF instruction.op = "LIST_LITERAL" THEN n ELSE 2 * n
      vs == SubSeq(m.f.stack, Len(m.f.stack) - size + 1, Len(m.f.stack))
      keys == {vs[2 * i - 1][2] : i \in 1 .. n}
      Latest(k) == Max({i \in 1 .. n : vs[2 * i - 1][2] = k})
      made == IF instruction.op = "LIST_LITERAL" THEN ListObject(vs)
              ELSE MapObject([k \in keys |-> vs[2 * Latest(k)]])
      whole == Materialise(m, instruction.data[1])
  IN  IF instruction.index = -1
      THEN Replace([m EXCEPT !.objects = Append(@, made)], size, <<Object(Len(m.objects) + 1)>>)
      ELSE Replace(whole.m, 0, <<whole.v>>)

InRange(o, index) == IsInt(index) /\ index[2] \in 0 .. Len(o.items) - 1
ReadIndex(m) ==
  LET index == Arg(m, 0)
      o == m.objects[Arg(m, 1)[2]]
      key == argToRawString(index)
  IN  CASE Arg(m, 1)[1] # "object" -> End(m, "beyond")
        [] o.kind = "map" -> Replace(m, 2, <<IF key \in DOMAIN o.items THEN o.items[key] ELSE Null>>)
        [] o.kind = "list" /\ InRange(o, index) -> Replace(m, 2, <<o.items[index[2] + 1]>>)
        [] OTHER -> End(m, "fault")
StoreIndex(m) ==
  LET index == Arg(m, 1)
      at == Arg(m, 2)[2]
      o == m.objects[at]
  IN  CASE Arg(m, 2)[1] # "object" -> End(m, "beyond")
        [] o.kind = "map" ->
             Replace([m EXCEPT !.objects[at].items = With(@, argToRawString(index), Arg(m, 0))], 3, <<>>)
        [] o.kind = "list" /\ InRange(o, index) ->
             Replace([m EXCEPT !.objects[at].items[index[2] + 1] = Arg(m, 0)], 3, <<>>)
        [] OTHER -> End(m, "fault")

\* Mutant: each closure gets a copy of what it captures.
CopyForEachClosure(m, slot) ==
  [m |-> [m EXCEPT !.values = Append(@, Held(m, slot))], cell |-> Len(m.values) + 1]
(* The cell of a slot.  A call shares it with every closure it makes; the   *)
(* program's own code hands out a copy.                                     *)
captureCellForSlot(m, slot) ==
  LET fresh == Len(m.values) + 1
      kept == [m EXCEPT !.values = Append(@, Held(m, slot))]
  IN  CASE Where(m, slot) = "cell" -> [m |-> m, cell |-> m.f.cells[slot]]
        [] InCall(m) -> [m |-> [kept EXCEPT !.f.cells = With(@, slot, fresh)], cell |-> fresh]
        [] OTHER -> [m |-> kept, cell |-> fresh]
MakeClosure(m, instruction) ==
  LET n == instruction.index
      slots == {Arg(m, k)[2] : k \in 0 .. n - 1}
      Capture(slot, acc) == LET got == captureCellForSlot(acc.m, slot)
                            IN  [m |-> got.m, cells |-> With(acc.cells, slot, got.cell)]
      done == FoldSet(Capture, [m |-> m, cells |-> <<>>], slots)
      made == ClosureObject(instruction.operand, done.cells)
  IN  Replace([done.m EXCEPT !.objects = Append(@, made)], n, <<Object(Len(m.objects) + 1)>>)

Bindings(code) == {i \in DOMAIN code : code[i].op \in {"PARAM", "PARAM_MAC_DINH"}}
MaximumArity(code) == Cardinality(Bindings(code))
MinimumArity(code) == Max({0} \cup {code[i].value + 1 : i \in {j \in Bindings(code) : code[j].op = "PARAM"}})
invokeFunction(program, m, argc, id, cells) ==
  LET args == SubSeq(m.f.stack, Len(m.f.stack) - argc + 1, Len(m.f.stack))
      caller == [m.f EXCEPT !.stack = SubSeq(@, 1, Len(@) - argc)]
  IN  IF id \notin DOMAIN program.code \/ ~Has(m, argc) THEN End(m, "fault")
      ELSE IF argc \notin MinimumArity(program.code[id]) .. MaximumArity(program.code[id]) THEN End(m, "fault")
      ELSE [m EXCEPT !.f = Frame(id, args, cells), !.callers = Append(@, caller)]
FunctionCalled(program, n) ==
  LET declared == {i \in DOMAIN program.main : program.main[i].op = "HAM" /\ program.main[i].text = n}
  IN  IF declared = {} THEN Nowhere ELSE program.main[Max(declared)].index
Call(program, m, instruction) ==
  invokeFunction(program, m, instruction.operand,
                 IF instruction.index = ByName THEN FunctionCalled(program, instruction.text) ELSE instruction.index,
                 <<>>)
CallIndirect(program, m, instruction) ==
  LET callee == Arg(m, 0)
      popped == [m EXCEPT !.f.stack = Front(@)]
      o == m.objects[callee[2]]
  IN  CASE IsInt(callee) -> invokeFunction(program, popped, instruction.operand, callee[2], <<>>)
        [] callee[1] = "object" /\ o.kind = "closure" ->
             invokeFunction(program, popped, instruction.operand, o.fn, o.items)
        [] OTHER -> End(m, "fault")
completeFunctionCall(m) ==
  LET result == IF m.f.stack = <<>> THEN <<>> ELSE <<Last(m.f.stack)>>
  IN  Next([m EXCEPT !.f = [Last(m.callers) EXCEPT !.stack = @ \o result], !.callers = Front(@)])
Return(m) == IF InCall(m) THEN completeFunctionCall(m) ELSE End(m, "halt")
ReturnValue(m) == Return(IF Has(m, 1) THEN m ELSE [m EXCEPT !.f.stack = <<IntValue(0)>>])

\* The nearest handler, in this call or in a caller.
Throw(m) ==
  LET stacks == Append(m.callers, m.f)
      handling == {i \in DOMAIN stacks : stacks[i].tries # <<>>}
      f == stacks[Max(handling)]
      handler == Last(f.tries)
      caught == [f EXCEPT !.tries = Front(@), !.pc = handler.pc,
                          !.stack = Append(SubSeq(@, 1, handler.depth), Arg(m, 0))]
  IN  IF handling = {} THEN End(m, "thrown")
      ELSE [m EXCEPT !.f = caught, !.callers = SubSeq(stacks, 1, Max(handling) - 1)]
CatchVariable(m, slot) ==
  LET where == IF Where(m, slot) = "cell" THEN "cell" ELSE IF InCall(m) THEN "local" ELSE "global"
  IN  Replace(IF slot = -1 THEN m ELSE Put(m, where, slot, Arg(m, 0)), 1, <<>>)

TwoOperands == DOMAIN BinaryOn \cup {"GAN", "DOC_CHI_SO"}
Needed(i) == CASE i.op \in TwoOperands -> 2
               [] i.op = "GAN_CHI_SO" -> 3
               [] i.op \in {"CONG_MOT", "TRU_MOT", "PHU_DINH", "JUMP_IF_FALSE", "GOI_GIAN_TIEP", "IN"} -> 1
               [] i.op = "TAO_DONG_BAO" -> i.index
               [] i.op \in {"LIST_LITERAL", "MAP_LITERAL"} /\ i.index = -1 ->
                    IF i.op = "LIST_LITERAL" THEN i.operand ELSE 2 * i.operand
               [] OTHER -> 0

Step(program, m) ==
  LET code == IF m.f.at = Root THEN program.main ELSE program.code[m.f.at]
      i == code[m.f.pc]
      Jump(target) == [m EXCEPT !.f.pc = target]
      default == Materialise(m, i.data[1])
      Bind(v) == Next(Put(m, "local", i.index, v))
      a == Arg(m, 1)
      b == Arg(m, 0)
  IN  CASE m.status # "run" -> m
        [] m.f.pc > Len(code) -> Return(m)
        [] ~Has(m, Needed(i)) -> End(m, "fault")
        [] i.op \in {"MO_KHOI", "DONG_KHOI", "NEU", "LAP", "DIEU_KIEN", "CAP_NHAT", "HAM"} -> Next(m)
        [] i.op = "DUNG_CHUONG_TRINH" -> End(m, "halt")
        [] i.op = "BIEN_SO" -> Replace(m, 0, <<IntValue(i.operand)>>)
        [] i.op = "TEN_BIEN_ID" -> Replace(m, 0, <<IntValue(i.index)>>)
        [] i.op = "CHUOI" -> Replace(m, 0, <<TextValue(i.text)>>)
        [] i.op = "RONG_GIA_TRI" -> Replace(m, 0, <<Null>>)
        [] i.op \in {"LIST_LITERAL", "MAP_LITERAL"} -> Collect(m, i)
        [] i.op = "TEN_BIEN_GIA_TRI" -> ReadVariable(m, i.index)
        [] i.op = "KHOI_TAO" -> InitVariable(m, i.index)
        [] i.op = "GAN" -> AssignVariable(m)
        [] i.op = "CONG_MOT" -> StepVariable(m, 1)
        [] i.op = "TRU_MOT" -> StepVariable(m, -1)
        [] i.op = "PARAM" -> Bind(m.f.args[i.value + 1])
        [] i.op = "PARAM_MAC_DINH" -> IF i.value < Len(m.f.args) THEN Bind(m.f.args[i.value + 1]) ELSE Bind(default.v)
        [] i.op = "TAO_DONG_BAO" -> MakeClosure(m, i)
        [] i.op \in DOMAIN BinaryOn ->
             IF ~Calculable(a, b) THEN End(m, "beyond")
             ELSE Replace(m, 2, <<BinaryOn[i.op][a[2], b[2]]>>)
        [] i.op = "PHU_DINH" -> IF IsInt(b) THEN Replace(m, 1, <<Truth(b[2] = 0)>>) ELSE End(m, "beyond")
        [] i.op = "DOC_CHI_SO" -> ReadIndex(m)
        [] i.op = "GAN_CHI_SO" -> StoreIndex(m)
        [] i.op = "JUMP" -> Jump(i.operand)
        [] i.op = "JUMP_IF_FALSE" ->
             IF ~IsInt(b) THEN End(m, "beyond")
             ELSE [Replace(m, 1, <<>>) EXCEPT !.f.pc = IF b[2] = 0 THEN i.operand ELSE @]
        [] i.op = "GOI" -> Call(program, m, i)
        [] i.op = "GOI_GIAN_TIEP" -> CallIndirect(program, m, i)
        [] i.op = "TRA_VE" -> ReturnValue(m)
        [] i.op = "THU" -> Next([m EXCEPT !.f.tries = Append(@, [pc |-> i.operand, depth |-> Len(m.f.stack)])])
        [] i.op = "THU_KET_THUC" -> [Jump(i.operand) EXCEPT !.f.tries = Front(@)]
        [] i.op = "BAT_LOI" -> CatchVariable(m, i.index)
        [] i.op = "NEM" -> Throw(IF Has(m, 1) THEN m ELSE [m EXCEPT !.f.stack = <<TextValue("unknown")>>])
        [] i.op = "IN" -> Next([m EXCEPT !.out = Append(@, View(m.objects, b)), !.f.stack = Front(@)])

RECURSIVE Run(_, _, _)
Run(program, m, depth) ==
  IF m.status # "run" THEN m
  ELSE IF depth = 0 THEN Step(program, m)
  ELSE Run(program, Run(program, m, depth - 1), depth - 1)
\* 2^Depth steps are enough for the programs asked about.
Depth == 10
Executed(program) == Run(program, Machine, Depth)
=============================================================================
