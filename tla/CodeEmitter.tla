----------------------------- MODULE CodeEmitter -----------------------------
(***************************************************************************)
(* The second half of the compiler (src/compiler/codegen.cpp): which IR has *)
(* bytecode, and that bytecode.  Control statements other than `neu`, `thu` *)
(* and `lap` without jumps out of it are the business of StructuredEmitter. *)
(*                                                                         *)
(* An instruction is [op, operand, index, value, text, data]; text and data *)
(* stand for the entry of the string pool the instruction refers to, and a  *)
(* call by name, -(entry + 1) in the code, has index ByName.                *)
(***************************************************************************)
EXTENDS ExpressionCompiler

-----------------------------------------------------------------------------
(* What has bytecode.  The context says where a value stands: stores are    *)
(* statements, a lambda is the right of a plain assignment, `goi` begins a  *)
(* statement.                                                              *)

Constants == {"ConstInt", "ConstString", "ConstNull"}
Calls == {"Call", "CallDynamic"}
Stores == {"StoreName", "StoreIndex"}
Entries(value) == {i \in DOMAIN value.kids : value.op # "MapLiteral" \/ i % 2 = 0}
isMapKey(key) == key.op \in {"ConstString", "LoadName"}
KeysAllowed(value) == \A i \in DOMAIN value.kids \ Entries(value) : isMapKey(value.kids[i])

RECURSIVE isStaticCollectionLiteralValue(_), containsCall(_)
isStaticCollectionLiteralValue(value) ==
  \/ value.op \in Constants
  \/ /\ value.op \in {"ListLiteral", "MapLiteral"}
     /\ KeysAllowed(value)
     /\ \A i \in Entries(value) : isStaticCollectionLiteralValue(value.kids[i])
containsCall(value) ==
  value.op \in Calls \/ \E i \in DOMAIN value.kids : containsCall(value.kids[i])

supportsParameterDefault(value) ==
  \/ value.op \in Constants
  \/ value.op = "Unary" /\ value.text = "-" /\ Head(value.kids).op = "ConstInt"
DefaultsAllowed(ps) == \A p \in ToSet(ps) : \A i \in DOMAIN p.d : supportsParameterDefault(p.d[i])

isDirectIndexBase(value) == value.op \in {"LoadName", "Index"}
isDirectIndexReadBase(value) == isDirectIndexBase(value) \/ value.op \in Calls
Compound == {"+=", "-=", "*="}
Postfixes == {"++", "--"}

RECURSIVE supportsValue(_, _), supportsStatement(_, _, _)
SupportsStore(value, context) ==
  LET target == value.kids[1]
      Right == supportsValue(value.kids[2], "right")
  IN  /\ context = "statement"
      /\ \/ value.op = "StoreName" /\ value.text \in Postfixes
         \/ value.op = "StoreName" /\ value.text \in Compound /\ supportsValue(value.kids[2], "nested")
         \/ value.op = "StoreName" /\ value.text = "=" /\ Right
         \/ /\ value.op = "StoreIndex" /\ value.text = "="
            /\ isDirectIndexBase(target.kids[1])
            /\ supportsValue(target.kids[1], "nested") /\ supportsValue(target.kids[2], "nested")
            /\ Right
SupportsCall(value, context) ==
  /\ value.op = "CallDynamic" => value.target \in {"dynamic", "indirect"}
  /\ ~value.explicit \/ context = "call"
  /\ \A i \in DOMAIN value.kids \ {1} : supportsValue(value.kids[i], "nested")
SupportsLambda(value, context) ==
  /\ context = "right"
  /\ DefaultsAllowed(value.ps)
  /\ \A i \in DOMAIN value.body : supportsStatement(value.body[i], TRUE, FALSE)
supportsValue(value, context) ==
  LET Nested(i) == supportsValue(value.kids[i], "nested")
  IN  \/ value.op \in Constants \cup {"LoadName"}
      \/ /\ value.op \in {"ListLiteral", "MapLiteral"}
         /\ KeysAllowed(value)
         /\ \A i \in Entries(value) : isStaticCollectionLiteralValue(value.kids[i]) \/ Nested(i)
      \/ value.op = "Index" /\ isDirectIndexReadBase(value.kids[1]) /\ Nested(1) /\ Nested(2)
      \/ value.op = "Unary" /\ Nested(1)
      \/ value.op = "Binary" /\ Nested(1) /\ Nested(2)
      \/ value.op \in Stores /\ SupportsStore(value, context)
      \/ value.op \in Calls /\ SupportsCall(value, context)
      \/ value.op = "Lambda" /\ SupportsLambda(value, context)

Plain(value) == value.op # "StoreName"
SupportsCondition(value) == Plain(value) /\ value.op # "MapLiteral" /\ supportsValue(value, "nested")
SupportsBlocks(s, insideFunction) ==
  \A j \in DOMAIN s.blocks : \A i \in DOMAIN s.blocks[j] : supportsStatement(s.blocks[j][i], insideFunction, FALSE)
SupportsLoop(s, insideFunction) ==
  /\ s.roots[1].op = "StoreName" /\ s.roots[1].text = "=" /\ supportsValue(s.roots[1], "statement")
  /\ SupportsCondition(s.roots[2])
  /\ s.roots[3].op = "StoreName" /\ supportsValue(s.roots[3], "statement")
  /\ SupportsBlocks(s, insideFunction)
SupportsOptional(s, context) == s.roots = <<>> \/ (Plain(s.roots[1]) /\ supportsValue(s.roots[1], context))
SupportsExpression(value) ==
  IF value.op \in Calls THEN supportsValue(value, "call")
  ELSE (value.op \in Stores \/ ~containsCall(value)) /\ supportsValue(value, "statement")
supportsStatement(s, insideFunction, topLevel) ==
  CASE s.op = "var" -> SupportsOptional(s, "nested")
    [] s.op = "function" -> topLevel /\ DefaultsAllowed(s.ps) /\ SupportsBlocks(s, TRUE)
    [] s.op = "block" -> ~topLevel /\ SupportsBlocks(s, insideFunction)
    [] s.op = "if" -> SupportsCondition(s.roots[1]) /\ SupportsBlocks(s, insideFunction)
    [] s.op = "loop" -> SupportsLoop(s, insideFunction)
    [] s.op = "try" -> SupportsBlocks(s, insideFunction)
    [] s.op = "throw" -> ~topLevel /\ SupportsOptional(s, "other")
    [] s.op = "return" -> insideFunction /\ SupportsOptional(s, "other")
    [] s.op = "print" -> Plain(s.roots[1]) /\ supportsValue(s.roots[1], "other")
    [] s.op = "expr" -> SupportsExpression(s.roots[1])

supported(ir) == \A i \in DOMAIN ir : supportsStatement(ir[i], FALSE, TRUE)

-----------------------------------------------------------------------------
(* The emitter: the slots of global names (functions among them) and of     *)
(* lexical symbols share numbers with the functions' ids.                   *)

Instr(op, operand, index, value) ==
  [op |-> op, operand |-> operand, index |-> index, value |-> value, text |-> "", data |-> <<>>]
Op(op) == Instr(op, 0, 0, 0)
ByName == -1
Named(op, operand, text) == [Instr(op, operand, ByName, 0) EXCEPT !.text = text]
Pooled(op, data) == [Op(op) EXCEPT !.data = <<data>>]

NoCode == <<>>
Emitter == [slots |-> <<>>, lexical |-> <<>>, ids |-> <<>>, nextFunction |-> 0, nextSlot |-> 0,
            code |-> <<>>, out |-> <<>>]
With(f, x, y) == [z \in DOMAIN f \cup {x} |-> IF z = x THEN y ELSE f[z]]
Push(E, instruction) == [E EXCEPT !.out = Append(@, instruction)]

allocateFunction(E, s) ==
  LET id == E.nextFunction
  IN  [E EXCEPT !.ids = With(@, s.sym, id), !.slots = IF s.n \in DOMAIN @ THEN @ ELSE With(@, s.n, id),
                !.code = With(@, id, NoCode), !.nextFunction = id + 1,
                !.nextSlot = IF id >= @ THEN id + 1 ELSE @]

WithSlotFor(E, n) ==
  IF n \in DOMAIN E.slots THEN E
  ELSE [E EXCEPT !.slots = With(@, n, E.nextSlot), !.nextSlot = @ + 1]
WithSlot(E, sym, n) ==
  IF ~IsCapturable(sym) THEN WithSlotFor(E, n)
  ELSE IF sym \in DOMAIN E.lexical THEN E
  ELSE [E EXCEPT !.lexical = With(@, sym, E.nextSlot), !.nextSlot = @ + 1]
slotForSymbol(E, sym, n) == IF IsCapturable(sym) THEN E.lexical[sym] ELSE E.slots[n]

Nowhere == -1
resolveFunctionIdByName(E, n, includeGlobalFallback) ==
  LET named == {sym \in DOMAIN E.ids : sym.n = n}
      ready == {sym \in named : E.slots[n] = E.ids[sym] /\ E.code[E.ids[sym]] # NoCode}
      usable == IF includeGlobalFallback THEN named ELSE ready
  IN  IF usable = {} THEN Nowhere ELSE E.ids[CHOOSE sym \in usable : TRUE]

\* An instruction on the slot of a name that has one.
OnSlot(E, op, sym, n) == Push(E, Instr(op, 0, slotForSymbol(E, sym, n), 0))
Load(E, sym, n) == OnSlot(WithSlot(E, sym, n), "TEN_BIEN_GIA_TRI", sym, n)
LoadName(E, value) ==
  LET Known(function) == IF ~IsCapturable(value.sym) /\ function # Nowhere
                           THEN Push(E, Instr("BIEN_SO", function, 0, 0))
                           ELSE Load(E, value.sym, value.text)
  IN  Known(resolveFunctionIdByName(E, value.text, TRUE))

emitParameterBindings(E, ps) ==
  LET Given(p, slot, i) == IF p.d = <<>> THEN Instr("PARAM", 0, slot, i - 1)
                           ELSE [Instr("PARAM_MAC_DINH", 0, slot, i - 1) EXCEPT !.data = p.d]
      Bind(acc, p, i) == Push(acc, Given(p, slotForSymbol(acc, p.sym, p.n), i))
  IN  FoldLeftDomain(LAMBDA acc, i :
        Bind(OnSlot(WithSlot(acc, ps[i].sym, ps[i].n), "KHOI_TAO", ps[i].sym, ps[i].n), ps[i], i), E, ps)

(* A closure is made from the slots of what it captures.                    *)
emitLambdaReference(E, lambda, id) ==
  LET Cell(acc, sym) == OnSlot(WithSlot(acc, sym, sym.n), "TEN_BIEN_ID", sym, sym.n)
  IN  IF lambda.caps = {} THEN Push(E, Instr("BIEN_SO", id, 0, 0))
      ELSE Push(FoldLeft(Cell, E, SetToSeq(lambda.caps)), Instr("TAO_DONG_BAO", id, Cardinality(lambda.caps), 0))

binaryOpcode == [op \in {"+", "-", "*", "<", "==", "&&", "||"} |->
  CASE op = "+" -> "CONG" [] op = "-" -> "TRU" [] op = "*" -> "NHAN" [] op = "<" -> "NHO_HON"
    [] op = "==" -> "SO_SANH_BANG" [] op = "&&" -> "Logic_VA" [] op = "||" -> "Logic_HOAC"]
compoundOpcode == [op \in Compound |-> CASE op = "+=" -> "CONG" [] op = "-=" -> "TRU" [] op = "*=" -> "NHAN"]

Assign(E, sym, n) == Push(OnSlot(E, "TEN_BIEN_ID", sym, n), Op("GAN"))

RECURSIVE emitValue(_, _), emitStatements(_, _)
emitValues(E, values) == FoldLeft(LAMBDA acc, value : emitValue(acc, value), E, values)
emitCallArguments(E, value) == emitValues(E, Tail(value.kids))

EmitCollection(E, value, op) ==
  LET Key(acc, key) == Push(acc, Named("CHUOI", 0, key.text))
      One(acc, i) == IF i \in Entries(value) THEN emitValue(acc, value.kids[i]) ELSE Key(acc, value.kids[i])
  IN  IF isStaticCollectionLiteralValue(value) THEN Push(E, Pooled(op, value))
      ELSE Push(FoldLeftDomain(LAMBDA acc, i : One(acc, i), E, value.kids),
                Instr(op, Cardinality(Entries(value)), -1, 0))

EmitUnary(E, value) ==
  LET negative == value.text = "-"
      zero == Instr("BIEN_SO", 0, 0, 0)
      Applied(operand) == CASE negative -> Push(operand, Op("TRU"))
                            [] value.text = "!" -> Push(operand, Op("PHU_DINH"))
                            [] OTHER -> operand
  IN  IF negative /\ Head(value.kids).op = "ConstInt" THEN Push(E, Instr("BIEN_SO", -Head(value.kids).v, 0, 0))
      ELSE Applied(emitValues(IF negative THEN Push(E, zero) ELSE E, value.kids))

\* The slot of the target is given out before the value is compiled.
EmitStoreName(E, value) ==
  LET target == Head(value.kids)
      Loaded(placed) == IF value.text \in Compound THEN OnSlot(placed, "TEN_BIEN_GIA_TRI", target.sym, target.text)
                        ELSE placed
      Combined(given) == IF value.text \in Compound THEN Push(given, Op(compoundOpcode[value.text])) ELSE given
      Stepped(placed) == Push(OnSlot(placed, "TEN_BIEN_ID", target.sym, target.text),
                              Op(IF value.text = "++" THEN "CONG_MOT" ELSE "TRU_MOT"))
      Stored(placed) == Assign(Combined(emitValue(Loaded(placed), value.kids[2])), target.sym, target.text)
      Placed(placed) == IF value.text \in Postfixes THEN Stepped(placed) ELSE Stored(placed)
  IN  Placed(WithSlot(E, target.sym, target.text))

CallTo(E, argc, id, text) == Push(E, IF id = Nowhere THEN Named("GOI", argc, text) ELSE Instr("GOI", argc, id, 0))

\* `goi` looks its function up before the arguments are compiled.
EmitCall(E, value) ==
  LET Done(done) == CallTo(done, Len(value.kids) - 1,
                           resolveFunctionIdByName(IF value.explicit THEN E ELSE done, value.text, ~value.explicit),
                           value.text)
  IN  Done(emitCallArguments(E, value))

Indirect(E, argc) == Push(E, Instr("GOI_GIAN_TIEP", argc, 0, 0))
EmitCallDynamic(E, value) ==
  LET argc == Len(value.kids) - 1
      Resolved(done, id) ==
        CASE value.target = "indirect" /\ IsCapturable(value.sym) -> Indirect(Load(done, value.sym, value.text), argc)
          [] id = Nowhere /\ ~value.explicit /\ value.text \in DOMAIN done.slots ->
               Indirect(Push(done, Instr("TEN_BIEN_GIA_TRI", 0, done.slots[value.text], 0)), argc)
          [] OTHER -> CallTo(done, argc, id, value.text)
      Done(done) == Resolved(done, IF value.explicit THEN Nowhere ELSE resolveFunctionIdByName(done, value.text, TRUE))
  IN  Done(emitCallArguments(E, value))

\* The body of a function or a lambda goes to its own code.
emitFunctionBody(E, id, ps, body) ==
  LET Kept(done) == [done EXCEPT !.code = With(@, id, done.out), !.out = E.out]
      opened == [E EXCEPT !.out = <<Op("MO_KHOI")>>]
  IN  Kept(Push(emitStatements(emitParameterBindings(opened, ps), body), Op("DONG_KHOI")))
EmitLambda(E, value) ==
  LET id == E.nextFunction
  IN  emitLambdaReference(emitFunctionBody([E EXCEPT !.nextFunction = @ + 1], id, value.ps, value.body), value, id)

emitValue(E, value) ==
  CASE value.op = "ConstInt" -> Push(E, Instr("BIEN_SO", value.v, 0, 0))
    [] value.op = "ConstString" -> Push(E, Named("CHUOI", 0, value.text))
    [] value.op = "ConstNull" -> Push(E, Op("RONG_GIA_TRI"))
    [] value.op = "LoadName" -> LoadName(E, value)
    [] value.op = "ListLiteral" -> EmitCollection(E, value, "LIST_LITERAL")
    [] value.op = "MapLiteral" -> EmitCollection(E, value, "MAP_LITERAL")
    [] value.op = "Index" -> Push(emitValues(E, value.kids), Op("DOC_CHI_SO"))
    [] value.op = "Unary" -> EmitUnary(E, value)
    [] value.op = "Binary" -> Push(emitValues(E, value.kids), Op(binaryOpcode[value.text]))
    [] value.op = "StoreName" -> EmitStoreName(E, value)
    [] value.op = "StoreIndex" ->
         Push(emitValues(E, value.kids[1].kids \o <<value.kids[2]>>), Op("GAN_CHI_SO"))
    [] value.op = "Call" -> EmitCall(E, value)
    [] value.op = "CallDynamic" -> EmitCallDynamic(E, value)
    [] value.op = "Lambda" -> EmitLambda(E, value)

-----------------------------------------------------------------------------
(* Statements.                                                              *)

Block(E, list) == Push(emitStatements(Push(E, Op("MO_KHOI")), list), Op("DONG_KHOI"))
Here(E) == Len(E.out) + 1
\* The jump at a place goes to the next instruction.
Patched(E, at) == [E EXCEPT !.out[at].operand = Here(E)]
Test(E, value) == Push(emitValue(E, value), Op("JUMP_IF_FALSE"))

EmitVariable(E, s) ==
  LET reset == OnSlot(WithSlot(E, s.sym, s.n), "KHOI_TAO", s.sym, s.n)
  IN  IF s.roots = <<>> THEN reset ELSE Assign(emitValue(reset, s.roots[1]), s.sym, s.n)

EmitConditional(E, s) ==
  LET Else(then, at) == IF Len(s.blocks) = 1 THEN Patched(then, at)
                        ELSE Patched(Block(Patched(Push(then, Op("JUMP")), at), s.blocks[2]), Here(then))
      Then(tested) == Else(Block(tested, s.blocks[1]), Len(tested.out))
  IN  Then(Test(Push(E, Op("NEU")), s.roots[1]))

EmitLoop(E, s) ==
  LET target == Head(s.roots[1].kids)
      reset == OnSlot(WithSlot(E, target.sym, target.text), "KHOI_TAO", target.sym, target.text)
      Body(tested, start) ==
        Patched(Push(emitValue(Push(Block(tested, s.blocks[1]), Op("CAP_NHAT")), s.roots[3]),
                     Instr("JUMP", start, 0, 0)), Len(tested.out))
      Begun(begun) == Body(Test(Push(begun, Op("DIEU_KIEN")), s.roots[2]), Here(begun))
  IN  Begun(Push(emitValue(reset, s.roots[1]), Op("LAP")))

EmitTry(E, s) ==
  LET CatchSlot(placed) == IF s.n = "" THEN -1 ELSE slotForSymbol(placed, s.sym, s.n)
      Handler(placed) == Block(Push(Patched(placed, Here(E)), Instr("BAT_LOI", 0, CatchSlot(placed), 0)), s.blocks[2])
      Tried(tried) == Patched(Handler(IF s.n = "" THEN tried ELSE WithSlot(tried, s.sym, s.n)), Len(tried.out))
  IN  Tried(Push(Block(Push(E, Op("THU")), s.blocks[1]), Op("THU_KET_THUC")))

EmitRooted(E, s, otherwise, op) ==
  Push(IF s.roots = <<>> THEN Push(E, otherwise) ELSE emitValue(E, s.roots[1]), Op(op))

emitFunction(E, s) ==
  LET id == E.ids[s.sym]
  IN  Push(emitFunctionBody(E, id, s.ps, s.blocks[1]), [Instr("HAM", 0, id, 0) EXCEPT !.text = s.n])

emitStatement(E, s) ==
  CASE s.op = "function" -> emitFunction(E, s)
    [] s.op = "var" -> EmitVariable(E, s)
    [] s.op = "block" -> Block(E, s.blocks[1])
    [] s.op = "if" -> EmitConditional(E, s)
    [] s.op = "loop" -> EmitLoop(E, s)
    [] s.op = "try" -> EmitTry(E, s)
    [] s.op = "throw" -> EmitRooted(E, s, Named("CHUOI", 0, "unknown"), "NEM")
    [] s.op = "return" -> EmitRooted(E, s, Instr("BIEN_SO", 0, 0, 0), "TRA_VE")
    [] s.op = "print" -> EmitRooted(E, s, Op("BIEN_SO"), "IN")
    [] s.op = "expr" -> emitValue(E, s.roots[1])
emitStatements(E, list) == FoldLeft(LAMBDA acc, s : CHOOSE r \in {emitStatement(a, s) : a \in {acc}} : TRUE, E, list)

(* `main` is called at the slot of that name, which may be a variable's.    *)
Entry == "main"
emitProgram(ir) ==
  LET predeclared == FoldLeft(LAMBDA acc, s : IF s.op = "function" THEN allocateFunction(acc, s) ELSE acc, Emitter, ir)
      Started(done) == IF Entry \in DOMAIN done.slots THEN Push(done, Instr("GOI", 0, done.slots[Entry], 0)) ELSE done
  IN  Push(Started(emitStatements(predeclared, ir)), Op("DUNG_CHUONG_TRINH"))

(* What a program compiles to: an error of the semantic pass or a region    *)
(* without bytecode leaves nothing to run.                                  *)
Lowered(program, symbols) == LowerStatements(program, <<>>, <<Global>>, symbols)
Refusal(errors, ir) ==
  CASE errors -> "redeclared"
    [] ~errors /\ ArityMismatch(ir) -> "arity"
    [] ~errors /\ ~ArityMismatch(ir) /\ ~supported(ir) -> "unsupported"
    [] OTHER -> "none"
compile(ir) ==
  LET Code(emitted) == [main |-> emitted.out, code |-> emitted.code]
  IN  Code(emitProgram(ir))
=============================================================================
