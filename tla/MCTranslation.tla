--------------------------- MODULE MCTranslation ---------------------------
(***************************************************************************)
(* What turns one form of a program into another, or runs it: each part is  *)
(* a function of its input.  A behaviour asks one question of one part.     *)
(***************************************************************************)
EXTENDS Integers, SequencesExt, FiniteSetsExt, Functions, TLC

CONSTANTS Parts,      \* the parts to ask
          TextLength, MaxFrames, MaxMessages,
          IntBits,    \* the width of int
          Temporaries, MaxCode, MaxNative, Fuel, CodeLength,
          MaxI32, MaxU32, MaxI64, MaxU64, ExactDouble, LastToken, Errors, Granted

VARIABLES question, answer,
          source, linked, foreignFunctions, tokens, handles, lists, lastForeignPosixError, latest

asked == <<question, answer>>
foreign == <<source, linked, foreignFunctions, tokens, handles, lists, lastForeignPosixError, latest>>
vars == <<question, answer, source, linked, foreignFunctions, tokens, handles, lists,
          lastForeignPosixError, latest>>

Language == INSTANCE LanguageService
MinInt == -(2 ^ (IntBits - 1))
MaxInt == 2 ^ (IntBits - 1) - 1
Jit == INSTANCE MachineJit
Objects == INSTANCE ObjectModel
Libraries == {"system.c"}
Foreign == INSTANCE ForeignCalls

-----------------------------------------------------------------------------
(* Programs for the engines: every short straight line over some operators; *)
(* jumps and handlers into and around an expression; and three functions    *)
(* that call each other, under several limits of the call depth.            *)

Push(v) == Jit!Instr("BIEN_SO", v, 0)
Do(op) == Jit!Op(op)
Load(slot) == Jit!Instr("TEN_BIEN_GIA_TRI", slot, 0)
Call(id, argc) == Jit!Instr("GOI", id, argc)
Jumps == {Jit!Instr(op, to, 0) : op \in {"JUMP", "JUMP_IF_FALSE", "THU"}, to \in {1, 2, 3, 4, 5, 7}}

Program(functions, maxCallDepth) ==
  [kind |-> "program", program |-> functions, maxCallDepth |-> maxCallDepth]

Operators == {Push(MaxInt), Push(2), Do("CHUOI"), Do("CONG"), Do("NHAN"), Do("NHO_HON"),
              Do("Logic_VA"), Do("KHONG"), Do("IN")}
Straight ==
  \E code \in BoundedSeq(Operators, CodeLength) : question = Program(0 :> (code \o <<Do("IN")>>), 2)

Around == Jumps \cup {Do("DUNG_GIA_TRI"), Do("SAI_GIA_TRI"), Do("CHUOI"), Do("CONG"), Do("NEM")}
Jumping ==
  \E a, b, c \in Around :
    question = Program(0 :> <<Do("DUNG_GIA_TRI"), a, b, Do("CONG"), c, Do("IN")>>, 2)

Bind(slot, index) == <<Jit!Instr("KHOI_TAO", slot, 0), Jit!Instr("PARAM", slot, index)>>
Body(argc, middle) ==
  (IF argc = 0 THEN <<>> ELSE IF argc = 1 THEN Bind(5, 0) ELSE Bind(5, 0) \o Bind(6, 1))
    \o middle \o <<Do("TRA_VE")>>
Outer == {Push(3), Load(5), Do("NHAN"), Call(1, 1), Call(2, 1), Call(2, 2), Call(3, 0)}
Middle == {Body(1, <<>>), Body(1, <<Load(5)>>), Body(1, <<Call(3, 0)>>), Body(2, <<Load(6)>>),
           Body(1, <<Load(5), Call(3, 0), Do("CONG")>>)}
Inner == {Body(0, <<>>), Body(0, <<Push(2)>>), Body(0, <<Load(5)>>), Body(0, <<Push(2), Call(2, 1)>>),
          <<Do("MO_KHOI"), Push(3), Push(1), Do("TRU"), Do("PHU_DINH"), Do("TRA_VE"), Do("DONG_KHOI")>>}

Calling ==
  \E f \in BoundedSeq(Outer, CodeLength - 1), g \in Middle, h \in Inner, depth \in 1 .. 3 :
    question = Program(0 :> <<Push(2), Push(3), Call(1, 1), Do("IN"), Do("IN")>>
                         @@ 1 :> Body(1, f) @@ 2 :> g @@ 3 :> h, depth)

-----------------------------------------------------------------------------
(* Hierarchies of three classes, one below the other in both shapes, with a *)
(* method or a constructor in each; every graph of superclasses in every    *)
(* order of the text; and straight lines of statements over two variables.  *)

Open == [c \in {"A", "B", "C"} |-> "unspecified"]
Hierarchy(super, visibility, methods, implements, interfaces) ==
  [order |-> <<"C", "A", "B">>, super |-> super, visibility |-> visibility, methods |-> methods,
   implements |-> implements, interfaces |-> interfaces]
Below == {[c \in {"A", "B", "C"} |-> IF c = "A" THEN "none" ELSE IF c = "B" THEN "A" ELSE top] :
            top \in {"A", "B"}}
Nothing == [c \in {"A", "B", "C"} |-> <<>>]
Arities == {<<0, 0>>, <<0, 1>>, <<1, 1>>}
Signature(visibility, arity) == [visibility |-> visibility, required |-> arity[1], total |-> arity[2]]
Maybe(name, visibilities, arities) ==
  {<<>>} \cup {name :> Signature(v, a) : v \in visibilities, a \in arities}

Cyclic ==
  \/ \E order \in {o \in [1 .. 3 -> {"A", "B", "C"}] : IsInjective(o)},
        super \in [{"A", "B", "C"} -> {"A", "B", "C", "none", "unknown"}] :
       question = [kind |-> "hierarchy",
                   program |-> [Hierarchy(super, Open, [c \in {"A", "B", "C"} |->
                                            "m" :> Signature("private", <<0, 0>>)], Nothing, <<>>)
                                  EXCEPT !.order = order]]
  \/ \E parents \in [{"I", "J", "K"} -> SUBSET {"I", "J", "K"}] :
       question = [kind |-> "interfaces",
                   program |-> Hierarchy(CHOOSE super \in Below : TRUE, Open, Nothing, Nothing,
                                 [i \in {"I", "J", "K"} |-> [extends |-> SetToSeq(parents[i]),
                                                            signatures |-> <<>>]])]

Modifiers == {"public", "protected", "private"}
Dispatching ==
  \E super \in Below, a, b, c \in Maybe("m", Modifiers, Arities), argc \in 0 .. 1 :
    LET program == Hierarchy(super, Open, "A" :> a @@ "B" :> b @@ "C" :> c, Nothing, <<>>)
        Ask(via, from, class, instance) ==
          question = [kind |-> "call", program |-> program,
                      call |-> [via |-> via, from |-> from, class |-> class, instance |-> instance,
                                name |-> "m", argc |-> argc]]
    IN  \/ \E from \in {"none", "A", "B", "C"}, class \in {"A", "B", "C"} :
             Ask("variable", from, class, class)
        \/ \E via \in {"self", "super"}, from \in {"A", "B", "C"} :
             \E instance \in {d \in {"A", "B", "C"} : Objects!IsSubclassSymbol(program, d, from)} :
               Ask(via, from, from, instance)

Constructing ==
  \E a, b \in Maybe("khoi_tao", Modifiers, Arities), from \in {"none", "A", "B", "C"},
     class \in {"A", "B"}, argc \in 0 .. 1 :
    question = [kind |-> "call",
                program |-> Hierarchy(CHOOSE super \in Below : TRUE, Open,
                                      "A" :> a @@ "B" :> b @@ "C" :> <<>>, Nothing, <<>>),
                call |-> [via |-> "new", from |-> from, class |-> class, instance |-> class,
                          name |-> "khoi_tao", argc |-> argc]]

Contracts ==
  \E super \in Below, a, b, c \in Maybe("m", Modifiers \cup {"unspecified"}, {<<0, 1>>, <<2, 2>>}),
     own, extended \in {<<>>} \cup {"m" :> total : total \in 1 .. 2},
     implementer \in {"A", "B"}, modifier \in {"unspecified", "private"} :
    \E class \in {"A", "B", "C"}, total \in 1 .. 2 :
      LET program == Hierarchy(super, [Open EXCEPT ![implementer] = modifier],
                               "A" :> a @@ "B" :> b @@ "C" :> c,
                               [Nothing EXCEPT ![implementer] = <<"I">>],
                               "I" :> [extends |-> <<"J">>, signatures |-> own]
                                 @@ "J" :> [extends |-> <<>>, signatures |-> extended])
      IN  /\ Objects!IsSubclassSymbol(program, class, implementer)
          /\ <<"m", total>> \in Objects!CollectRequired(program, "I", {})
          /\ question = [kind |-> "contract", program |-> program,
                         call |-> [via |-> "variable", from |-> "none", class |-> class,
                                   instance |-> class, name |-> "m", argc |-> total]]

Entries ==
  \E run \in Maybe("chay", Modifiers, Arities), create \in Maybe("khoi_tao", Modifiers, Arities),
     inherited \in Maybe("chay", Modifiers, Arities), super \in {"none", "Base"} :
    question = [kind |-> "entry",
                program |-> [order |-> <<"Chinh", "Base">>, super |-> "Chinh" :> super @@ "Base" :> "none",
                             visibility |-> "Chinh" :> "unspecified" @@ "Base" :> "unspecified",
                             methods |-> "Chinh" :> (run @@ create) @@ "Base" :> inherited,
                             implements |-> "Chinh" :> <<>> @@ "Base" :> <<>>, interfaces |-> <<>>]]

Assignments ==
  {[op |-> "new", var |-> v, class |-> c, maybe |-> m] : v \in {"x", "y"}, c \in {"A", "B"}, m \in BOOLEAN}
    \cup {[op |-> "unknown", var |-> v, class |-> "B", maybe |-> m] : v \in {"x", "y"}, m \in BOOLEAN}
    \cup {[op |-> "other", var |-> v, maybe |-> FALSE] : v \in {"x", "y"}}
    \cup {[op |-> "copy", var |-> v, from |-> w, maybe |-> m] :
             <<v, w>> \in {<<"x", "y">>, <<"y", "x">>}, m \in BOOLEAN}
Uses == {[op |-> "call", var |-> v, deferred |-> d] : v \in {"x", "y"}, d \in BOOLEAN}
Inferring ==
  \E a \in Assignments, b, c \in Assignments \cup Uses, d \in Uses :
    question = [kind |-> "inference", statements |-> <<a, b, c, d>>]

-----------------------------------------------------------------------------
(* Programs with foreign functions: those of one subject together, the      *)
(* others alone; each contract with one thing about it changed; functions of *)
(* the host's own for every type of number; and two modules.                *)

Extent(c, i) ==
  CASE c \in {"system.fs.stat", "system.fs.lstat"} -> Foreign!Bytes(256)
    [] c \in {"system.time.monotonic", "system.time.realtime"} -> Foreign!Bytes(16)
    [] c = "system.time.local" -> Foreign!Bytes(IF i = 1 THEN 8 ELSE 64)
    [] c = "system.entropy.read" -> Foreign!LengthOf(2)
    [] c = "system.process.read" -> Foreign!LengthOf(4)
    [] OTHER -> Foreign!LengthOf(3)

Declaration(c, symbol, types, result, library) ==
  [library |-> library, symbol |-> symbol, abi |-> "c", capability |-> c, result |-> result,
   parameters |-> [i \in DOMAIN types |->
     [name |-> i, type |-> types[i],
      extent |-> IF types[i] \in Foreign!BufferTypes THEN Extent(c, i) ELSE Foreign!NoExtent]]]

Declarations(c) ==
  LET b == Foreign!AllContracts[c] IN
  {Declaration(c, symbol, b.parameters, b.result, b.library) : symbol \in b.symbols}
Module(capabilities) ==
  FoldSet(LAMBDA d, module : Append(module, d), <<>>, UNION {Declarations(c) : c \in capabilities})
OwnFunction(type, result) == Declaration("host.own", "own", <<type>>, result, "system.c")

Changes(d) ==
  {[d EXCEPT !.library = "system.process"], [d EXCEPT !.abi = "stdcall"], [d EXCEPT !.result = "i64"]}
    \cup {[d EXCEPT !.symbol = symbol] : symbol \in {"fread", "stat", "getentropy", "clock_gettime"}}
    \cup {[d EXCEPT !.capability = c] : c \in {"host.own", "system.file.read", "system.entropy.read"}}
    \cup UNION {{[d EXCEPT !.parameters[i].type = type] : type \in {"u64", "out", "socket"}} :
                  i \in DOMAIN d.parameters}
    \cup UNION {{[d EXCEPT !.parameters[i].extent = extent] :
                   extent \in {Foreign!Bytes(0), Foreign!Bytes(16), Foreign!Bytes(65537), Foreign!NoExtent}
                     \cup {Foreign!LengthOf(name) : name \in 1 .. 4}} : i \in DOMAIN d.parameters}
    \cup {[d EXCEPT !.parameters[i].name = 3] : i \in DOMAIN d.parameters}

List(length, bytes) == [length |-> length, bytes |-> bytes]
ForeignProgram(modules, someLists, opcodes, calls) ==
  /\ question = [kind |-> "foreign"]
  /\ Foreign!Init([modules |-> modules, lists |-> someLists, opcodes |-> opcodes, calls |-> calls,
                   libraries |-> [l \in {"system.c", "system.net", "system.file", "system.process",
                                         "system.ffi", "other"} |-> l]])

SocketOpcodes ==
  "machine.net.socket.connect" :> <<"in", "i32", "i32", "i32">>
  @@ "machine.net.socket.listen" :> <<"i32", "i32">>
  @@ "machine.net.socket.accept" :> <<"socket">>
  @@ "machine.net.socket.timeout" :> <<"socket", "i32">>
  @@ "machine.net.socket.kind" :> <<"socket">>
  @@ "machine.net.socket.send" :> <<"socket", "in", "u64", "i32">>
  @@ "machine.net.socket.recv" :> <<"socket", "out", "u64", "i32">>
  @@ "machine.net.socket.close" :> <<"socket">>
OpcodeTypes(c) == IF c \in DOMAIN SocketOpcodes THEN SocketOpcodes[c] ELSE Foreign!AllContracts[c].parameters

Files == DOMAIN Foreign!FileContracts \cup DOMAIN Foreign!StreamContracts
Directories == {"system.fs.dir.open", "system.fs.dir.read", "system.fs.dir.close"}
Network == DOMAIN Foreign!SocketContracts \cup DOMAIN Foreign!TlsContracts
Addresses == DOMAIN Foreign!ResolverContracts
Children == DOMAIN Foreign!ProcessContracts
Single == DOMAIN Foreign!AllContracts \ (Files \cup Directories \cup Network \cup Addresses \cup Children)

Together ==
  \/ ForeignProgram(<<Module(Files \cup {"system.ffi.error"})>>, <<List(4, TRUE), List(8, FALSE)>>, {}, "many")
  \/ ForeignProgram(<<Module(Directories \cup {"system.file.open", "system.file.close"})>>, <<>>, {}, "many")
  \/ ForeignProgram(<<Module(Network)>>, <<List(4, TRUE), List(65508, FALSE)>>, Network, "many")
  \/ ForeignProgram(<<>>, <<List(4, TRUE), List(65508, FALSE)>>,
                    DOMAIN SocketOpcodes \cup DOMAIN Foreign!TlsContracts, "many")
  \/ ForeignProgram(<<Module(Addresses)>>, <<>>, Addresses, "many")
  \/ ForeignProgram(<<Module(Children)>>, <<List(2, FALSE), List(4097, TRUE)>>, Children, "many")
Alone ==
  \E c \in Single, first \in {8, 16, 256}, second \in {15, 64, 257} :
    ForeignProgram(<<Module({c})>>, <<List(first, TRUE), List(second, FALSE)>>, {}, "one")
Changed ==
  \E c \in DOMAIN Foreign!AllContracts : \E d \in Declarations(c) : \E changed \in Changes(d) :
    ForeignProgram(<<<<changed>>>>, <<List(16, TRUE), List(256, FALSE)>>, {}, "one")
Own ==
  \E type \in Foreign!IntegerTypes \cup {"f64", "cstring"},
     result \in Foreign!IntegerTypes \cup {"f64", "void", "cstring"} :
    ForeignProgram(<<<<OwnFunction(type, result)>>>>, <<>>, {}, "one")
TwoModules ==
  LET some == {OwnFunction("i32", "u32"), OwnFunction("u64", "i32")} \cup Declarations("system.process.id")
  IN  \E first, second \in BoundedSeq(some, 2) : ForeignProgram(<<first, second>>, <<>>, {}, "one")

(* The values a program has, few of each type where there are several.       *)
Bounds == {-MaxI64 - 1, -MaxI32 - 1, -1, 0, 1, MaxI32, MaxI32 + 1, MaxU32, MaxU32 + 1,
           ExactDouble, ExactDouble + 1, MaxI64, MaxI64 + 1, MaxU64, MaxU64 + 1}
AllValues ==
  {Foreign!IntValue(n) : n \in {n \in Bounds : n \in Foreign!NumbersOf("i32")}}
    \cup {Foreign!Digits(n) : n \in Bounds}
    \cup {Foreign!AbiInteger(n, TRUE) : n \in {n \in Bounds : n \in Foreign!NumbersOf("i64")}}
    \cup {Foreign!AbiInteger(n, FALSE) : n \in {n \in Bounds : n \in Foreign!NumbersOf("u64")}}
    \cup {Foreign!FloatValue(n) : n \in {-1, ExactDouble}}
    \cup {Foreign!Text("x"), Foreign!WithNul, Foreign!Null}

Lengths == {lists[l].length : l \in DOMAIN lists}
Offered(type) ==
  CASE type = "i32" -> {Foreign!IntValue(n) : n \in {0, 1, 2, 65536}}
    [] type = "u32" -> {Foreign!IntValue(0), Foreign!IntValue(511), Foreign!Digits(511)}
    [] type = "i64" -> {Foreign!IntValue(0), Foreign!Digits(5), Foreign!AbiInteger(-1, TRUE)}
    [] type = "u64" -> {Foreign!IntValue(n) : n \in Lengths \cup {1}}
                         \cup {Foreign!AbiInteger(n, FALSE) : n \in Lengths} \cup {Foreign!Digits(2)}
    [] type = "cstring" -> {Foreign!Text(""), Foreign!Text("rb"), Foreign!Digits(80), Foreign!WithNul}
    [] type \in Foreign!BufferTypes -> {Foreign!ListValue(l) : l \in DOMAIN lists}
    [] OTHER -> {Foreign!IntValue(t) : t \in 1 .. LastToken}
Arguments(types) ==
  FoldLeft(LAMBDA some, type : {Append(a, v) : a \in some, v \in Offered(type)}, {<<>>}, types)

-----------------------------------------------------------------------------

Init ==
  /\ answer = <<>>
  /\ \/ "language" \in Parts /\ Language!Init /\ Foreign!Absent
     \/ "engines" \in Parts /\ (Straight \/ Jumping \/ Calling) /\ Foreign!Absent
     \/ "objects" \in Parts /\ Foreign!Absent
          /\ (Cyclic \/ Dispatching \/ Constructing \/ Contracts \/ Entries \/ Inferring)
     \/ "foreign" \in Parts /\ (Together \/ Alone \/ Changed \/ Own \/ TwoModules)

Asked == question.kind

AboutObjects == {"hierarchy", "interfaces", "call", "contract", "entry", "inference"}
AskEditor == Asked \notin {"program", "foreign"} \cup AboutObjects /\ Language!AnswerQuestion
RunProgram == Asked = "program" /\ Jit!RunProgram
UseObjects == Asked \in AboutObjects /\ Objects!AnswerQuestion

Given(f) ==
  IF f.symbol = "own" THEN {<<v>> : v \in AllValues} ELSE Arguments(f.parameters)
CallForeign ==
  /\ source.calls = "many" \/ latest.by = "none"
  /\ \E m \in DOMAIN linked : \E k \in DOMAIN linked[m] :
       Foreign!ForeignCall(Foreign!Linked(m, k), Given(Foreign!Linked(m, k)))
CallMachine == \E c \in source.opcodes : Foreign!MachineCall(c, Arguments(OpcodeTypes(c)))

CallC ==
  /\ Asked = "foreign"
  /\ \/ Foreign!Compile
     \/ Foreign!Running /\ (CallForeign \/ CallMachine)
     \/ Foreign!ResetExecution

Next == ((AskEditor \/ RunProgram \/ UseObjects) /\ UNCHANGED foreign) \/ (CallC /\ UNCHANGED asked)

Spec == Init /\ [][Next]_vars

-----------------------------------------------------------------------------

(* Byte offsets and the positions of the protocol lead to each other.       *)
PositionsReadBack == Language!PositionsReadBack

(* Frames are read whole and in order however the stream is cut.            *)
ChunksDoNotMatter == Language!ChunksDoNotMatter

(* Every request is answered once, in order, about the latest text.         *)
AnswersMatch == Language!AnswersMatch

(* Completion offers exactly the names of the scopes around the offset.     *)
CompletionIsVisible == Language!CompletionIsVisible

(* A rename edits every occurrence once, wherever it is asked for.          *)
RenameFromAnywhere == Language!RenameFromAnywhere

(* The closure JIT and both machine JITs do what the interpreter does.      *)
EnginesAgree == Asked = "program" => Jit!EnginesAgree

(* Cycles of classes and of interfaces are reported.                        *)
CyclesFound == Objects!CyclesFound

(* An accepted hierarchy is created whole, whatever the order of the text.  *)
HierarchyBuilt == Objects!HierarchyBuilt

(* An accepted call through mình, gốc or a constructor runs.                *)
AcceptedCallsRun == Objects!AcceptedCallsRun

(* The analysis and the VM agree about an object of a known class.          *)
VariableCallsAgree == Objects!VariableCallsAgree

(* An accepted class keeps the contracts of its interfaces.                 *)
ContractsKept == Objects!ContractsKept

(* The entry class is refused exactly when starting it would fail.          *)
EntryStarts == Objects!EntryStarts

(* A call reported through an inferred class does fail.                     *)
AlarmsAreReal == Objects!AlarmsAreReal

(* What the editor and the language server say to each other: frames,       *)
(* positions, answers, the names completed and renamed.                     *)
EditorAnswered ==
  PositionsReadBack /\ ChunksDoNotMatter /\ AnswersMatch /\ CompletionIsVisible /\ RenameFromAnywhere

(* Classes that are accepted exist when the program runs, as declared, and  *)
(* what the analysis says of a call is what the VM does with it.            *)
ObjectsBehave ==
  /\ CyclesFound /\ HierarchyBuilt /\ ContractsKept /\ EntryStarts
  /\ AcceptedCallsRun /\ VariableCallsAgree /\ AlarmsAreReal

(* A foreign call runs the function its module declares, gives C the numbers *)
(* it was given, and keeps C inside the buffers and handles of the call.     *)
ForeignCallsRight ==
  Asked = "foreign" =>
    Foreign!CallsAsDeclared /\ Foreign!NumbersKept /\ Foreign!BuffersFit /\ Foreign!HandlesSound
=============================================================================
