------------------------- MODULE ExpressionCompiler -------------------------
(***************************************************************************)
(* From a tree of functions, lambdas and expressions to bytecode: the       *)
(* declarations and captures of the semantic pass (src/compiler/            *)
(* semantic.cpp), the lowering to IR (ir.cpp), the analysis that says which *)
(* IR has bytecode and the emitter (codegen.cpp).                           *)
(*                                                                         *)
(* A node of the tree is a record [k, n, v, kids, ps, body]: kind, name or  *)
(* operator, integer, operands, parameters and body of a lambda.  A         *)
(* statement is [k, n, roots, blocks, ps].  Both are told apart by the path *)
(* that leads to them, and so are scopes and, with their name, symbols.     *)
(* Classes, imports, foreign functions, intrinsics and the exact spelling   *)
(* of the text are not here.                                                *)
(***************************************************************************)
EXTENDS Integers, SequencesExt, FiniteSetsExt, Functions

Node(k, n, v, kids) == [k |-> k, n |-> n, v |-> v, kids |-> kids, ps |-> <<>>, body |-> <<>>]
Lambda(ps, body) == [Node("lambda", "", 0, <<>>) EXCEPT !.ps = ps, !.body = body]
Stmt(k, n, roots, blocks) == [k |-> k, n |-> n, roots |-> roots, blocks |-> blocks, ps |-> <<>>]
Function(n, ps, body) == [Stmt("function", n, <<>>, <<body>>) EXCEPT !.ps = ps]

-----------------------------------------------------------------------------
(* Scopes, innermost first, and the symbols declared in them.               *)

Scope(id, kind) == [id |-> id, kind |-> kind]
Global == Scope(<<>>, "global")
NoSymbol == [at |-> <<>>, n |-> "", kind |-> "none"]

Holding(n, chain, symbols) == {i \in DOMAIN chain : \E s \in symbols : s.at = chain[i].id /\ s.n = n}
LookupLexical(n, chain, symbols) ==
  LET holding == Holding(n, chain, symbols)
  IN  IF holding = {} THEN NoSymbol
      ELSE CHOOSE s \in symbols : s.at = chain[Min(holding)].id /\ s.n = n

ImplicitVariableScope(chain) ==
  LET callables == {i \in DOMAIN chain : chain[i].kind \in {"function", "lambda"}}
  IN  IF callables = {} THEN Global ELSE chain[Min(callables)]
VariableKind(scope) == IF scope = Global THEN "global" ELSE "local"

(* A name already there stays as it is; a declaration says so.              *)
AddSymbol(S, scope, n, kind, diagnose) ==
  IF \E s \in S.symbols : s.at = scope.id /\ s.n = n
  THEN [S EXCEPT !.errors = @ \/ diagnose]
  ELSE [S EXCEPT !.symbols = @ \cup {[at |-> scope.id, n |-> n, kind |-> kind]}]
AddParameters(S, scope, ps) ==
  FoldLeft(LAMBDA acc, p : AddSymbol(acc, scope, p.n, "parameter", TRUE), S, ps)

(* The scopes a statement of block j sees.                                  *)
FunctionScope(path) == Scope(path, "function")
BlockChain(s, path, j, chain) ==
  <<Scope(Append(path, j), "block")>>
    \o (CASE s.k = "function" -> <<FunctionScope(path)>>
          [] s.k = "try" /\ j > 1 -> <<Scope(path \o <<j, 0>>, "catch")>>
          [] OTHER -> <<>>)
    \o chain
LambdaScope(path) == Scope(path, "lambda")
LambdaChain(path, chain) == <<Scope(Append(path, 0), "block"), LambdaScope(path)>> \o chain

\* CHOOSE r \in {f(a) : a \in {acc}} : TRUE is f(acc): it has the accumulator
\* evaluated before f is, which keeps TLC's evaluation of a fold shallow.
RECURSIVE BuildStatementList(_, _, _, _)
BuildStatement(S, s, path, chain) ==
  LET blocks == [j \in DOMAIN s.blocks |-> j]
      Blocks(acc) == FoldLeft(LAMBDA a, j : BuildStatementList(a, s.blocks[j], Append(path, j),
                                                               BlockChain(s, path, j, chain)),
                              acc, blocks)
  IN  CASE s.k = "function" -> Blocks(AddParameters(S, FunctionScope(path), s.ps))
        [] s.k = "var" -> LET scope == ImplicitVariableScope(chain)
                          IN  AddSymbol(S, scope, s.n, VariableKind(scope), TRUE)
        [] s.k = "try" /\ s.n # "" ->
             Blocks(AddSymbol(S, Scope(path \o <<2, 0>>, "catch"), s.n, "catch", TRUE))
        [] OTHER -> Blocks(S)
BuildStatementList(S, list, path, chain) ==
  LET functions == SelectSeq(list, LAMBDA s : s.k = "function")
      predeclared == FoldLeft(LAMBDA acc, s : AddSymbol(acc, Head(chain), s.n, "function", TRUE), S, functions)
  IN  FoldLeftDomain(LAMBDA acc, i : CHOOSE r \in {BuildStatement(a, list[i], Append(path, i), chain) : a \in {acc}} :
                                       TRUE, predeclared, list)

(* What is assigned and found nowhere is a variable of the nearest callable. *)
Target(e) == IF e.k \in {"assign", "compound", "postfix"} THEN Head(e.kids) ELSE e
DeclareAssignmentTarget(S, e, chain) ==
  LET left == Target(e)
      known == LookupLexical(left.n, chain, S.symbols)
      scope == ImplicitVariableScope(chain)
  IN  CASE left = e \/ left.k # "name" -> S
        [] known.kind = "function" -> [S EXCEPT !.errors = TRUE]
        [] known # NoSymbol -> S
        [] OTHER -> AddSymbol(S, scope, left.n, VariableKind(scope), FALSE)

Operands(e) == IF e.k = "map" THEN {i \in DOMAIN e.kids : i % 2 = 0} ELSE DOMAIN e.kids

RECURSIVE DeclareExpression(_, _, _, _), DeclareExpressionVariables(_, _, _, _)
DeclareExpression(S, e, path, chain) ==
  LET declared == DeclareAssignmentTarget(S, e, chain)
      inside == LambdaChain(path, chain)
      built == BuildStatementList(AddParameters(declared, LambdaScope(path), e.ps), e.body, Append(path, 0), inside)
      defaulted == FoldLeftDomain(LAMBDA acc, i :
                     FoldLeft(LAMBDA a, d : DeclareExpression(a, d, path \o <<-1, i>>, Tail(inside)), acc, e.ps[i].d),
                     built, e.ps)
  IN  IF e.k = "lambda" THEN DeclareExpressionVariables(defaulted, e.body, Append(path, 0), inside)
      ELSE FoldLeftDomain(LAMBDA acc, i : IF i \in Operands(e)
                                          THEN DeclareExpression(acc, e.kids[i], Append(path, i), chain)
                                          ELSE acc,
                          declared, e.kids)
DeclareExpressionVariables(S, list, path, chain) ==
  LET One(acc, s, at) ==
        LET defaulted == FoldLeftDomain(LAMBDA a, i :
                           FoldLeft(LAMBDA b, d : DeclareExpression(b, d, at \o <<-1, i>>,
                                                                    <<FunctionScope(at)>> \o chain), a, s.ps[i].d),
                           acc, s.ps)
            rooted == FoldLeftDomain(LAMBDA a, i : DeclareExpression(a, s.roots[i], at \o <<0, i>>, chain),
                                     defaulted, s.roots)
        IN  FoldLeftDomain(LAMBDA a, j : DeclareExpressionVariables(a, s.blocks[j], Append(at, j),
                                                                    BlockChain(s, at, j, chain)),
                           rooted, s.blocks)
  IN  FoldLeftDomain(LAMBDA acc, i : CHOOSE r \in {One(a, list[i], Append(path, i)) : a \in {acc}} : TRUE, S, list)

Declared(program) ==
  DeclareExpressionVariables(
    BuildStatementList([symbols |-> {}, errors |-> FALSE], program, <<>>, <<Global>>),
    program, <<>>, <<Global>>)

-----------------------------------------------------------------------------
(* Lowering: a value is [op, text, v, kids, sym, target, explicit, ps,      *)
(* body, caps].                                                             *)

IsCapturable(s) == s.kind \in {"parameter", "local", "catch"}
IsIndirectCallable(s) == s.kind \in {"parameter", "global", "local", "catch"}

Value(op, e, kids) ==
  [op |-> op, text |-> e.n, v |-> e.v, kids |-> kids, sym |-> NoSymbol, target |-> "none",
   explicit |-> e.k = "explicit", ps |-> <<>>, body |-> <<>>, caps |-> {}]
CallTarget(callee) ==
  CASE callee.op # "LoadName" -> "invalid"
    [] callee.sym.kind = "function" -> "direct"
    [] IsIndirectCallable(callee.sym) -> "indirect"
    [] OTHER -> "dynamic"

RECURSIVE ValuesIn(_), ValuesOf(_)
ValuesIn(value) == {value} \cup UNION {ValuesIn(value.kids[i]) : i \in DOMAIN value.kids}
                     \cup ValuesOf(value.body)
                     \cup UNION {UNION {ValuesIn(p.d[i]) : i \in DOMAIN p.d} : p \in ToSet(value.ps)}
ValuesOf(list) == UNION {UNION {ValuesIn(s.roots[i]) : i \in DOMAIN s.roots}
                           \cup UNION {ValuesOf(s.blocks[j]) : j \in DOMAIN s.blocks} : s \in ToSet(list)}

RECURSIVE LowerExpression(_, _, _, _), LowerStatements(_, _, _, _)
LowerParameters(ps, path, scope, chain, symbols) ==
  [i \in DOMAIN ps |->
    [n |-> ps[i].n, sym |-> LookupLexical(ps[i].n, <<scope>>, symbols),
     d |-> [j \in DOMAIN ps[i].d |-> LowerExpression(ps[i].d[j], path \o <<-1, i>>, <<scope>> \o chain, symbols)]]]
LowerExpression(e, path, chain, symbols) ==
  LET kids == [i \in DOMAIN e.kids |->
                IF i \in Operands(e) THEN LowerExpression(e.kids[i], Append(path, i), chain, symbols)
                ELSE Value(IF e.kids[i].k = "name" THEN "LoadName" ELSE "ConstString", e.kids[i], <<>>)]
      inside == LambdaChain(path, chain)
      body == LowerStatements(e.body, Append(path, 0), inside, symbols)
      ps == LowerParameters(e.ps, path, LambdaScope(path), chain, symbols)
      outer == {s.id : s \in ToSet(chain)}
      lambda == [Value("Lambda", e, <<>>) EXCEPT !.ps = ps, !.body = body]
      Store == IF Head(e.kids).k = "name" THEN "StoreName" ELSE "Unsupported"
  IN  CASE e.k = "int" -> Value("ConstInt", e, <<>>)
        [] e.k = "string" -> Value("ConstString", e, <<>>)
        [] e.k = "null" -> Value("ConstNull", e, <<>>)
        [] e.k = "name" -> [Value("LoadName", e, <<>>) EXCEPT !.sym = LookupLexical(e.n, chain, symbols)]
        [] e.k = "unary" -> Value("Unary", e, kids)
        [] e.k = "binary" -> Value("Binary", e, kids)
        [] e.k = "index" -> Value("Index", e, kids)
        [] e.k = "list" -> Value("ListLiteral", e, kids)
        [] e.k = "map" -> Value("MapLiteral", e, kids)
        [] e.k = "assign" -> Value(IF Head(e.kids).k = "index" THEN "StoreIndex" ELSE Store, e, kids)
        [] e.k \in {"compound", "postfix"} -> Value(Store, e, kids)
        [] e.k \in {"call", "explicit"} ->
             LET target == CallTarget(Head(kids))
             IN  [Value(IF target = "direct" THEN "Call" ELSE "CallDynamic", e, kids) EXCEPT
                    !.text = Head(kids).text, !.target = target, !.sym = Head(kids).sym]
        [] e.k = "lambda" ->
             [lambda EXCEPT !.caps = {used.sym : used \in {u \in ValuesIn(lambda) :
                                        u.op = "LoadName" /\ IsCapturable(u.sym) /\ u.sym.at \in outer}}]

LowerStatements(list, path, chain, symbols) ==
  [i \in DOMAIN list |->
    LET s == list[i]
        at == Append(path, i)
        scope == IF s.k = "function" THEN Head(chain) ELSE ImplicitVariableScope(chain)
    IN  [op |-> s.k, n |-> s.n,
         roots |-> [r \in DOMAIN s.roots |-> LowerExpression(s.roots[r], at \o <<0, r>>, chain, symbols)],
         blocks |-> [j \in DOMAIN s.blocks |-> LowerStatements(s.blocks[j], Append(at, j),
                                                               BlockChain(s, at, j, chain), symbols)],
         ps |-> IF s.k = "function" THEN LowerParameters(s.ps, at, FunctionScope(at), chain, symbols) ELSE <<>>,
         sym |-> IF s.k = "try" THEN LookupLexical(s.n, <<Scope(at \o <<2, 0>>, "catch")>>, symbols)
                 ELSE LookupLexical(s.n, <<scope>>, symbols)]]

(* Known callees are called with as many arguments as they take.            *)
MinimumArguments(ps) == Max({0} \cup {i \in DOMAIN ps : ps[i].d = <<>>})
Functions(ir) == {i \in DOMAIN ir : ir[i].op = "function"}
ArityMismatch(ir) ==
  \E call \in {u \in ValuesOf(ir) : u.op = "Call"} : \E i \in Functions(ir) :
    /\ ir[i].sym = call.sym
    /\ Len(call.kids) - 1 \notin MinimumArguments(ir[i].ps) .. Len(ir[i].ps)
=============================================================================
