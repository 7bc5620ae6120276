------------------------- MODULE FrontendQuestions -------------------------
(***************************************************************************)
(* What is asked of the parser, and of the compiler with the interpreter:   *)
(* token lists, written trees, statements and programs, and what has to be  *)
(* true of each answer.                                                     *)
(***************************************************************************)
EXTENDS Integers, SequencesExt, FiniteSetsExt, Functions, TLC

CONSTANTS MaxTokens,     \* the length of the token lists
          MaxOperators   \* the length of the chains of operators

VARIABLES question, answer

vars == <<question, answer>>

Parser == INSTANCE SyntaxParser
Code == INSTANCE ProgramMeaning

-----------------------------------------------------------------------------
(* Token lists for the parser: every short one over some words, every chain *)
(* of operators, every written tree of two levels, and statements one edit  *)
(* away from well-formed ones.                                              *)


Ask(tokens, kind) == question = [kind |-> kind, tokens |-> tokens]
Alphabet == {"x", "(", ")", "{", "}", ";", "[", "]", "ham", "chon", "thu", "bat loi", "neu", "hoac"}
Texts == \E ts \in BoundedSeq(Alphabet, MaxTokens) : Ask(ts, "tokens")

Operands == {<<"x">>, <<"-", "x">>, <<"!", "x", "++">>}
Between == {"=", "+=", "||", "&&", "==", "<", "+", "*"}
Operators ==
  \E a, b \in Operands : \E more \in BoundedSeq(Between, MaxOperators - 1), o \in Between :
    Ask(a \o <<o>> \o b \o FlattenSeq([k \in DOMAIN more |-> <<more[k], "x">>]), "operators")

T(kind, text, kids) == Parser!Tree(kind, text, kids)
Leaves == {T("name", <<"x">>, <<>>), T("name", <<"y", "in">>, <<>>), T("integer", <<"1">>, <<>>),
           T("boolean", <<"dung">>, <<>>)}
None == T("none", <<>>, <<>>)
Callees(A) == {a \in A : a.kind # "boolean"}
Above(A, B) ==
  {T("assign", <<"=">>, <<a, b>>) : a \in A, b \in B}
    \cup {T("compound", <<"+=">>, <<a, b>>) : a \in A, b \in B}
    \cup {T("binary", <<o>>, <<a, b>>) : o \in {"||", "<", "+", "*"}, a \in A, b \in B}
    \cup {T("index", <<>>, <<a, b>>) : a \in A, b \in B}
    \cup {T("map", <<>>, <<a, b>>) : a \in A, b \in B}
    \cup {T("list", <<>>, <<a, b>>) : a \in A, b \in B}
    \cup {T("call", <<>>, <<a, b>>) : a \in Callees(A), b \in B}
    \cup {T("explicit", <<>>, <<T("name", <<"f", "ham">>, <<>>), a, b>>) : a \in A, b \in B}
    \cup {T(kind, text, <<a>>) : <<kind, text>> \in {<<"unary", <<"-">>>>, <<"postfix", <<"++">>>>,
                                   <<"member", <<"f", "goi">>>>, <<"list", <<>>>>},
                                 a \in A}
    \cup {T("call", <<>>, <<a>>) : a \in Callees(A)}
    \cup {T("lambda", <<>>, <<T("parameter", <<"x", "in">>, <<a>>)>>) : a \in A \cup {None}}
    \cup {T("list", <<>>, <<>>), T("map", <<>>, <<>>)}
Low == Above(Leaves, Leaves)
Few == {T("name", <<"x">>, <<>>)}
Trees == \E tree \in Above(Above(Few, Few), Few) \cup Above(Few, Above(Few, Few)) \cup Low
                     \cup Above(Above(Few, Few), Above(Few, Few)):
           question = [kind |-> "tree", tree |-> tree,
                       tokens |-> <<"in">> \o Parser!Unparse(tree) \o <<";">>]

Templates ==
  {<<"neu", "(", "x", ")", "{", "x", ";", "}", "hoac", "{", "}">>,
   <<"neu", "(", "x", ")", "{", "}", "hoac", "neu", "(", "x", ")", "{", "}">>,
   <<"lap", "(", "x", ";", "x", ";", "x", ")", "{", "}">>,
   <<"thu", "{", "}", "bat loi", "(", "x", ")", "{", "}">>,
   <<"thu", "{", "}", "bat loi", "{", "}">>,
   <<"chon", "(", "x", ")", "{", "ca", "1", ":", "{", "}", "mac dinh", "{", "}", "}">>,
   <<"lop", "rieng tu", "x", "ke thua", "x", "trien khai", "x", "{", "ham", "f", "(", ")", "{", "}", "}">>,
   <<"giao dien", "x", "ke thua", "x", ",", "y", "{", "ham", "f", "(", ")", ";", "}">>,
   <<"bien", "x", "y", "=", "x", "+", "1", ";">>,
   <<"ngoai ham", "f", "(", "x", ":", "y", "[", "1", "]", ",", "y", ":", "x", ")", ":", "x", "tu", "x",
     "ky hieu", "'s'", "kha nang", "'f'", ";", "x">>}
Words == {"x", "1", "(", ")", "{", "}", ";", ":", ",", "hoac", "neu", "ca", "mac dinh", "bat loi", "ham", "="}
Edits(ts) == {RemoveAt(ts, i) : i \in DOMAIN ts}
               \cup {ReplaceAt(ts, i, ts[j]) : i, j \in DOMAIN ts}
               \cup {ReplaceAt(ts, i, w) : i \in DOMAIN ts, w \in Words}
               \cup {InsertAt(ts, i, w) : i \in 1 .. Len(ts) + 1, w \in Words}
Forms == \E t \in Templates : \E one \in Edits(t) \cup {t} : Ask(one, "tokens")

-----------------------------------------------------------------------------
(* Programs, as trees, for the compiler and the interpreter.                *)

Program(statements) == question = [kind |-> "program", program |-> statements]
Num(n) == Code!Node("int", "", n, <<>>)
Str(s) == Code!Node("string", s, 0, <<>>)
V(n) == Code!Node("name", n, 0, <<>>)
Bin(o, a, b) == Code!Node("binary", o, 0, <<a, b>>)
Un(o, a) == Code!Node("unary", o, 0, <<a>>)
At(a, b) == Code!Node("index", "", 0, <<a, b>>)
List(es) == Code!Node("list", "", 0, es)
Map(es) == Code!Node("map", "", 0, es)
Asg(a, b) == Code!Node("assign", "=", 0, <<a, b>>)
Cmp(o, a, b) == Code!Node("compound", o, 0, <<a, b>>)
Post(o, a) == Code!Node("postfix", o, 0, <<a>>)
Call(n, args) == Code!Node("call", n, 0, <<V(n)>> \o args)
Explicit(n, args) == Code!Node("explicit", n, 0, <<V(n)>> \o args)
Par(n) == [n |-> n, d |-> <<>>]
Opt(n, d) == [n |-> n, d |-> <<d>>]
S(k, roots) == Code!Stmt(k, "", roots, <<>>)
E(e) == S("expr", <<e>>)
Out(e) == S("print", <<e>>)
Ret(e) == S("return", <<e>>)
Set(n, e) == E(Asg(V(n), e))
Var(n, e) == Code!Stmt("var", n, <<e>>, <<>>)
If(c, b) == Code!Stmt("if", "", <<c>>, <<b>>)
IfElse(c, a, b) == Code!Stmt("if", "", <<c>>, <<a, b>>)
Loop(n, b) == Code!Stmt("loop", "", <<Asg(V(n), Num(0)), Bin("<", V(n), Num(2)), Post("++", V(n))>>, <<b>>)
Try(n, b, c) == Code!Stmt("try", n, <<>>, <<b, c>>)
Nested(b) == Code!Stmt("block", "", <<>>, <<b>>)
Fn(n, ps, b) == Code!Function(n, ps, b)
Lam(ps, b) == Code!Lambda(ps, b)
Main(b) == Fn("main", <<>>, b)
X == V("x")
P == V("p")
Inc == Set("x", Bin("+", X, Num(1)))
G(args) == Call("g", args)

\* A closure over a name of main, called before and after it changes.
Bodies ==
  {Inc, E(Post("++", X)), Var("x", Num(7)), Set("y", P), E(Cmp("+=", P, X)), Out(X), E(Cmp("-=", X, P)),
   S("throw", <<P>>), If(Bin("<", X, P), <<Ret(X)>>),
   Set("h", Lam(<<>>, <<E(Post("++", X)), Ret(P)>>)), Set("h", Lam(<<Par("x")>>, <<Ret(Bin("+", X, P))>>))}
Results == {Ret(X), Ret(Call("h", <<>>)), Ret(V("h"))}
Uses ==
  {<<E(G(<<Num(4)>>)), Out(G(<<>>))>>, <<Set("k", G(<<>>)), Out(Call("k", <<>>))>>, <<Set("x", Num(3)), Out(G(<<>>))>>,
   <<Loop("i", <<E(G(<<V("i")>>))>>)>>, <<Loop("x", <<Set("g", Lam(<<>>, <<Ret(X)>>))>>), Out(G(<<>>))>>,
   <<Try("e", <<E(G(<<Num(0)>>))>>, <<Out(V("e")), Set("g", Lam(<<>>, <<Ret(V("e"))>>))>>), Out(G(<<>>))>>,
   <<Nested(<<E(Cmp("+=", X, G(<<Num(1)>>)))>>)>>}
Closures == \E b1, b2 \in Bodies, r \in Results, use \in Uses :
  Program(<<Main(<<Set("x", Num(1)), Set("g", Lam(<<Opt("p", Num(2))>>, <<b1, b2, r>>))>> \o use \o <<Out(X)>>)>>)

\* Globals and locals of a name, functions with defaults, recursion.
FBodies ==
  {Inc, Set("x", P), Var("x", Num(5)), E(Post("--", X)), S("throw", <<P>>), Set("y", Bin("-", X, Un("-", P))),
   If(Bin("<", P, Num(3)), <<Ret(Call("f", <<Bin("+", P, Num(1))>>))>>),
   If(Bin("<", P, Num(3)), <<E(Explicit("f", <<Bin("+", P, Num(1))>>)), Out(P)>>),
   Set("k", Lam(<<>>, <<E(Post("++", P)), Ret(Bin("+", X, P))>>))}
FResults == {Ret(X), Ret(V("k")), Ret(Bin("*", Call("k", <<>>), Call("k", <<>>)))}
Headers == {<<Par("p")>>, <<Opt("p", Un("-", Num(1)))>>, <<Par("p"), Opt("x", Num(4))>>}
Calls ==
  {<<Out(Call("f", <<Num(1)>>))>>, <<E(Explicit("f", <<>>))>>, <<Out(Call("f", <<Num(2), Num(3)>>))>>,
   <<Set("a", Call("f", <<Num(1)>>)), Set("b", Call("f", <<Num(2)>>)), Out(Call("a", <<>>)), Out(Call("b", <<>>)),
     Out(Call("a", <<>>))>>,
   <<Set("f2", V("f")), Out(Call("f2", <<Num(3)>>))>>, <<Try("", <<Out(Call("f", <<Num(2)>>))>>, <<Out(X)>>)>>}
FunctionsCalled == \E b1, b2 \in FBodies, r \in FResults, ps \in Headers, call \in Calls :
  \/ Program(<<Var("x", Num(2)), Fn("f", ps, <<b1, b2, r>>), Main(call \o <<Out(X)>>)>>)
  \/ Program(<<Var("x", Num(2)), Main(call), Fn("f", ps, <<b1, b2, r>>), Out(X)>>)

\* Containers are shared by whoever holds them.
C == V("c")
D == V("d")
Keys == {Num(0), Num(2), Str("a")}
Containers == {List(<<Num(1), Num(2)>>), List(<<X, List(<<Num(7)>>)>>), List(<<>>),
               Map(<<Str("a"), Num(1), Str("a"), X>>), Map(<<V("0"), List(<<Num(5)>>)>>)}
Steps == {E(Asg(At(C, key), v)) : key \in Keys, v \in {X, C, Bin("+", X, Num(1))}}
           \cup {Set("d", At(C, Num(0))), E(Asg(At(D, Num(0)), Num(9))), Set("d", C),
                 Out(Bin("+", At(D, Num(0)), G(<<C>>))), E(G(<<D>>)), Set("x", G(<<C>>)),
                 E(Asg(At(At(D, Num(0)), Num(0)), Num(4)))}
ContainersShared == \E c \in Containers, s1, s2 \in Steps, key \in Keys :
  Program(<<Fn("g", <<Par("p")>>, <<E(Asg(At(P, Num(0)), Num(3))), Set("p", Num(0)), Ret(Num(8))>>),
            Main(<<Set("x", Num(6)), Set("c", c), Set("d", List(<<Num(0)>>)), s1, s2, Out(At(C, key)),
                   Out(At(D, Num(0)))>>)>>)

\* What leaves a call, a loop or a handler early.
Atoms == {Out(X), Inc, Ret(X), S("throw", <<X>>), E(Call("t", <<Num(0)>>)), Out(Call("t", <<Num(2)>>))}
Around(a, b) ==
  {Try("e", <<a>>, <<b>>), Try("x", <<a>>, <<b>>), Loop("i", <<a, b>>), If(X, <<a>>), Nested(<<a, b>>),
   If(Un("!", Bin("&&", X, Num(1))), <<a, b>>), IfElse(Bin("==", X, Num(2)), <<a>>, <<b>>)}
EarlyExits == \E a, b, c \in Atoms : \E one \in Around(a, b) : \E two \in Around(one, c) :
  Program(<<Fn("t", <<Par("q")>>, <<If(Bin("<", V("q"), Num(1)), <<S("throw", <<Bin("-", V("q"), Num(5))>>)>>),
                                    Ret(V("q"))>>),
            Fn("f", <<Par("x")>>, <<two, Out(X), Ret(Bin("*", X, Num(2)))>>),
            Main(<<Try("z", <<Out(Call("f", <<Num(1)>>))>>, <<Out(V("z"))>>), Out(Call("f", <<Num(2)>>))>>)>>)

-----------------------------------------------------------------------------

ParserQuestions == Texts \/ Operators \/ Trees \/ Forms
ProgramQuestions == Closures \/ FunctionsCalled \/ ContainersShared \/ EarlyExits

Asked == question.kind

ParseText == Asked \in {"tokens", "operators", "tree"} /\ Parser!AnswerQuestion

CompileAndRun == Asked = "program" /\ Code!AnswerProgram

Next == ParseText \/ CompileAndRun

-----------------------------------------------------------------------------

(* Chains of operators read as the table of precedences says.               *)
PrecedenceKept == Parser!PrecedenceKept

(* A tree that is written down is read back, and so is each subtree.        *)
TreesReadBack == Parser!TreesReadBack

(* Statements tile the text; matching delimiters are all that is asked.     *)
StatementsTile == Parser!StatementsTile

(* A statement has a form exactly where it is written as the grammar says.  *)
FormsAsWritten == Parser!FormsAsWritten

(* What the parser makes of a text is what is written there.                *)
SyntaxRight == PrecedenceKept /\ TreesReadBack /\ StatementsTile /\ FormsAsWritten

(* A program that compiles prints what its tree means and ends as it does:  *)
(* returned, out of its last handler, or in an error.  Slots, captured      *)
(* cells, frames and handlers are not to be seen in what it does.           *)
OutputAsWritten == Asked = "program" => Code!OutputAsWritten
=============================================================================
