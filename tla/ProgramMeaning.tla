---------------------------- MODULE ProgramMeaning ----------------------------
(***************************************************************************)
(* What a program means, read off its tree: docs/semantics.md as a function.*)
(*                                                                         *)
(* A callable owns its parameters, the names it declares and those it       *)
(* assigns that nothing around it owns; each call of it has a fresh cell    *)
(* for each, a handler one for what it catches, and a lambda keeps the      *)
(* cells it was made among.                                                 *)
(* Everything is evaluated once, from left to right.                        *)
(*                                                                         *)
(* Programs are judged as long as they keep to what the documents fix: a    *)
(* name is assigned before it is read, arithmetic is on integers, a result  *)
(* that is used was returned.                                               *)
(***************************************************************************)
EXTENDS ExpressionMachine

VARIABLES question, answer

Unset == <<"unset", 0>>
FunctionValue(n) == <<"function", n>>

-----------------------------------------------------------------------------
(* What a callable owns.                                                    *)

Stored(e) == IF e.k \in {"assign", "compound", "postfix"} /\ Head(e.kids).k = "name" THEN {Head(e.kids).n} ELSE {}
Caught(s, j) == IF s.k = "try" /\ j = 2 THEN {s.n} ELSE {}
RECURSIVE Assigned(_), Introduced(_)
Assigned(list) == UNION {UNION {Stored(s.roots[i]) : i \in DOMAIN s.roots}
                           \cup UNION {Assigned(s.blocks[j]) \ Caught(s, j) : j \in DOMAIN s.blocks}
                         : s \in {t \in ToSet(list) : t.k # "function"}}
Introduced(list) == UNION {(IF s.k = "var" THEN {s.n} ELSE {}) \cup UNION {Introduced(s.blocks[j]) : j \in DOMAIN s.blocks}
                           : s \in {t \in ToSet(list) : t.k # "function"}}
Owned(ps, list, around) == {p.n : p \in ToSet(ps)} \cup Introduced(list) \cup (Assigned(list) \ around)

-----------------------------------------------------------------------------
(* A state: the cells, the containers, what was printed, how the run goes   *)
(* and the last value.  A program is its functions and its global cells.    *)

Fresh == [cells |-> <<>>, objects |-> <<>>, out |-> <<>>, st |-> "run", v |-> Unset]
Going(R) == R.st = "run"
Got(R, v) == IF v = Unset THEN [R EXCEPT !.st = "unjudged", !.v = v] ELSE [R EXCEPT !.v = v]
Stop(R, st) == [R EXCEPT !.st = st]
NewObject(R, o) == [R EXCEPT !.objects = Append(@, o), !.v = Object(Len(R.objects) + 1)]
Cells(R, names, env) ==
  LET Add(n, acc) == [R |-> [acc.R EXCEPT !.cells = Append(@, Unset)], env |-> With(acc.env, n, Len(acc.R.cells) + 1)]
  IN  FoldSet(Add, [R |-> R, env |-> env], names)

Arithmetic == [o \in DOMAIN binaryOpcode |-> BinaryOn[binaryOpcode[o]]]
Before == [o \in Compound |-> CASE o = "+=" -> "+" [] o = "-=" -> "-" [] o = "*=" -> "*"]
Combine(R, o, a, b) == IF Calculable(a, b) THEN Got(R, Arithmetic[o][a[2], b[2]]) ELSE Stop(R, "unjudged")

ElementAt(R, c, index) ==
  LET o == R.objects[c[2]]
  IN  CASE c[1] # "object" -> Stop(R, "unjudged")
        [] o.kind = "map" -> Got(R, IF argToRawString(index) \in DOMAIN o.items THEN o.items[argToRawString(index)]
                                    ELSE Null)
        [] o.kind = "list" /\ InRange(o, index) -> Got(R, o.items[index[2] + 1])
        [] OTHER -> Stop(R, "fault")
WithElement(R, c, index, v) ==
  LET o == R.objects[c[2]]
  IN  CASE c[1] # "object" -> Stop(R, "unjudged")
        [] o.kind = "map" -> [R EXCEPT !.objects[c[2]].items = With(@, argToRawString(index), v)]
        [] o.kind = "list" /\ InRange(o, index) -> [R EXCEPT !.objects[c[2]].items[index[2] + 1] = v]
        [] OTHER -> Stop(R, "fault")

RECURSIVE Eval(_, _, _, _), EvalEach(_, _, _, _), Exec(_, _, _, _)

\* Expressions from left to right; the first that does not evaluate ends it.
Gather(acc, one) == [R |-> one, vs |-> Append(acc.vs, one.v)]
EvalEach(G, acc, es, env) ==
  IF es = <<>> \/ ~Going(acc.R) THEN acc
  ELSE EvalEach(G, Gather(acc, Eval(G, acc.R, Head(es), env)), Tail(es), env)
EvalAll(G, R, es, env) == EvalEach(G, [R |-> R, vs |-> <<>>], es, env)

Default(d) ==
  CASE d.k = "unary" -> IntValue(-d.kids[1].v) [] d.k = "int" -> IntValue(d.v) [] d.k = "string" -> TextValue(d.n)
Returned(done) ==
  CASE done.st = "returned" -> [done EXCEPT !.st = "run"]
    [] Going(done) -> [done EXCEPT !.v = Unset]
    [] OTHER -> done
Apply(G, R, ps, body, around, args) ==
  LET Given(i) == IF i <= Len(args) THEN args[i] ELSE Default(ps[i].d[1])
      required == {i \in DOMAIN ps : ps[i].d = <<>>}
      Entered(made) ==
        Exec(G, FoldLeftDomain(LAMBDA acc, i : [acc EXCEPT !.cells[made.env[ps[i].n]] = Given(i)], made.R, ps),
             body, made.env)
  IN  IF Len(args) \notin Max({0} \cup required) .. Len(ps) THEN Stop(R, "fault")
      ELSE Returned(Entered(Cells(R, Owned(ps, body, DOMAIN around), around)))

\* What a value calls: a function among the globals, a closure among its cells.
Callable(G, R, v) ==
  LET Ordinary(f) == <<[ps |-> f.ps, body |-> f.blocks[1], around |-> G.env]>>
      Closure(o) == IF o.kind = "closure" THEN <<[ps |-> o.fn.ps, body |-> o.fn.body, around |-> o.items]>> ELSE <<>>
  IN  CASE v[1] = "function" -> Ordinary(G.functions[v[2]])
        [] v[1] = "object" -> Closure(R.objects[v[2]])
        [] OTHER -> <<>>
CallValue(G, R, callee, args) ==
  LET Enter(found) == IF found = <<>> THEN Stop(R, "unjudged")
                      ELSE Apply(G, R, found[1].ps, found[1].body, found[1].around, args)
  IN  Enter(Callable(G, R, callee))

NameValue(G, R, n, env) ==
  CASE n \in DOMAIN env -> Got(R, R.cells[env[n]])
    [] n \notin DOMAIN env /\ n \in DOMAIN G.functions -> Got(R, FunctionValue(n))
    [] OTHER -> Stop(R, "unjudged")

Set(R, n, env, v) == IF Going(R) THEN [R EXCEPT !.cells[env[n]] = v] ELSE R
Keep(R, n, env) == Set(R, n, env, R.v)

\* Which parts of an expression are evaluated for it.
ToName(e) == Head(e.kids).k = "name"
Values(e) == SelectSeq([i \in DOMAIN e.kids |-> IF i % 2 = 0 THEN <<e.kids[i]>> ELSE <<>>], LAMBDA p : p # <<>>)
InOrder(e) ==
  CASE e.k \in {"call", "explicit", "compound"} -> Tail(e.kids)
    [] e.k = "map" -> FlattenSeq(Values(e))
    [] e.k \in {"postfix", "lambda"} -> <<>>
    [] e.k = "assign" /\ ToName(e) -> Tail(e.kids)
    [] e.k = "assign" /\ ~ToName(e) -> Head(e.kids).kids \o Tail(e.kids)
    [] OTHER -> e.kids

NewMap(R, e, vs) ==
  LET keys == {e.kids[i].n : i \in {j \in DOMAIN e.kids : j % 2 = 1}}
      Latest(k) == Max({i \in DOMAIN vs : e.kids[2 * i - 1].n = k})
  IN  NewObject(R, MapObject([k \in keys |-> vs[Latest(k)]]))
Negated(R, o, v) ==
  CASE ~IsInt(v) -> Stop(R, "unjudged")
    [] IsInt(v) /\ o = "!" -> Got(R, Truth(v[2] = 0))
    [] IsInt(v) /\ o = "-" -> Got(R, IntValue(-v[2]))
    [] OTHER -> Got(R, v)

\* The value of an expression whose operands have the values vs; before is
\* the value its name had before they were evaluated.
ValueOf(G, R, e, vs, before, env) ==
  CASE e.k = "int" -> Got(R, IntValue(e.v))
    [] e.k = "string" -> Got(R, TextValue(e.n))
    [] e.k = "null" -> Got(R, Null)
    [] e.k = "name" -> NameValue(G, R, e.n, env)
    [] e.k = "lambda" -> NewObject(R, [kind |-> "closure", items |-> env, fn |-> e])
    [] e.k = "list" -> NewObject(R, ListObject(vs))
    [] e.k = "map" -> NewMap(R, e, vs)
    [] e.k = "index" -> ElementAt(R, vs[1], vs[2])
    [] e.k = "binary" -> Combine(R, e.n, vs[1], vs[2])
    [] e.k = "unary" -> Negated(R, e.n, vs[1])
    [] e.k = "postfix" ->
         Keep(Combine(R, IF e.n = "++" THEN "+" ELSE "-", before, IntValue(1)), Head(e.kids).n, env)
    [] e.k = "compound" -> Keep(Combine(R, Before[e.n], before, vs[1]), Head(e.kids).n, env)
    [] e.k = "assign" /\ ToName(e) -> Keep(R, Head(e.kids).n, env)
    [] e.k = "assign" /\ ~ToName(e) -> WithElement(R, vs[1], vs[2], vs[3])
    [] e.k \in {"call", "explicit"} ->
         LET Called(named) == IF Going(named) THEN CallValue(G, named, named.v, vs) ELSE named
         IN  Called(NameValue(G, R, Head(e.kids).n, env))

Eval(G, R, e, env) ==
  LET Of(all, before) == IF Going(all.R) THEN ValueOf(G, all.R, e, all.vs, before, env) ELSE all.R
      From(began) == IF Going(began) THEN Of(EvalAll(G, began, InOrder(e), env), began.v) ELSE began
  IN  From(IF e.k \in {"postfix", "compound"} THEN NameValue(G, R, Head(e.kids).n, env) ELSE R)

-----------------------------------------------------------------------------
(* Statements, each unless an earlier one ended the list.                   *)

Used(R) == IF Going(R) /\ R.v = Unset THEN Stop(R, "unjudged") ELSE R
Tested(R) == IF Going(Used(R)) /\ ~IsInt(R.v) THEN Stop(R, "unjudged") ELSE Used(R)
Holds(v) == v # IntValue(0)
Printable(v) == v[1] \in {"int", "text", "null"}

\* A statement whose expression has the value in R, which it uses.
Finished(R, s, env) ==
  CASE ~Going(R) -> R
    [] Going(R) /\ s.k = "var" -> Keep(R, s.n, env)
    [] Going(R) /\ s.k = "print" -> IF Printable(R.v) THEN [R EXCEPT !.out = Append(@, <<R.v>>)] ELSE Stop(R, "unjudged")
    [] Going(R) /\ s.k = "return" -> Stop(R, "returned")
    [] Going(R) /\ s.k = "throw" -> Stop(R, "thrown")

(* A loop is a conditional whose block ends with the step and the loop       *)
(* again; a handler follows its block, and alone is not passed over when     *)
(* something was thrown.                                                     *)
Evaluated(e) == Stmt("expr", "", <<e>>, <<>>)
Again(s) == [s EXCEPT !.k = "again", !.roots = Tail(@)]
Following(R, s) ==
  CASE s.k \in {"block", "catch"} -> s.blocks[1]
    [] s.k = "try" -> <<[s EXCEPT !.k = "block"], [s EXCEPT !.k = "catch", !.blocks = Tail(@)]>>
    [] s.k = "loop" -> <<Again(s)>>
    [] s.k = "again" -> IF Holds(R.v) THEN s.blocks[1] \o <<Evaluated(s.roots[2]), s>> ELSE <<>>
    [] s.k = "if" -> IF Holds(R.v) THEN s.blocks[1] ELSE IF Len(s.blocks) = 2 THEN s.blocks[2] ELSE <<>>
Compounds == {"block", "try", "catch", "loop", "again", "if"}
Ready(R, s) == IF s.k \in {"if", "again"} THEN Tested(R) ELSE R
Handling(R, s, env) ==
  LET In(made) == [R |-> Set(made.R, s.n, made.env, R.v), env |-> made.env]
  IN  IF s.k = "catch" THEN In(Cells([R EXCEPT !.st = "run"], {s.n}, env)) ELSE [R |-> R, env |-> env]
Reached(R, s) == IF s.k = "catch" THEN R.st = "thrown" ELSE Going(R)

One(G, R, s, env) ==
  LET Inside(h) == IF Going(h.R) THEN Exec(G, h.R, Following(h.R, s), h.env) ELSE h.R
      Done(r) == CASE s.k \in {"expr", "function"} -> r
                   [] s.k \in Compounds -> Inside(Handling(Ready(r, s), s, env))
                   [] OTHER -> Finished(Used(r), s, env)
  IN  Done(IF s.roots # <<>> THEN Eval(G, R, s.roots[1], env)
           ELSE IF s.k \in {"return", "var"} THEN [R EXCEPT !.v = IntValue(0)] ELSE R)
Exec(G, R, list, env) ==
  IF list = <<>> THEN R
  ELSE Exec(G, IF Reached(R, Head(list)) THEN One(G, R, Head(list), env) ELSE R, Tail(list), env)

(* The top-level statements, then `main` if there is one.                   *)
Meaning(program) ==
  LET functions == {i \in DOMAIN program : program[i].k = "function"}
      named == [n \in {program[i].n : i \in functions} |-> program[CHOOSE i \in functions : program[i].n = n]]
      entry == IF Entry \in DOMAIN named THEN <<Evaluated(Node("explicit", Entry, 0, <<Node("name", Entry, 0, <<>>)>>))>> ELSE <<>>
      Over(globals) == Exec([functions |-> named, env |-> globals.env], globals.R, program \o entry, globals.env)
  IN  Over(Cells(Fresh, Owned(<<>>, program, {}), <<>>))

-----------------------------------------------------------------------------
(* A question is a program; the answer what became of it: symbols, IR,  *)
(* code, run and meaning.                                                   *)

Asked == [stage |-> "declared", why |-> "none", declared |-> [symbols |-> {}, errors |-> FALSE], ir |-> <<>>, code |-> <<>>, ran |-> Machine, meant |-> Fresh]
At(stage) == answer # <<>> /\ answer[1].stage = stage /\ answer[1].why = "none"
Declare ==
  /\ answer = <<>>
  /\ answer' = <<[Asked EXCEPT !.declared = Declared(question.program)]>>
Lower ==
  /\ At("declared")
  /\ LET declared == answer[1].declared
         ir == Lowered(question.program, declared.symbols)
     IN  answer' = [answer EXCEPT ![1].ir = ir, ![1].why = Refusal(declared.errors, ir), ![1].declared = Asked.declared,
                                  ![1].stage = "lowered"]
Emit ==
  /\ At("lowered")
  /\ answer' = [answer EXCEPT ![1].code = <<compile(answer[1].ir)>>, ![1].ir = <<>>, ![1].stage = "emitted"]
Execute ==
  /\ At("emitted")
  /\ answer' = [answer EXCEPT ![1].ran = Executed(answer[1].code[1]), ![1].stage = "ran"]
Explain ==
  /\ At("ran")
  /\ answer' = [answer EXCEPT ![1].meant = Meaning(question.program), ![1].stage = "explained"]
AnswerProgram == (Declare \/ Lower \/ Emit \/ Execute \/ Explain) /\ UNCHANGED question

Judged(R) == R.st \in {"run", "thrown", "fault"}
Ends(R) == CASE R.st = "run" -> "halt" [] R.st = "thrown" -> "thrown" [] OTHER -> "fault"
OutputAsWritten ==
  \A a \in ToSet(answer) : a.stage = "explained" /\ Judged(a.meant) =>
    a.ran.status = Ends(a.meant) /\ a.ran.out = a.meant.out
=============================================================================
