------------------------------ MODULE MCControl ------------------------------
(***************************************************************************)
(* Programs for the control machine: every nesting of two statements (of   *)
(* three, for those that own a stack) around every leaf, in a function     *)
(* that may call itself, under top levels that call it with and without a  *)
(* handler.                                                                *)
(***************************************************************************)
EXTENDS LexicalScope, TLC

Print1 == <<Simple("print")>>
Wrap(w, body) ==
    CASE w = "if"     -> If(body)
      [] w = "else"   -> IfElse(Print1, body)
      [] w = "loop"   -> Loop(body)
      [] w = "arm"    -> Switch(<<CaseArm(body), CaseArm(Print1)>>)
      [] w = "default" -> Switch(<<CaseArm(Print1), DefaultArm(body)>>)
      [] w = "try"    -> Try(body, Print1)
      [] w = "catch"  -> Try(<<Simple("throw")>>, body)

Leaves == <<Simple("native"), Simple("throw"), Simple("return"), Simple("continue"),
            Simple("break"), CallOf(1), NewOf(1)>>
Tails == <<<<>>, <<Simple("throw")>>, <<Simple("break")>>, <<Simple("continue")>>>>

\* Where a statement may stand: `thoát` needs a loop or a switch around it in its
\* function, and so does a well-formed `bỏ qua` a loop.  "plain" says that nothing
\* with a stack of its own stands between it and that loop.
RECURSIVE Allowed(_, _, _)
AllowedIn(block, breakable, continuable) ==
    \A i \in DOMAIN block : Allowed(block[i], breakable, continuable)
Allowed(s, breakable, continuable) ==
    CASE s.kind = "break"    -> breakable
      [] s.kind = "continue" -> continuable
      [] s.kind = "if"       -> AllowedIn(s.then, breakable, continuable)
      [] s.kind = "ifelse"   -> AllowedIn(s.then, breakable, continuable)
                                  /\ AllowedIn(s.else, breakable, continuable)
      [] s.kind = "loop"     -> AllowedIn(s.body, TRUE, TRUE)
      [] s.kind = "switch"   -> \A i \in DOMAIN s.arms : AllowedIn(s.arms[i].body, TRUE, FALSE)
      [] s.kind = "try"      -> AllowedIn(s.body, breakable, FALSE)
                                  /\ AllowedIn(s.handler, breakable, continuable)
      [] OTHER -> TRUE

Wraps == <<"if", "else", "loop", "arm", "default", "try", "catch">>
Owners == <<"loop", "arm", "try">>
Lasts == <<<<>>, <<Simple("throw")>>>>

\* The n-th choice of one element from each of the lists: the digits of n.
Digit(list, n) == list[(n % Len(list)) + 1]
Pairs(n) == LET n2 == n \div 7  n3 == n2 \div 7  n4 == n3 \div 7  n5 == n4 \div 4 IN
    <<Wrap(Digit(Wraps, n), <<Wrap(Digit(Wraps, n2), <<Digit(Leaves, n3)>>)>> \o Digit(Tails, n4))>>
        \o Digit(Lasts, n5)
Triples(n) == LET n2 == n \div 3  n3 == n2 \div 3  n4 == n3 \div 3  n5 == n4 \div 7 IN
    <<Wrap(Digit(Owners, n),
           <<Wrap(Digit(Owners, n2), <<Wrap(Digit(Owners, n3), <<Digit(Leaves, n4)>>)>>
                                        \o Digit(Tails, n5))>>), Simple("throw")>>
Bodies == SelectSeq([n \in 1 .. 7 * 7 * 7 * 4 * 2 |-> Pairs(n)]
                      \o [n \in 1 .. 3 * 3 * 3 * 7 * 4 |-> Triples(n)],
                    LAMBDA b : AllowedIn(b, FALSE, FALSE))

TopLevels == {<<Try(<<CallOf(1)>>, Print1)>>,
               <<Loop(<<Try(<<NewOf(1)>>, <<Simple("continue")>>)>>)>>}

Program(top, body) == (0 :> EmitProgram(top)) @@ (1 :> EmitFunctionBody(body))
StructuredPrograms ==
    LET bodies == Bodies IN
    {Program(top, bodies[i]) : top \in TopLevels, i \in 1 .. Len(bodies)}

\* `bỏ qua` in the `thử` body of a loop, and a `ném` after the loop.
ContinueInTry ==
    {Program(<<Loop(<<Try(<<Simple("continue")>>, Print1)>>), Simple("throw")>>, <<>>)}
\* `bỏ qua` in a `chọn` of a loop that stands in an arm of another `chọn`.
ContinueInSwitch ==
    {Program(<<Switch(<<CaseArm(<<Loop(<<Switch(<<CaseArm(<<Simple("continue")>>)>>)>>),
                                     Simple("break")>>)>>)>>, <<>>)}
=============================================================================
