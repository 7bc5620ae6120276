------------------------------ MODULE SyntaxParser ------------------------------
(***************************************************************************)
(* The parser of V++ (src/src/frontend/parser.cpp): a Pratt parser for     *)
(* expressions inside a scanner that cuts the token list into statements.  *)
(* A statement is first cut out by its delimiters, whatever is in it; only *)
(* then the scanner looks for the expressions and the form of it, and what *)
(* it does not recognise it leaves without a form.                         *)
(*                                                                         *)
(* A token is its lexeme (keywords without their accents); its kind is     *)
(* that of the lexer.  Positions are 1-based and ends are exclusive.  The  *)
(* arenas of the parser are trees here: what a failed attempt appended is  *)
(* cut off again by the code and never existed here.                       *)
(***************************************************************************)
EXTENDS Integers, Sequences, FiniteSets, SequencesExt, TLC

VARIABLES question, answer

Numbers == {"1", "2", "7"}
Floats == {"1.5", "."}             \* a lone dot passes for a float
Texts == {"'s'", "'f'"}
Literals == Numbers \cup Floats \cup Texts
Compounds == {"+=", "-=", "*=", "/=", "%="}
Assigning == {"="} \cup Compounds
Comparing == {"==", "!=", "<", ">", "<=", ">="}
Operators == Assigning \cup Comparing \cup
             {"||", "&&", "+", "-", "*", "/", "%", "!", "++", "--"}
Punctuation == {"(", ")", "{", "}", "[", "]", ";", ",", ":"}
Keywords == {"neu", "hoac", "lap", "mac dinh", "ham", "goi", "tra ve", "bien", "in",
             "bo qua", "thoat", "chon", "ca", "dung", "sai", "rong", "nem", "thu",
             "bat loi", "nhap", "lop", "giao dien", "ke thua", "trien khai",
             "cong khai", "rieng tu", "bao ve", "ngoai thu vien", "ngoai ham",
             "ky hieu", "kha nang"}

IsIdentifier(t) == t \notin Literals \cup Operators \cup Punctuation \cup Keywords
\* What ends a name: a callable name may hold any word, an expression may not
\* begin with these.
NotInNames == Literals \cup Operators \cup Punctuation
NotFirstInNames == NotInNames \cup {"dung", "sai", "rong", "ham", "goi"}
\* isNamePiece looks at the spelling only.
IsNamePiece(t) ==
    t \notin Punctuation \cup Comparing \cup
             {"=", "+", "-", "*", "/", "%", "!", "&&", "||"}
Visibilities == {"cong khai", "rieng tu", "bao ve"}

\* A word that follows `)` or `]` may begin with its dot.
Dotted == [x \in {".x", ".f"} |-> IF x = ".x" THEN "x" ELSE "f"]
BeginsWithDot(t) == t = "." \/ t \in DOMAIN Dotted

leftBindingPower(t) ==
    CASE t \in Compounds -> 0
      [] t = "=" -> 1
      [] t = "||" -> 2
      [] t = "&&" -> 3
      [] t \in Comparing -> 4
      [] t \in {"+", "-"} -> 5
      [] t \in {"*", "/", "%"} -> 6
      [] OTHER -> -1
\* Mutant: an assignment is taken for left-associative like the others.
RightOfLevel(t) == leftBindingPower(t) + 1
rightBindingPower(t) == IF t \in Assigning THEN 1 ELSE leftBindingPower(t) + 1

--------------------------------------------------------------------------------
(* Runs of tokens and delimiters.                                          *)

\* The end of the run from `from` of tokens outside stop.
RunEnd(ts, from, end, stop) ==
    CHOOSE i \in from .. end :
        /\ i = end \/ ts[i] \in stop
        /\ \A j \in from .. i - 1 : ts[j] \notin stop

variableNameEnd(ts, begin, end) ==
    IF begin < end /\ IsIdentifier(ts[begin])
    THEN RunEnd(ts, begin + 1, end, NotInNames) ELSE begin
TypeNameEnd(ts, begin, end) ==
    CHOOSE i \in begin .. end :
        /\ i = end \/ ~IsIdentifier(ts[i])
        /\ \A j \in begin .. i - 1 : IsIdentifier(ts[j])

Count(ts, from, to, t) == Cardinality({i \in from .. to : ts[i] = t})
Level(ts, from, to, left, right) == Count(ts, from, to, left) - Count(ts, from, to, right)

\* The delimiter that closes the one at open, or end.
matchingDelimiter(ts, open, end, left, right) ==
    IF open >= end \/ ts[open] # left THEN end
    ELSE CHOOSE i \in open .. end :
            /\ i = end \/ Level(ts, open, i, left, right) = 0
            /\ \A j \in open .. i - 1 : Level(ts, open, j, left, right) # 0

\* Every depth counter is zero in front of i.
Flat(ts, from, i) ==
    /\ Level(ts, from, i - 1, "(", ")") = 0
    /\ Level(ts, from, i - 1, "[", "]") = 0
    /\ Level(ts, from, i - 1, "{", "}") = 0
FlatAt(ts, from, end, t) == {i \in from .. end - 1 : ts[i] = t /\ Flat(ts, from, i)}
Least(S, other) == IF S = {} THEN other ELSE CHOOSE i \in S : \A j \in S : i <= j

\* The parts of a list between flat separators.
Segments(ts, from, end, separator) ==
    LET Between(cuts) == [k \in 1 .. Len(cuts) - 1 |-> [b |-> cuts[k] + 1, e |-> cuts[k + 1]]]
    IN  Between(<<from - 1>> \o SetToSortSeq(FlatAt(ts, from, end, separator), <) \o <<end>>)

--------------------------------------------------------------------------------
(* Expressions: ExpressionReader.  A result is a node and the position     *)
(* after it.                                                               *)

Node(kind, b, e, text, kids) ==
    [kind |-> kind, b |-> b, e |-> e, text |-> text, kids |-> kids]
NoNode == Node("none", 0, 0, <<>>, <<>>)
Read(node, pos) == [node |-> node, pos |-> pos]
Unread == Read(NoNode, 0)
Failed(r) == r.node.kind = "none"
At(ts, pos, end, t) == pos < end /\ ts[pos] = t

literalKind(t) ==
    CASE t \in Numbers -> "integer"
      [] t \in Floats -> "float"
      [] t \in Texts -> "text"
      [] t \in {"dung", "sai"} -> "boolean"
      [] t = "rong" -> "null"
      [] OTHER -> "none"

beginsLambda(ts, begin, end) ==
    /\ At(ts, begin, end, "ham") /\ At(ts, begin + 1, end, "(")
    /\ At(ts, matchingDelimiter(ts, begin + 1, end, "(", ")") + 1, end, "{")

\* Every call of the parser to itself goes through Reading.
RECURSIVE Reading(_, _, _), parsePrefix(_, _, _), parseCall(_, _, _, _), parseLambda(_, _, _), AfterBlock(_, _, _, _)
Expression(ts, pos, end, minimum) == Reading("expression", ts, <<pos, end, minimum>>)
Extended(ts, left, pos, end, minimum) == Reading("extended", ts, <<left, pos, end, minimum>>)
MoreArguments(ts, pos, end, call) == Reading("arguments", ts, <<pos, end, call>>)
MoreElements(ts, pos, end, list) == Reading("elements", ts, <<pos, end, list>>)
MoreEntries(ts, pos, end, map) == Reading("entries", ts, <<pos, end, map>>)
Block(ts, pos) == Reading("block", ts, <<pos>>)
MoreChildren(ts, pos, read) == Reading("children", ts, <<pos, read>>)
OneStatement(ts, pos, insideBlock) == Reading("statement", ts, <<pos, insideBlock>>)
MoreArms(ts, pos, switch) == Reading("arms", ts, <<pos, switch>>)
Further(ts, pos, insideBlock, s) == Reading("scan", ts, <<pos, insideBlock, s>>)

parseExpression(ts, pos, end, minimum) ==
    LET left == parsePrefix(ts, pos, end)
    IN  IF Failed(left) THEN Unread ELSE Extended(ts, left.node, left.pos, end, minimum)

\* What may follow an operand, as long as it binds at least as tightly as minimum.
Extend(ts, left, pos, end, minimum) ==
    IF pos >= end THEN Read(left, pos)
    ELSE IF BeginsWithDot(ts[pos])
    THEN LET from == IF ts[pos] = "." THEN pos + 1 ELSE pos
             to   == RunEnd(ts, from, end, NotInNames)
             text == [i \in 1 .. to - from |->
                          IF i = 1 /\ ts[pos] # "." THEN Dotted[ts[pos]]
                          ELSE ts[from + i - 1]]
         IN  IF from = to THEN Unread
             ELSE Extended(ts, Node("member", left.b, to, text, <<left>>), to, end, minimum)
    ELSE IF ts[pos] = "("
    THEN LET call == parseCall(ts, left, pos, end)
         IN  IF Failed(call) THEN Unread
             ELSE Extended(ts, call.node, call.pos, end, minimum)
    ELSE IF ts[pos] = "["
    THEN LET index == Expression(ts, pos + 1, end, 0)
         IN  IF Failed(index) \/ ~At(ts, index.pos, end, "]") THEN Unread
             ELSE Extended(ts, Node("index", left.b, index.pos + 1, <<>>, <<left, index.node>>),
                         index.pos + 1, end, minimum)
    ELSE IF ts[pos] \in {"++", "--"}
    THEN Extended(ts, Node("postfix", left.b, pos + 1, <<ts[pos]>>, <<left>>),
                pos + 1, end, minimum)
    ELSE IF leftBindingPower(ts[pos]) < minimum THEN Read(left, pos)
    ELSE LET right == Expression(ts, pos + 1, end, rightBindingPower(ts[pos]))
             kind  == IF ts[pos] = "=" THEN "assign"
                      ELSE IF ts[pos] \in Compounds THEN "compound" ELSE "binary"
         IN  IF Failed(right) THEN Unread
             ELSE Extended(ts, Node(kind, left.b, right.node.e, <<ts[pos]>>,
                                  <<left, right.node>>),
                         right.pos, end, minimum)

parseName(ts, pos, end, callable) ==
    LET to == IF pos < end /\ (callable \/ ts[pos] \notin NotFirstInNames)
              THEN RunEnd(ts, pos, end, NotInNames) ELSE pos
    IN  IF to = pos THEN Unread
        ELSE Read(Node("name", pos, to, SubSeq(ts, pos, to - 1), <<>>), to)

parsePrefix(ts, pos, end) ==
    IF pos >= end THEN Unread
    ELSE IF ts[pos] \in {"!", "+", "-"}
    THEN LET operand == Expression(ts, pos + 1, end, 7)
         IN  IF Failed(operand) THEN Unread
             ELSE Read(Node("unary", pos, operand.node.e, <<ts[pos]>>, <<operand.node>>),
                       operand.pos)
    ELSE IF ts[pos] = "("
    THEN LET grouped == Expression(ts, pos + 1, end, 0)
         IN  IF Failed(grouped) \/ ~At(ts, grouped.pos, end, ")") THEN Unread
             ELSE Read([grouped.node EXCEPT !.b = pos, !.e = grouped.pos + 1],
                       grouped.pos + 1)
    ELSE IF ts[pos] = "{" THEN MoreEntries(ts, pos + 1, end, Node("map", pos, 0, <<>>, <<>>))
    ELSE IF ts[pos] = "[" THEN MoreElements(ts, pos + 1, end, Node("list", pos, 0, <<>>, <<>>))
    ELSE IF beginsLambda(ts, pos, end) THEN parseLambda(ts, pos, end)
    ELSE IF ts[pos] = "goi" /\ pos + 1 < end /\ ts[pos + 1] # "("
    THEN LET callee == parseName(ts, pos + 1, end, TRUE)
             call   == IF Failed(callee) THEN Unread
                       ELSE parseCall(ts, callee.node, callee.pos, end)
         IN  IF Failed(call) THEN Unread
             ELSE Read([call.node EXCEPT !.kind = "explicit", !.b = pos], call.pos)
    ELSE IF /\ ts[pos] \notin NotInNames
            /\ At(ts, RunEnd(ts, pos, end, NotInNames), end, "(")
    THEN parseName(ts, pos, end, TRUE)
    ELSE IF literalKind(ts[pos]) # "none"
    THEN Read(Node(literalKind(ts[pos]), pos, pos + 1, <<ts[pos]>>, <<>>), pos + 1)
    ELSE parseName(ts, pos, end, FALSE)

\* The call's kids: the callee, then the arguments.
parseCall(ts, callee, pos, end) ==
    IF ~At(ts, pos, end, "(") THEN Unread
    ELSE LET call == Node("call", callee.b, 0, <<>>, <<callee>>)
         IN  IF At(ts, pos + 1, end, ")")
             THEN Read([call EXCEPT !.e = pos + 2], pos + 2)
             ELSE MoreArguments(ts, pos + 1, end, call)

\* No comma stands before the closing parenthesis ...
Arguments(ts, pos, end, call) ==
    LET argument == Expression(ts, pos, end, 0)
        next     == [call EXCEPT !.kids = Append(@, argument.node), !.e = argument.pos + 1]
    IN  IF Failed(argument) THEN Unread
        ELSE IF At(ts, argument.pos, end, ")") THEN Read(next, argument.pos + 1)
        ELSE IF At(ts, argument.pos, end, ",") /\ ~At(ts, argument.pos + 1, end, ")")
        THEN MoreArguments(ts, argument.pos + 1, end, next)
        ELSE Unread

\* ... nor before the closing bracket of a list ...
Elements(ts, pos, end, list) ==
    IF At(ts, pos, end, "]") THEN Read([list EXCEPT !.e = pos + 1], pos + 1)
    ELSE LET element == Expression(ts, pos, end, 0)
             next    == [list EXCEPT !.kids = Append(@, element.node)]
         IN  IF Failed(element) THEN Unread
             ELSE IF At(ts, element.pos, end, ",")
             THEN IF At(ts, element.pos + 1, end, "]") THEN Unread
                  ELSE MoreElements(ts, element.pos + 1, end, next)
             ELSE IF At(ts, element.pos, end, "]")
             THEN Read([next EXCEPT !.e = element.pos + 1], element.pos + 1)
             ELSE Unread

\* ... but it may before the closing brace of a map.
Entries(ts, pos, end, map) ==
    IF At(ts, pos, end, "}") THEN Read([map EXCEPT !.e = pos + 1], pos + 1)
    ELSE LET key   == Expression(ts, pos, end, 0)
             value == IF Failed(key) \/ ~At(ts, key.pos, end, ":") THEN Unread
                      ELSE Expression(ts, key.pos + 1, end, 0)
             next  == [map EXCEPT !.kids = @ \o <<key.node, value.node>>]
         IN  IF Failed(value) THEN Unread
             ELSE IF At(ts, value.pos, end, ",") THEN MoreEntries(ts, value.pos + 1, end, next)
             ELSE IF At(ts, value.pos, end, "}")
             THEN Read([next EXCEPT !.e = value.pos + 1], value.pos + 1)
             ELSE Unread

\* A parameter `name [= default]`; NoNode where there is no default.
Parameter(ts, part) ==
    LET Split(equals, value) ==
            [name |-> SubSeq(ts, part.b, equals - 1), hasDefault |-> equals < part.e,
             value |-> IF equals < part.e /\ value.pos = part.e THEN value.node ELSE NoNode]
        Cut(equals) == Split(equals, Expression(ts, equals + 1, part.e, 0))
    IN  Cut(Least(FlatAt(ts, part.b, part.e, "="), part.e))

\* hàm (parameters) { body }.  A comma may follow the last parameter.
parseLambda(ts, pos, end) ==
    LET Made(parameters, close, bodyEnd, body) ==
            IF \/ close = end
               \/ \E k \in DOMAIN parameters :
                      \/ parameters[k].name = <<>>
                      \/ parameters[k].hasDefault /\ parameters[k].value = NoNode
               \/ bodyEnd > end
               \/ ~body.ok \/ body.pos # bodyEnd
            THEN Unread
            ELSE Read(Node("lambda", pos, bodyEnd, <<>>,
                           [k \in DOMAIN parameters |-> parameters[k].value])
                      @@ [parameters |-> parameters, body |-> body.st], bodyEnd)
        Given(parts, close) == IF parts[Len(parts)].b = close THEN Front(parts) ELSE parts
        Parameters(parts) == [k \in DOMAIN parts |-> Parameter(ts, parts[k])]
        Closed(close) == Made(Parameters(Given(Segments(ts, pos + 2, close, ","), close)), close,
                              matchingDelimiter(ts, close + 1, end, "{", "}") + 1, Block(ts, close + 1))
    IN  Closed(Least(FlatAt(ts, pos + 2, end, ")"), end))

\* An expression that fills the range, statement ends at its end left out.
tryParseExpression(ts, begin, end) ==
    LET last == CHOOSE i \in begin .. end :
                    /\ \A j \in i .. end - 1 : ts[j] = ";"
                    /\ i = begin \/ ts[i - 1] # ";"
        Filling(root) == IF root.pos = last THEN root.node ELSE NoNode
    IN  Filling(Expression(ts, begin, last, 0))

--------------------------------------------------------------------------------
(* Statements.  A result says whether a ParseError was thrown.             *)

Statement(kind, b) ==
    [kind |-> kind, b |-> b, e |-> 0, form |-> "none", name |-> <<>>, roots |-> <<>>,
     children |-> <<>>, parameters |-> <<>>, parents |-> <<>>, arms |-> <<>>]
Thrown == [ok |-> FALSE, st |-> Statement("none", 0), pos |-> 0]
Parsed(st, pos) == [ok |-> TRUE, st |-> [st EXCEPT !.e = pos], pos |-> pos]

kindOf ==
    [t \in {"nhap", "ngoai thu vien", "ngoai ham", "ham", "lop", "giao dien", "neu",
            "lap", "chon", "tra ve", "in", "thoat", "bo qua", "nem", "thu", "bien",
            ";", "{"} |->
        CASE t = "nhap" -> "import"
          [] t = "ngoai thu vien" -> "foreign library"
          [] t = "ngoai ham" -> "foreign function"
          [] t = "ham" -> "function"
          [] t = "lop" -> "class"
          [] t = "giao dien" -> "interface"
          [] t = "neu" -> "conditional"
          [] t = "lap" -> "loop"
          [] t = "chon" -> "switch"
          [] t = "tra ve" -> "return"
          [] t = "in" -> "print"
          [] t = "thoat" -> "break"
          [] t = "bo qua" -> "continue"
          [] t = "nem" -> "throw"
          [] t = "thu" -> "try"
          [] t = "bien" -> "variable"
          [] t = ";" -> "empty"
          [] t = "{" -> "block"]
classify(ts, begin) ==
    IF ts[begin] = "cong khai" /\ At(ts, begin + 1, Len(ts) + 1, "nhap") THEN "import"
    ELSE IF ts[begin] \in DOMAIN kindOf THEN kindOf[ts[begin]] ELSE "expression"

isCompound(kind) ==
    kind \in {"function", "class", "interface", "conditional", "loop", "switch", "try"}

End(ts) == Len(ts) + 1

\* The statements up to a closing brace, or to the end.
Children(ts, pos, read) ==
    IF pos = End(ts) \/ ts[pos] = "}" THEN [ok |-> TRUE, children |-> read, pos |-> pos]
    ELSE LET next == OneStatement(ts, pos, TRUE)
         IN  IF ~next.ok THEN [ok |-> FALSE, children |-> <<>>, pos |-> 0]
             ELSE MoreChildren(ts, next.pos, Append(read, next.st))

parseBlock(ts, pos) ==
    IF ~At(ts, pos, End(ts), "{") THEN Thrown
    ELSE LET inner == MoreChildren(ts, pos + 1, <<>>)
         IN  IF ~inner.ok \/ inner.pos = End(ts) THEN Thrown
             ELSE Parsed([Statement("block", pos) EXCEPT !.children = inner.children],
                         inner.pos + 1)

\* The arms of a structured switch up to its closing brace.  Whatever does not
\* fit, an error inside an arm included, takes back the whole attempt.
SwitchArms(ts, pos, switch) ==
    IF pos >= End(ts) THEN Thrown
    ELSE IF ts[pos] = "}" THEN Parsed([switch EXCEPT !.form = "structured"], pos + 1)
    ELSE IF ts[pos] = ";" THEN MoreArms(ts, pos + 1, switch)
    ELSE LET prefixed  == ts[pos] = "ca"
             labelAt   == IF prefixed THEN pos + 1 ELSE pos
             isDefault == At(ts, labelAt, End(ts), "mac dinh")
             label     == IF isDefault \/ labelAt >= End(ts) THEN NoNode
                          ELSE tryParseExpression(ts, labelAt, labelAt + 1)
             bodyAt    == IF At(ts, labelAt + 1, End(ts), ":") THEN labelAt + 2 ELSE labelAt + 1
             body      == Block(ts, bodyAt)
         IN  IF \/ ~isDefault /\ (~prefixed \/ label = NoNode)
                \/ ~body.ok
             THEN Thrown
             ELSE MoreArms(ts, body.pos,
                      [switch EXCEPT
                          !.arms = Append(@, [isDefault |-> isDefault,
                                              prefixed |-> prefixed, label |-> label]),
                          !.roots = IF isDefault THEN @ ELSE Append(@, label),
                          !.children = Append(@, body.st)])

tryParseStructuredSwitch(ts, pos) ==
    LET close    == matchingDelimiter(ts, pos + 1, End(ts), "(", ")")
        selector == tryParseExpression(ts, pos + 2, close)
    IN  IF \/ ~At(ts, pos + 1, End(ts), "(") \/ close = End(ts)
           \/ selector = NoNode \/ ~At(ts, close + 1, End(ts), "{")
        THEN Thrown
        ELSE MoreArms(ts, close + 2,
                        [Statement("switch", pos) EXCEPT !.roots = <<selector>>])

\* The scanner: it cuts the statement out by its delimiters and reads the
\* blocks of a compound one on the way.
Scan(ts, pos, insideBlock, s) ==
    IF pos >= End(ts) THEN [s EXCEPT !.pos = pos]
    ELSE LET t == ts[pos]
             top == IF s.open = <<>> THEN "none" ELSE Last(s.open)
             isBody == s.open = <<>> /\ isCompound(s.st.kind)
             Go(open) == Further(ts, pos + 1, insideBlock, [s EXCEPT !.open = open])
         IN  IF t \in {"(", "["} \/ (t = "{" /\ ~isBody)
             THEN Go(Append(s.open, t))
             ELSE IF t = ")" THEN IF top = "(" THEN Go(Front(s.open)) ELSE [s EXCEPT !.ok = FALSE]
             ELSE IF t = "]" THEN IF top = "[" THEN Go(Front(s.open)) ELSE [s EXCEPT !.ok = FALSE]
             ELSE IF t = "}" /\ Contains(s.open, "{")
             THEN IF top = "{" THEN Go(Front(s.open)) ELSE [s EXCEPT !.ok = FALSE]
             ELSE IF t = "}"
             THEN IF insideBlock THEN [s EXCEPT !.pos = pos] ELSE [s EXCEPT !.ok = FALSE]
             ELSE IF t = "{" THEN AfterBlock(ts, insideBlock, s, Block(ts, pos))
             ELSE IF t = ";" /\ s.open = <<>> THEN [s EXCEPT !.pos = pos + 1]
             ELSE Go(s.open)

\* A block of a compound statement was read: `hoặc` and `bắt lỗi` continue it.
AfterBlock(ts, insideBlock, s, block) ==
    LET children == Append(s.st.children, block.st)
        kind     == s.st.kind
        next     == [s EXCEPT !.st.children = children, !.pos = block.pos]
        pos      == block.pos
    IN  IF ~block.ok THEN [s EXCEPT !.ok = FALSE]
        ELSE IF kind = "conditional" /\ At(ts, pos, End(ts), "hoac")
        THEN IF Len(children) > 1 THEN [s EXCEPT !.ok = FALSE]
             ELSE IF At(ts, pos + 1, End(ts), "neu")
             THEN LET nested == OneStatement(ts, pos + 1, insideBlock)
                  IN  IF ~nested.ok THEN [s EXCEPT !.ok = FALSE]
                      ELSE [next EXCEPT
                                !.pos = nested.pos,
                                !.st.children = Append(@,
                                    [Statement("block", pos + 1) EXCEPT
                                        !.e = nested.pos, !.children = <<nested.st>>])]
             ELSE IF At(ts, pos + 1, End(ts), "{") THEN Further(ts, pos, insideBlock, next)
             ELSE [s EXCEPT !.ok = FALSE]
        ELSE IF /\ kind = "conditional" /\ At(ts, pos, End(ts), "neu")
                /\ At(ts, pos + 1, End(ts), "khong")
        THEN [s EXCEPT !.ok = FALSE]
        ELSE IF kind = "try" /\ Len(children) = 1 /\ At(ts, pos, End(ts), "bat loi")
        THEN Further(ts, pos, insideBlock, next)
        ELSE next

Words(ts, from, to) == SubSeq(ts, from, to - 1)
AfterVisibility(ts, pos, end) ==
    IF pos < end /\ ts[pos] \in Visibilities THEN pos + 1 ELSE pos

declarationName(ts, b, e, kind) ==
    CASE kind = "variable" -> Words(ts, b + 1, variableNameEnd(ts, b + 1, e))
      [] kind \in {"class", "interface"} ->
             LET from == AfterVisibility(ts, b + 1, e)
             IN  Words(ts, from, TypeNameEnd(ts, from, e))
      [] kind \in {"foreign library", "foreign function"} ->
             IF b + 1 < e /\ IsNamePiece(ts[b + 1]) THEN <<ts[b + 1]>> ELSE <<>>
      [] kind = "function" ->
             LET from == AfterVisibility(ts, b + 1, e)
             IN  Words(ts, from,
                       Least({i \in from .. e - 1 : ~IsNamePiece(ts[i])}, e))
      [] OTHER -> <<>>

\* The parameters of a function stand in the first parentheses of the
\* statement, wherever those are.  An empty part and one that begins with `=`
\* are passed over.
attachDeclarationPayload(ts, st) ==
    LET Split(part, equals) ==
            [name |-> Words(ts, part.b, equals), hasDefault |-> equals < part.e,
             value |-> IF equals < part.e THEN tryParseExpression(ts, equals + 1, part.e) ELSE NoNode]
        Named(parts) ==
            SelectSeq([k \in DOMAIN parts |->
                           Split(parts[k], Least(FlatAt(ts, parts[k].b, parts[k].e, "="), parts[k].e))],
                      LAMBDA parameter : parameter.name # <<>>)
        Parameters(open, close) == IF close = st.e THEN <<>> ELSE Named(Segments(ts, open + 1, close, ","))
        Opened(open) == Parameters(open, matchingDelimiter(ts, open, st.e, "(", ")"))
    IN  IF st.kind # "function" THEN st
        ELSE [st EXCEPT !.parameters =
                Opened(Least({i \in AfterVisibility(ts, st.b + 1, st.e) .. st.e - 1 : ts[i] = "("}, st.e))]

\* nhập target [như alias];  The words of a target that have a dot in them
\* carry a file extension if no separator follows.
PathSeparators == {"/", "\\"}
WithExtension == {"m.vi", "m.x"}
ImportTarget(ts, st) ==
    LET from == IF ts[st.b] = "cong khai" THEN st.b + 2 ELSE st.b + 1
    IN  [b |-> from, e |-> RunEnd(ts, from, st.e - 1, {"nhu"})]
ImportAliasOK(ts, st, target) ==
    \/ target.e = st.e - 1
    \/ /\ target.e + 1 < st.e - 1
       /\ variableNameEnd(ts, target.e + 1, st.e - 1) = st.e - 1
ImportTried(ts, st) ==
    /\ st.kind = "import" /\ st.b + 2 < st.e /\ ts[st.e - 1] = ";"
    /\ ImportTarget(ts, st).b < st.e - 1
importThrows(ts, st) ==
    LET target == ImportTarget(ts, st)
    IN  /\ ImportTried(ts, st)
        /\ \/ ts[target.b] \in Texts
           \/ \E i \in target.b .. target.e - 1 : ts[i] = ","
           \/ target.b < target.e /\ ts[target.e - 1] = "m.vi"
attachImportForm(ts, st) ==
    LET target == ImportTarget(ts, st)
        extended == \E i \in target.b .. target.e - 1 :
                        /\ ts[i] \in WithExtension
                        /\ \A j \in i + 1 .. target.e - 1 : ts[j] \notin PathSeparators
    IN  IF /\ ImportTried(ts, st) /\ target.b < target.e /\ ~extended
           /\ ImportAliasOK(ts, st, target)
        THEN [st EXCEPT !.form = "local"] ELSE st

\* The two foreign declarations have one form each; anything else throws.
RECURSIVE ForeignParameters(_, _, _), ForeignAttributes(_, _, _, _)
ForeignParameters(ts, pos, last) ==
    IF pos >= last \/ ts[pos] = ")" THEN pos
    ELSE LET extent == At(ts, pos + 3, last, "[")
             after  == IF extent THEN pos + 6 ELSE pos + 3
         IN  IF \/ ~IsNamePiece(ts[pos]) \/ ~At(ts, pos + 1, last, ":")
                \/ pos + 2 >= last \/ ~IsNamePiece(ts[pos + 2])
                \/ extent /\ \/ pos + 4 >= last \/ ~At(ts, pos + 5, last, "]")
                             \/ ~IsNamePiece(ts[pos + 4]) /\ ts[pos + 4] \notin Numbers
             THEN last
             ELSE IF At(ts, after, last, ",") THEN ForeignParameters(ts, after + 1, last)
             ELSE IF At(ts, after, last, ")") THEN after ELSE last
ForeignAttributes(ts, pos, last, capable) ==
    IF pos = last THEN capable
    ELSE /\ ts[pos] \in {"abi", "kha nang"}
         /\ pos + 1 < last /\ ts[pos + 1] \in Texts
         /\ ForeignAttributes(ts, pos + 2, last, capable \/ ts[pos] = "kha nang")
foreignThrows(ts, st) ==
    LET last  == st.e - 1
        close == ForeignParameters(ts, st.b + 3, last)
    IN  CASE st.kind = "foreign library" ->
                ~ /\ st.e - st.b = 5 /\ ts[last] = ";"
                  /\ ts[st.b + 2] = "=" /\ ts[st.b + 3] \in Texts
          [] st.kind = "foreign function" ->
                ~ /\ st.e > st.b + 1 /\ ts[last] = ";"
                  /\ st.b + 1 < last /\ IsNamePiece(ts[st.b + 1])
                  /\ At(ts, st.b + 2, last, "(") /\ At(ts, close, last, ")")
                  /\ At(ts, close + 1, last, ":")
                  /\ close + 2 < last /\ IsNamePiece(ts[close + 2])
                  /\ At(ts, close + 3, last, "tu")
                  /\ close + 4 < last /\ IsNamePiece(ts[close + 4])
                  /\ At(ts, close + 5, last, "ky hieu")
                  /\ close + 6 < last /\ ts[close + 6] \in Texts
                  /\ ForeignAttributes(ts, close + 7, last, FALSE)
          [] OTHER -> FALSE

\* The expressions of a statement; one that cannot be read is left out.
attachExpressionRoots(ts, st) ==
    LET Attach(parts) ==
            [st EXCEPT !.roots =
                SelectSeq([k \in DOMAIN parts |-> tryParseExpression(ts, parts[k].b, parts[k].e)],
                          LAMBDA n : n # NoNode)]
        Assigned(initial) ==
            IF At(ts, initial, st.e, "=") THEN <<[b |-> initial + 1, e |-> st.e]>> ELSE <<>>
        Enclosed(open, close) ==
            IF close = st.e THEN <<>>
            ELSE IF st.kind = "loop" THEN Segments(ts, open + 1, close, ";")
            ELSE <<[b |-> open + 1, e |-> close]>>
        Opened(open) == Enclosed(open, matchingDelimiter(ts, open, st.e, "(", ")"))
    IN  Attach(CASE st.kind = "variable" -> Assigned(variableNameEnd(ts, st.b + 1, st.e))
                 [] st.kind = "expression" -> <<[b |-> st.b, e |-> st.e]>>
                 [] st.kind \in {"print", "return", "throw"} -> <<[b |-> st.b + 1, e |-> st.e]>>
                 [] st.kind \in {"conditional", "switch", "loop"} ->
                        Opened(Least({i \in st.b + 1 .. st.e - 1 : ts[i] = "("}, st.e))
                 [] OTHER -> <<>>)

\* A list of type names from pos: the names and the position after them, or
\* no names where one is missing.
RECURSIVE TypeNames(_, _, _, _)
TypeNames(ts, pos, end, names) ==
    LET to == TypeNameEnd(ts, pos, end)
        read == Append(names, Words(ts, pos, to))
    IN  IF to = pos THEN [names |-> <<>>, pos |-> pos]
        ELSE IF At(ts, to, end, ",") THEN TypeNames(ts, to + 1, end, read)
        ELSE [names |-> read, pos |-> to]

\* What follows the name: [kế thừa A] [triển khai B, C] for a class, [kế thừa
\* A, B] for an interface; then the body, which holds only methods.
attachClassForm(ts, st) ==
    LET from  == AfterVisibility(ts, st.b + 1, st.e)
        named == TypeNameEnd(ts, from, st.e)
        heir  == named < st.e /\ ts[named] \in {"ke thua", ":"}
        super == IF heir /\ st.kind = "class"
                 THEN LET to == TypeNameEnd(ts, named + 1, st.e)
                      IN  [names |-> <<Words(ts, named + 1, to)>>,
                           pos |-> IF to = named + 1 THEN st.e ELSE to]
                 ELSE IF heir THEN TypeNames(ts, named + 1, st.e, <<>>)
                 ELSE [names |-> <<>>, pos |-> named]
        promises == st.kind = "class" /\ At(ts, super.pos, st.e, "trien khai")
        types == IF promises THEN TypeNames(ts, super.pos + 1, st.e, <<>>)
                 ELSE [names |-> <<>>, pos |-> super.pos]
        IsMember(member) ==
            \/ member.kind = "empty"
            \/ member.kind = "function" /\ (st.kind = "class" \/ member.children = <<>>)
    IN  IF /\ st.kind \in {"class", "interface"} /\ Len(st.children) = 1
           /\ named > from
           /\ heir => super.names # <<>>
           /\ promises => types.names # <<>>
           /\ At(ts, types.pos, st.e, "{")
           /\ st.children[1].b = types.pos /\ st.children[1].e = st.e
           /\ \A k \in DOMAIN st.children[1].children : IsMember(st.children[1].children[k])
        THEN [st EXCEPT !.form = "methods", !.parents = super.names \o types.names]
        ELSE st

attachConditionalForm(ts, st) ==
    LET close == matchingDelimiter(ts, st.b + 1, st.e, "(", ")")
        then  == st.children[1]
        else  == st.children[2]
    IN  IF \/ st.kind # "conditional" \/ Len(st.roots) # 1
           \/ ~At(ts, st.b + 1, st.e, "(") \/ ~At(ts, close + 1, st.e, "{")
           \/ st.children = <<>> \/ then.b # close + 1
        THEN st
        ELSE IF Len(st.children) = 1 /\ then.e = st.e THEN [st EXCEPT !.form = "if"]
        ELSE IF /\ Len(st.children) = 2 /\ At(ts, then.e, st.e, "hoac")
                /\ else.b = then.e + 1 /\ else.e = st.e
        THEN [st EXCEPT !.form = "if else"]
        ELSE st

attachLoopForm(ts, st) ==
    LET close == matchingDelimiter(ts, st.b + 1, st.e, "(", ")")
    IN  IF /\ st.kind = "loop" /\ Len(st.roots) = 3 /\ Len(st.children) = 1
           /\ At(ts, st.b + 1, st.e, "(") /\ At(ts, close + 1, st.e, "{")
           /\ st.children[1].b = close + 1 /\ st.children[1].e = st.e
           /\ Cardinality(FlatAt(ts, st.b + 2, close, ";")) = 2
        THEN [st EXCEPT !.form = "for"] ELSE st

attachTryForm(ts, st) ==
    LET body    == st.children[1]
        handler == st.children[2]
        open    == body.e + 1
        close   == matchingDelimiter(ts, open, handler.b, "(", ")")
        bound   == At(ts, open, handler.b, "(")
        name    == IF bound THEN Words(ts, open + 1, close) ELSE <<>>
    IN  IF /\ st.kind = "try" /\ Len(st.children) = 2
           /\ body.b = st.b + 1 /\ body.e < st.e /\ handler.e = st.e
           /\ ts[body.e] = "bat loi"
           /\ IF bound
              THEN /\ close < handler.b /\ name # <<>>
                   /\ variableNameEnd(ts, open + 1, close) = close
                   /\ handler.b = close + 1
              ELSE handler.b = open
        THEN [st EXCEPT !.form = "try", !.name = name] ELSE st

\* biến name [= expression];
variableThrows(ts, st) ==
    LET after == variableNameEnd(ts, st.b + 1, st.e)
    IN  /\ st.kind = "variable"
        /\ \/ st.name = <<>> \/ st.e <= after \/ ts[st.e - 1] # ";"
           \/ after # st.e - 1 /\ ts[after] # "="
           \/ after < st.e - 1 /\ Len(attachExpressionRoots(ts, st).roots) # 1

\* A statement that was cut out: with its forms, unless one it must have is missing.
WithForms(ts, st) ==
    attachTryForm(ts, attachLoopForm(ts, attachConditionalForm(ts,
        attachClassForm(ts, attachExpressionRoots(ts, attachImportForm(ts,
            attachDeclarationPayload(ts, st)))))))
Judged(ts, st, formed) ==
    IF \/ variableThrows(ts, st) \/ importThrows(ts, st) \/ foreignThrows(ts, st)
       \/ st.kind = "conditional" /\ formed.form = "none"
    THEN Thrown ELSE Parsed(formed, st.e)
Formed(ts, st) == Judged(ts, st, WithForms(ts, st))
CutOut(ts, pos, cut, kind) ==
    IF ~cut.ok \/ cut.open # <<>> THEN Thrown
    ELSE Formed(ts, [cut.st EXCEPT !.e = cut.pos, !.name = declarationName(ts, pos, cut.pos, kind)])
Scanned(ts, pos, insideBlock, kind) ==
    CutOut(ts, pos, Further(ts, pos, insideBlock,
                            [ok |-> TRUE, pos |-> pos, open |-> <<>>, st |-> Statement(kind, pos)]), kind)
OfKind(ts, pos, insideBlock, kind, switch) ==
    CASE kind = "empty" -> Parsed(Statement("empty", pos), pos + 1)
      [] kind = "block" -> Block(ts, pos)
      [] kind = "switch" /\ switch.ok -> switch
      [] OTHER -> Scanned(ts, pos, insideBlock, kind)
parseStatement(ts, pos, insideBlock) ==
    IF ts[pos] = "hoac" THEN Thrown
    ELSE OfKind(ts, pos, insideBlock, classify(ts, pos), tryParseStructuredSwitch(ts, pos))

Reading(what, ts, a) ==
    CASE what = "expression" -> parseExpression(ts, a[1], a[2], a[3])
      [] what = "extended" -> Extend(ts, a[1], a[2], a[3], a[4])
      [] what = "arguments" -> Arguments(ts, a[1], a[2], a[3])
      [] what = "elements" -> Elements(ts, a[1], a[2], a[3])
      [] what = "entries" -> Entries(ts, a[1], a[2], a[3])
      [] what = "block" -> parseBlock(ts, a[1])
      [] what = "children" -> Children(ts, a[1], a[2])
      [] what = "statement" -> parseStatement(ts, a[1], a[2])
      [] what = "arms" -> SwitchArms(ts, a[1], a[2])
      [] what = "scan" -> Scan(ts, a[1], a[2], a[3])

\* The whole program; no brace may close what was not opened.
RECURSIVE Statements(_, _, _)
Statements(ts, pos, read) ==
    IF pos = End(ts) THEN [ok |-> TRUE, statements |-> read]
    ELSE LET After(next) == IF next.ok THEN Statements(ts, next.pos, Append(read, next.st))
                            ELSE [ok |-> FALSE, statements |-> <<>>]
         IN  After(IF ts[pos] = "}" THEN Thrown ELSE OneStatement(ts, pos, FALSE))
parseProgram(ts) == Statements(ts, 1, <<>>)

AnswerQuestion ==
    /\ answer = <<>>
    /\ answer' = <<parseProgram(question.tokens)>>
    /\ UNCHANGED question

--------------------------------------------------------------------------------
(* What the parser is measured by.                                         *)

\* The precedences of the lexer (operatorPrecedenceMap): of the operators at
\* the lowest level the last one is applied last, but of assignments alone the
\* first: only plain assignment associates to the right.
Precedence(t) ==
    CASE t \in Assigning -> 0
      [] t = "||" -> 1
      [] t = "&&" -> 2
      [] t \in Comparing -> 3
      [] t \in {"+", "-"} -> 4
      [] OTHER -> 5

Tree(kind, text, kids) == [kind |-> kind, text |-> text, kids |-> kids]
RECURSIVE Shape(_), Reference(_, _, _), Unparse(_)
Shape(node) ==
    LET kids == [k \in DOMAIN node.kids |-> Shape(node.kids[k])]
    IN  IF node.kind = "lambda"
        THEN Tree("lambda", <<>>, [k \in DOMAIN kids |->
                                     Tree("parameter", node.parameters[k].name, <<kids[k]>>)])
        ELSE Tree(node.kind, node.text, kids)

KindOf(t) ==
    IF t = "=" THEN "assign" ELSE IF t \in Compounds THEN "compound" ELSE "binary"
Reference(ts, b, e) ==
    LET between == {i \in b + 1 .. e - 1 : ts[i] \in Operators \ {"++"}
                                           /\ (IsIdentifier(ts[i - 1]) \/ ts[i - 1] = "++")}
        lowest == {i \in between : \A j \in between : Precedence(ts[i]) <= Precedence(ts[j])}
        lefts  == {i \in lowest : ts[i] # "="}
        root   == IF lefts # {} THEN CHOOSE i \in lefts : \A j \in lefts : j <= i
                  ELSE CHOOSE i \in lowest : \A j \in lowest : i <= j
    IN  IF between # {}
        THEN Tree(KindOf(ts[root]), <<ts[root]>>,
                  <<Reference(ts, b, root), Reference(ts, root + 1, e)>>)
        ELSE IF ts[b] \in {"-", "!"} THEN Tree("unary", <<ts[b]>>, <<Reference(ts, b + 1, e)>>)
        ELSE IF ts[e - 1] = "++" THEN Tree("postfix", <<"++">>, <<Reference(ts, b, e - 1)>>)
        ELSE Tree("name", <<ts[b]>>, <<>>)

\* A tree written with no more parentheses than it needs.
Joins == {"assign", "compound", "binary"}
Wrapped(tree) == <<"(">> \o Unparse(tree) \o <<")">>
Listed(trees) ==
    FoldLeft(LAMBDA read, tree : read \o (IF read = <<>> THEN <<>> ELSE <<",">>) \o Unparse(tree),
             <<>>, trees)
Base(tree) == IF tree.kind \in Joins \cup {"unary"} THEN Wrapped(tree) ELSE Unparse(tree)
BindsTighter(inner, outer, onRight) ==
    \/ inner.kind \notin Joins
    \/ Precedence(inner.text[1]) > Precedence(outer)
    \/ Precedence(inner.text[1]) = Precedence(outer)
         /\ IF onRight THEN inner.text[1] = "=" ELSE outer # "="
Operand(tree, outer, onRight) ==
    IF BindsTighter(tree, outer, onRight) THEN Unparse(tree) ELSE Wrapped(tree)
Unparse(tree) ==
    LET kids == tree.kids
    IN  CASE tree.kind \in Joins ->
                Operand(kids[1], tree.text[1], FALSE) \o tree.text
                  \o Operand(kids[2], tree.text[1], TRUE)
          [] tree.kind = "unary" ->
                tree.text \o (IF kids[1].kind \in Joins THEN Wrapped(kids[1])
                              ELSE Unparse(kids[1]))
          [] tree.kind = "postfix" -> Base(kids[1]) \o tree.text
          [] tree.kind = "member" -> Base(kids[1]) \o <<".">> \o tree.text
          [] tree.kind = "index" -> Base(kids[1]) \o <<"[">> \o Unparse(kids[2]) \o <<"]">>
          [] tree.kind = "call" -> Base(kids[1]) \o <<"(">> \o Listed(Tail(kids)) \o <<")">>
          [] tree.kind = "explicit" ->
                <<"goi">> \o kids[1].text \o <<"(">> \o Listed(Tail(kids)) \o <<")">>
          [] tree.kind = "list" -> <<"[">> \o Listed(kids) \o <<"]">>
          [] tree.kind = "map" ->
                IF kids = <<>> THEN <<"{", "}">>
                ELSE <<"{">> \o Unparse(kids[1]) \o <<":">> \o Unparse(kids[2]) \o <<"}">>
          [] tree.kind = "lambda" ->
                <<"ham", "(">> \o Unparse(kids[1]) \o <<")", "{", "tra ve">> \o kids[1].text
                  \o <<";", "}">>
          [] tree.kind = "parameter" /\ kids[1].kind # "none" ->
                tree.text \o <<"=">> \o Unparse(kids[1])
          [] OTHER -> tree.text

Root == answer[1].statements[1].roots[1]
Answered(kind) == question.kind = kind /\ answer # <<>>
Answers == \E kind \in {"operators", "tree", "tokens"} : Answered(kind)

(***************************************************************************)
(* The lowest binding powers of the Pratt parser build, for every run of   *)
(* operators, the tree of the precedence table: leftBindingPower promises  *)
(* what the earlier shunting-yard parser did, mixed assignments included.  *)
(***************************************************************************)
PrecedenceKept ==
    Answered("operators") =>
        /\ answer[1].ok
        /\ Shape(Root) = Reference(question.tokens, 1, End(question.tokens))

(***************************************************************************)
(* Every tree can be written down and is read back, and the tokens that a  *)
(* subtree spans are an expression that reads as that subtree: a caller of *)
(* the parser points at its source with them.                              *)
(***************************************************************************)
RECURSIVE SpansRead(_, _)
SpansRead(ts, node) ==
    \/ node.kind = "none"
    \/ /\ Shape(tryParseExpression(ts, node.b, node.e)) = Shape(node)
       /\ \A k \in DOMAIN node.kids : SpansRead(ts, node.kids[k])
TreesReadBack ==
    Answered("tree") =>
        /\ Shape(Root) = question.tree
        /\ SpansRead(question.tokens, Root)

Pairs == {<<"(", ")">>, <<"[", "]">>, <<"{", "}">>}
Balanced(ts) ==
    FoldLeft(LAMBDA open, t :
                 IF \E p \in Pairs : p[1] = t THEN Append(open, t)
                 ELSE IF \A p \in Pairs : p[2] # t THEN open
                 ELSE IF open # <<>> /\ <<Last(open), t>> \in Pairs THEN Front(open)
                 ELSE Append(open, t),
             <<>>, ts) = <<>>

Tiles(statements, b, e) ==
    IF statements = <<>> THEN b = e
    ELSE /\ statements[1].b = b /\ Last(statements).e = e
         /\ \A k \in 1 .. Len(statements) - 1 : statements[k].e = statements[k + 1].b
Ordered(nodes, b, e) ==
    /\ \A k \in DOMAIN nodes : b <= nodes[k].b /\ nodes[k].b < nodes[k].e /\ nodes[k].e <= e
    /\ \A k \in 1 .. Len(nodes) - 1 : nodes[k].e <= nodes[k + 1].b
RECURSIVE Nested(_, _)
Nested(ts, st) ==
    /\ IF st.kind # "block" THEN Ordered(st.children, st.b + 1, st.e)
       ELSE IF ts[st.b] = "{" THEN Tiles(st.children, st.b + 1, st.e - 1)
       ELSE Tiles(st.children, st.b, st.e)
    /\ st.kind \in {"switch"} \/ Ordered(st.roots, st.b, st.e)
    /\ \A k \in DOMAIN st.children : Nested(ts, st.children[k])

(***************************************************************************)
(* The scanner accepts exactly the texts whose delimiters match, where no  *)
(* statement has a form it must have, and it loses no token: statements    *)
(* tile the text, and blocks what they hold.                               *)
(***************************************************************************)
Strict == {"neu", "hoac", "bien", "nhap", "ngoai ham", "ngoai thu vien"}
StatementsTile ==
    Answers =>
        LET ts == question.tokens
            read == answer[1]
        IN  /\ Strict \cap ToSet(ts) = {} => (read.ok <=> Balanced(ts))
            /\ read.ok => /\ Balanced(ts)
                          /\ Tiles(read.statements, 1, End(ts))
                          /\ \A k \in DOMAIN read.statements : Nested(ts, read.statements[k])

\* The forms of docs/grammar.bnf and of the emitter, by what stands where.
\* A text w with the ranges that read as expressions and where blocks end.
Positions(ts) == 1 .. End(ts)
Readings(ts) ==
    [ts |-> ts,
     ranges |-> {range \in Positions(ts) \X Positions(ts) :
                    range[1] < range[2] /\ tryParseExpression(ts, range[1], range[2]) # NoNode},
     blocks |-> [b \in Positions(ts) |-> Block(ts, b)]]
Reads(w, b, e) == <<b, e>> \in w.ranges
Whole(w, b, e) == b < e /\ w.ts[e - 1] # ";" /\ Reads(w, b, e)
IsBlock(w, b, e) == b \in DOMAIN w.blocks /\ w.blocks[b].ok /\ w.blocks[b].pos = e
Is(w, i, t) == i > 0 /\ At(w.ts, i, End(w.ts), t)
RECURSIVE IfForm(_, _, _), Arms(_, _, _)
IfForm(w, b, e) ==
    /\ Is(w, b, "neu") /\ Is(w, b + 1, "(")
    /\ \E c, t \in b .. e :
          /\ Is(w, c, ")") /\ Reads(w, b + 2, c) /\ IsBlock(w, c + 1, t)
          /\ \/ t = e
             \/ Is(w, t, "hoac") /\ (IsBlock(w, t + 1, e) \/ IfForm(w, t + 1, e))
ForForm(w, b, e) ==
    /\ Is(w, b, "lap") /\ Is(w, b + 1, "(")
    /\ \E i, j, c \in b .. e :
          /\ Is(w, i, ";") /\ Is(w, j, ";") /\ Is(w, c, ")")
          /\ Whole(w, b + 2, i) /\ Whole(w, i + 1, j) /\ Whole(w, j + 1, c)
          /\ IsBlock(w, c + 1, e)
TryForm(w, b, e) ==
    /\ Is(w, b, "thu")
    /\ \E t \in b .. e :
          /\ IsBlock(w, b + 1, t) /\ Is(w, t, "bat loi")
          /\ \/ IsBlock(w, t + 1, e)
             \/ /\ Is(w, t + 1, "(")
                /\ \E c \in t + 3 .. e :
                      /\ Is(w, c, ")") /\ IsBlock(w, c + 1, e)
                      /\ IsIdentifier(w.ts[t + 2]) /\ \A i \in t + 3 .. c - 1 : w.ts[i] \notin NotInNames
Arms(w, b, e) ==
    \/ b = e
    \/ Is(w, b, ";") /\ Arms(w, b + 1, e)
    \/ \E l \in {b, b + 1}, t \in b .. e :
          /\ \/ l = b /\ Is(w, b, "mac dinh")
             \/ /\ l = b + 1 /\ Is(w, b, "ca")
                /\ Is(w, l, "mac dinh") \/ Reads(w, l, l + 1)
          /\ IsBlock(w, IF Is(w, l + 1, ":") THEN l + 2 ELSE l + 1, t)
          /\ Arms(w, t, e)
SwitchForm(w, b, e) ==
    /\ Is(w, b, "chon") /\ Is(w, b + 1, "(") /\ Is(w, e - 1, "}")
    /\ \E c \in b .. e : /\ Is(w, c, ")") /\ Reads(w, b + 2, c) /\ Is(w, c + 1, "{")
                         /\ Arms(w, c + 2, e - 1)
IsTypeName(w, b, e) == b < e /\ \A i \in b .. e - 1 : IsIdentifier(w.ts[i])
RECURSIVE AreTypeNames(_, _, _)
AreTypeNames(w, b, e) ==
    \/ IsTypeName(w, b, e)
    \/ \E c \in b .. e - 1 : w.ts[c] = "," /\ IsTypeName(w, b, c) /\ AreTypeNames(w, c + 1, e)
ClassForm(w, st) ==
    LET from == IF Is(w, st.b + 1, "rieng tu") THEN st.b + 2 ELSE st.b + 1
        Heir(b, e) == /\ b < e /\ w.ts[b] \in {"ke thua", ":"}
                      /\ IF st.kind = "class" THEN IsTypeName(w, b + 1, e)
                         ELSE AreTypeNames(w, b + 1, e)
    IN  \E n, s, t \in from .. st.e - 1 :
          /\ IsTypeName(w, from, n)
          /\ n = s \/ Heir(n, s)
          /\ \/ s = t
             \/ st.kind = "class" /\ w.ts[s] = "trien khai" /\ AreTypeNames(w, s + 1, t)
          /\ IsBlock(w, t, st.e)
          /\ \A member \in ToSet(w.blocks[t].st.children) :
                \/ member.kind = "empty"
                \/ member.kind = "function" /\ (st.kind = "class" \/ member.children = <<>>)

IsName(w, b, e) ==
    b < e /\ IsIdentifier(w.ts[b]) /\ \A i \in b + 1 .. e - 1 : w.ts[i] \notin NotInNames
VariableForm(w, b, e) ==
    /\ Is(w, b, "bien") /\ Is(w, e - 1, ";")
    /\ \/ IsName(w, b + 1, e - 1)
       \/ \E c \in b .. e : Is(w, c, "=") /\ IsName(w, b + 1, c) /\ Whole(w, c + 1, e - 1)
Fits(w, b, pattern) ==
    /\ b + Len(pattern) <= End(w.ts)
    /\ \A k \in DOMAIN pattern :
          CASE pattern[k] = "name" -> IsNamePiece(w.ts[b + k - 1])
            [] pattern[k] = "text" -> w.ts[b + k - 1] \in Texts
            [] pattern[k] = "extent" -> IsNamePiece(w.ts[b + k - 1]) \/ w.ts[b + k - 1] \in Numbers
            [] OTHER -> w.ts[b + k - 1] = pattern[k]
RECURSIVE AreParameters(_, _, _), AreAttributes(_, _, _)
AreParameters(w, b, e) ==
    \/ b = e
    \/ \E pattern \in {<<"name", ":", "name">>,
                        <<"name", ":", "name", "[", "extent", "]">>} :
          LET to == b + Len(pattern)
          IN  /\ Fits(w, b, pattern)
              /\ to = e \/ (Is(w, to, ",") /\ AreParameters(w, to + 1, e))
AreAttributes(w, b, e) ==
    \/ b = e
    \/ \E word \in {"abi", "kha nang"} :
          Fits(w, b, <<word, "text">>) /\ AreAttributes(w, b + 2, e)
ForeignForm(w, b, e) ==
    /\ Fits(w, b, <<"ngoai ham", "name", "(">>) /\ Is(w, e - 1, ";")
    /\ \E c \in b + 3 .. e :
          /\ AreParameters(w, b + 3, c)
          /\ Fits(w, c, <<")", ":", "name", "tu", "name", "ky hieu", "text">>)
          /\ AreAttributes(w, c + 7, e - 1)
          /\ \E i \in c + 7 .. e - 1 : w.ts[i] = "kha nang"

(***************************************************************************)
(* A statement has the form of its keyword exactly where its tokens are    *)
(* put together as the grammar says: what has no form is refused or        *)
(* ignored further on, and a form seen where none is runs other code.      *)
(***************************************************************************)
RECURSIVE FormRight(_, _)
FormRight(w, st) ==
    /\ CASE st.kind = "loop" -> st.form = "for" <=> ForForm(w, st.b, st.e)
         [] st.kind = "try" -> st.form = "try" <=> TryForm(w, st.b, st.e)
         [] st.kind = "switch" -> st.form = "structured" <=> SwitchForm(w, st.b, st.e)
         [] st.kind = "conditional" -> st.form # "none" /\ IfForm(w, st.b, st.e)
         [] st.kind \in {"class", "interface"} -> st.form = "methods" <=> ClassForm(w, st)
         [] OTHER -> TRUE
    /\ \A k \in DOMAIN st.children : FormRight(w, st.children[k])
FormsAsWritten ==
    LET Right(w) ==
            /\ \A k \in DOMAIN answer[1].statements : FormRight(w, answer[1].statements[k])
            /\ w.ts # <<>> /\ w.ts[1] \in {"neu", "bien", "ngoai ham"} =>
                 (answer[1].ok <=> \E e \in Positions(w.ts) :
                                      /\ \/ IfForm(w, 1, e)
                                         \/ VariableForm(w, 1, e)
                                         \/ ForeignForm(w, 1, e)
                                      /\ Statements(w.ts, e, <<>>).ok)
    IN  Answers => Right(Readings(question.tokens))
================================================================================
