-------------------------- MODULE LanguageService --------------------------
(***************************************************************************)
(* The language server's side of the protocol (runLanguageServer and its   *)
(* helpers in main.cpp), with the framing at both ends.  Four kinds of     *)
(* question, each answered by the code's own algorithm:                    *)
(*   text    positions in UTF-16 units against byte offsets                *)
(*   chunks  a byte stream of frames, cut anywhere (handleData)            *)
(*   session a sequence of messages through the server's loop              *)
(*   scopes  completion and rename over a compiled document                *)
(* A byte is its class: a line feed, ASCII, the lead of a 2, 3 or 4 byte   *)
(* sequence, a continuation.  JSON, URIs and wording are left out.         *)
(***************************************************************************)
EXTENDS Naturals, SequencesExt, FiniteSetsExt

CONSTANTS TextLength, MaxFrames, MaxMessages   \* bounds of the questions

VARIABLES question, answer

InOrder(S, Less(_, _)) ==
    [i \in 1 .. Cardinality(S) |-> CHOOSE x \in S : Cardinality({y \in S : Less(y, x)}) = i - 1]

vars == <<question, answer>>

(***************************************************************************)
(* Text.                                                                   *)
(***************************************************************************)
Bytes == {"\n", "a", "lead2", "lead3", "lead4", "more"}

Utf8SequenceLength(byte) ==
    CASE byte = "lead2" -> 2 [] byte = "lead3" -> 3 [] byte = "lead4" -> 4 [] OTHER -> 1

(* A sequence cut short by the end of the text is taken as it is; one with *)
(* a wrong continuation counts as one byte.  Only four bytes, all there,   *)
(* are beyond U+FFFF, with two UTF-16 units.  Offsets count from 0.        *)
CodePoint(text, offset) ==
    LET lead == text[offset + 1]
        length == Min({Utf8SequenceLength(lead), Len(text) - offset})
    IN  IF \A i \in 2 .. length : text[offset + i] = "more"
        THEN [length |-> length, units |-> IF length = 4 THEN 2 ELSE 1]
        ELSE [length |-> 1, units |-> 1]

RECURSIVE PositionFrom(_, _, _, _)
PositionFrom(text, offset, target, at) ==
    IF offset >= target THEN at
    ELSE IF text[offset + 1] = "\n"
    THEN PositionFrom(text, offset + 1, target, [line |-> at.line + 1, character |-> 0])
    ELSE LET point == CodePoint(text, offset)
         IN  PositionFrom(text, offset + point.length, target,
                          [at EXCEPT !.character = @ + point.units])

LspPositionForOffset(text, target) ==
    PositionFrom(text, 0, target, [line |-> 0, character |-> 0])

LineFeeds(text, offset) == Cardinality({i \in 1 .. offset : text[i] = "\n"})

RECURSIVE Advance(_, _, _, _)
Advance(text, offset, character, target) ==
    IF offset = Len(text) \/ character >= target THEN offset
    ELSE IF text[offset + 1] = "\n" THEN offset
    ELSE LET point == CodePoint(text, offset)
         IN  IF character + point.units > target THEN offset
             ELSE Advance(text, offset + point.length, character + point.units, target)

SourceOffsetForLspPosition(text, position) ==
    LET starts == {offset \in 0 .. Len(text) : LineFeeds(text, offset) = position.line}
    IN  IF starts = {} THEN Len(text) ELSE Advance(text, Min(starts), 0, position.character)

(* Where the decoder stops: the offsets a position can stand for. *)
RECURSIVE BoundariesFrom(_, _)
BoundariesFrom(text, offset) ==
    {offset} \cup (IF offset = Len(text) THEN {}
                   ELSE BoundariesFrom(text, offset + (IF text[offset + 1] = "\n" THEN 1
                                                       ELSE CodePoint(text, offset).length)))

(***************************************************************************)
(* Frames.  A frame is a header, its end and a body of some bytes; the     *)
(* stream is cut into chunks, and handleData is called with each.          *)
(***************************************************************************)
Frame(number, length) ==
    <<[header |-> length], [end |-> "\r\n\r\n"]>> \o [i \in 1 .. length |-> [body |-> number]]

HeaderEnds(buffer) == {i \in DOMAIN buffer : DOMAIN buffer[i] = {"end"}}

(* One call: the messages taken out of the buffer, and what is left. *)
(* Broken variant: at most one message is taken out of a chunk. *)
HandleOne(buffer) ==
    IF HeaderEnds(buffer) = {} THEN [messages |-> <<>>, left |-> buffer]
    ELSE LET end == Min(HeaderEnds(buffer))
             last == end + buffer[end - 1].header
         IN  IF last > Len(buffer) THEN [messages |-> <<>>, left |-> buffer]
             ELSE [messages |-> <<SubSeq(buffer, end + 1, last)>>,
                   left |-> SubSeq(buffer, last + 1, Len(buffer))]

RECURSIVE HandleData(_)
HandleData(buffer) ==
    IF HeaderEnds(buffer) = {} THEN [messages |-> <<>>, left |-> buffer]
    ELSE LET end == Min(HeaderEnds(buffer))
             last == end + buffer[end - 1].header
         IN  IF last > Len(buffer) THEN [messages |-> <<>>, left |-> buffer]
             ELSE LET rest == HandleData(SubSeq(buffer, last + 1, Len(buffer)))
                  IN  [rest EXCEPT !.messages = <<SubSeq(buffer, end + 1, last)>> \o @]

Received(chunks) ==
    FoldLeft(LAMBDA state, chunk :
                 LET step == HandleData(state.left \o chunk)
                 IN  [messages |-> state.messages \o step.messages, left |-> step.left],
             [messages |-> <<>>, left |-> <<>>], chunks)

CutAt(stream, cuts) ==
    LET at == InOrder(cuts \cup {0, Len(stream)}, <)
    IN  [i \in 1 .. Len(at) - 1 |-> SubSeq(stream, at[i] + 1, at[i + 1])]

(***************************************************************************)
(* The loop of runLanguageServer over a session.  A text is "good" or does *)
(* not compile; an answer is what it was computed from.                    *)
(***************************************************************************)
AboutDocument == {"completion", "definition", "formatting"}
Methods == AboutDocument \cup {"initialize", "libraryRoots", "shutdown", "exit", "didOpen", "didClose", "other"}
Requests == AboutDocument \cup {"initialize", "libraryRoots", "shutdown"}

Nothing(method) == IF method = "completion" THEN "none" ELSE "null"

Result(documents, message) ==
    IF message.method \notin AboutDocument THEN "done"
    ELSE IF documents[message.uri] = "closed" THEN Nothing(message.method)
    ELSE IF message.method # "formatting" /\ documents[message.uri] = "bad"
    THEN Nothing(message.method)
    ELSE documents[message.uri]

Handle(state, message) ==
    IF state.over THEN state
    ELSE CASE message.method = "exit" -> [state EXCEPT !.over = TRUE]
           [] message.method = "didOpen" ->
                  [state EXCEPT !.documents[message.uri] = message.text,
                                !.shown[message.uri] = message.text]
           [] message.method = "didClose" ->
                  [state EXCEPT !.documents[message.uri] = "closed", !.shown[message.uri] = "closed"]
           [] message.method \in Requests ->
                  [state EXCEPT !.answers = Append(@, Result(state.documents, message)),
                                !.clean = @ \/ message.method = "shutdown"]
           [] OTHER -> state

Uris == {"one", "two"}
Quiet == [uri \in Uris |-> "closed"]
Session(messages) ==
    FoldLeft(Handle, [documents |-> Quiet, shown |-> Quiet, answers |-> <<>>,
                      clean |-> FALSE, over |-> FALSE], messages)

(***************************************************************************)
(* A compiled document: scopes with their parents and spans, symbols with  *)
(* the scope and the span of their name, uses bound to symbols.            *)
(***************************************************************************)
Around(span, offset) == span.begin <= offset /\ offset < span.end
Width(span) == span.end - span.begin

(* The narrowest scope around the offset, the last of two as narrow. *)
ScopeAtOffset(model, offset) ==
    LET around == {s \in DOMAIN model.scopes : Around(model.scopes[s], offset)}
        narrow == {s \in around : \A t \in around : Width(model.scopes[s]) <= Width(model.scopes[t])}
    IN  IF around = {} THEN 1 ELSE Max(narrow)

VisibleFrom(model, scope) ==
    LET up[s \in 0 .. Len(model.scopes)] ==
            IF s = 0 THEN {} ELSE {s} \cup up[model.scopes[s].parent]
    IN  up[scope]

CompletionResult(model, offset) ==
    LET visible == VisibleFrom(model, ScopeAtOffset(model, offset))
        offered == SelectSeq(model.symbols, LAMBDA symbol : symbol.scope \in visible)
        first(i) == \A j \in 1 .. i - 1 : offered[j].name # offered[i].name
    IN  {offered[i].name : i \in {i \in DOMAIN offered : first(i)}}

(* Declarations are looked at first, then what is bound at the offset. *)
SymbolAt(model, offset) ==
    LET declared == {s \in DOMAIN model.symbols : Around(model.symbols[s], offset)}
        bound == {model.uses[u].symbol : u \in {u \in DOMAIN model.uses : Around(model.uses[u], offset)}}
    IN  IF declared # {} THEN Min(declared)
        ELSE IF bound # {} THEN Min(bound) ELSE 0

SpanOf(entry) == [begin |-> entry.begin, end |-> entry.end]

RenameSpans(model, symbol) ==
    InOrder({SpanOf(model.symbols[symbol])}
                     \cup {SpanOf(model.uses[u]) : u \in {u \in DOMAIN model.uses : model.uses[u].symbol = symbol}},
                 LAMBDA left, right : left.begin < right.begin)

SymbolSpanAt(model, symbol, offset) ==
    LET uses == {u \in DOMAIN model.uses : model.uses[u].symbol = symbol /\ Around(model.uses[u], offset)}
    IN  IF Around(model.symbols[symbol], offset) \/ uses = {} THEN SpanOf(model.symbols[symbol])
        ELSE SpanOf(model.uses[Min(uses)])

(***************************************************************************)
(* The questions.  The document has a function with two blocks one after   *)
(* the other; each of the four scopes declares x, y, both or neither, and  *)
(* uses each name it sees, bound to the nearest declaration.               *)
(***************************************************************************)
Scopes == <<[parent |-> 0, begin |-> 0, end |-> 40], [parent |-> 1, begin |-> 10, end |-> 40],
            [parent |-> 2, begin |-> 20, end |-> 30], [parent |-> 2, begin |-> 30, end |-> 40]>>
Names == {"x", "y"}
Slot(scope, name, use) ==
    LET begin == Scopes[scope].begin + (IF name = "x" THEN 0 ELSE 2) + (IF use THEN 4 ELSE 0)
    IN  [begin |-> begin, end |-> begin + 1]

Before(a, b) == IF a[1] = b[1] THEN a[2] = "x" /\ b[2] = "y" ELSE a[1] < b[1]

Document(declares) ==
    LET declared == {d \in (DOMAIN Scopes) \X Names : d[2] \in declares[d[1]]}
        order == InOrder(declared, Before)
        symbols == [i \in DOMAIN order |-> [name |-> order[i][2], scope |-> order[i][1]]
                                               @@ Slot(order[i][1], order[i][2], FALSE)]
        sees(scope, name) == {i \in DOMAIN order : order[i][2] = name
                                  /\ order[i][1] \in VisibleFrom([scopes |-> Scopes], scope)}
        used == InOrder({u \in (DOMAIN Scopes) \X Names : sees(u[1], u[2]) # {}}, Before)
    IN  [scopes |-> Scopes, symbols |-> symbols,
         uses |-> [u \in DOMAIN used |-> [symbol |-> Max(sees(used[u][1], used[u][2]))]
                                             @@ Slot(used[u][1], used[u][2], TRUE)]]

Message(method, uri, text) == [method |-> method, uri |-> uri, text |-> text]
Messages == {Message(method, uri, "good") : method \in Methods \ {"formatting", "other"}, uri \in Uris}
                \cup {Message("didOpen", "one", "bad"), Message("formatting", "one", "good"),
                      Message("other", "one", "good")}

Questions ==
    {[kind |-> "text", text |-> text] : text \in BoundedSeq(Bytes, TextLength)}
    \cup UNION {LET stream == FlattenSeq([i \in DOMAIN lengths |-> Frame(i, lengths[i])])
                IN  {[kind |-> "chunks", lengths |-> lengths, chunks |-> CutAt(stream, cuts)] :
                        cuts \in SUBSET (1 .. Len(stream) - 1)} :
                    lengths \in BoundedSeq({0, 1, 2}, MaxFrames) \ {<<>>}}
    \cup {[kind |-> "session", messages |-> messages] : messages \in BoundedSeq(Messages, MaxMessages)}
    \cup {[kind |-> "scopes", model |-> Document(declares)] : declares \in [DOMAIN Scopes -> SUBSET Names]}

Answer(q) ==
    CASE q.kind = "text" -> [offset \in 0 .. Len(q.text) |->
                                SourceOffsetForLspPosition(q.text, LspPositionForOffset(q.text, offset))]
      [] q.kind = "chunks" -> Received(q.chunks)
      [] q.kind = "session" -> Session(q.messages)
      [] q.kind = "scopes" -> [offset \in 0 .. 39 |-> [names |-> CompletionResult(q.model, offset),
                                                       symbol |-> SymbolAt(q.model, offset)]]

Init == question \in Questions /\ answer = <<>>

AnswerQuestion ==
    /\ answer = <<>>
    /\ answer' = Answer(question)
    /\ UNCHANGED question

Next == AnswerQuestion
Spec == Init /\ [][Next]_vars

Answered(kind) == answer # <<>> /\ question.kind = kind

(***************************************************************************)
(* The position of an offset leads back to it when a character starts      *)
(* there, and else to the end of the character it falls in: diagnostics,   *)
(* definitions and renames of the server land where the client edits.      *)
(***************************************************************************)
PositionsReadBack ==
    Answered("text") => \A offset \in DOMAIN answer :
        answer[offset] = Min({b \in BoundariesFrom(question.text, 0) : b >= offset})

(***************************************************************************)
(* The messages the client reads are the bodies of the frames, in order,   *)
(* with nothing left over, wherever the pipe cuts the stream.              *)
(***************************************************************************)
ChunksDoNotMatter ==
    Answered("chunks") =>
        answer = [messages |-> [i \in DOMAIN question.lengths |->
                                   [j \in 1 .. question.lengths[i] |-> [body |-> i]]],
                  left |-> <<>>]

(***************************************************************************)
(* Every request before the exit is answered once and in order, from the   *)
(* text the client sent last for its document, and nothing else is; what   *)
(* is shown for a document is about that text too.                         *)
(***************************************************************************)
LastText(messages, uri, before) ==
    LET about == {i \in 1 .. before - 1 : messages[i].uri = uri
                                          /\ messages[i].method \in {"didOpen", "didClose"}}
    IN  IF about = {} \/ messages[Max(about)].method = "didClose" THEN "closed"
        ELSE messages[Max(about)].text

Expected(messages, i) ==
    LET method == messages[i].method
        text == LastText(messages, messages[i].uri, i)
    IN  CASE method \in {"initialize", "libraryRoots", "shutdown"} -> "done"
          [] method = "formatting" /\ text # "closed" -> text
          [] method # "formatting" /\ text = "good" -> "good"
          [] OTHER -> Nothing(method)

AnswersMatch ==
    Answered("session") =>
        LET exits == {i \in DOMAIN question.messages : question.messages[i].method = "exit"}
            heard == IF exits = {} THEN question.messages
                     ELSE SubSeq(question.messages, 1, Min(exits) - 1)
            asked == InOrder({i \in DOMAIN heard : heard[i].method \in Requests}, <)
        IN  /\ answer.answers = [k \in DOMAIN asked |-> Expected(heard, asked[k])]
            /\ \A uri \in Uris : answer.shown[uri] = LastText(heard, uri, Len(heard) + 1)
            /\ answer.clean <=> \E i \in DOMAIN heard : heard[i].method = "shutdown"

(***************************************************************************)
(* Completion offers the names declared in the scopes around the offset    *)
(* and no others.                                                          *)
(***************************************************************************)
CompletionIsVisible ==
    Answered("scopes") => \A offset \in DOMAIN answer :
        answer[offset].names =
            {question.model.symbols[s].name : s \in {s \in DOMAIN question.model.symbols :
                 Around(Scopes[question.model.symbols[s].scope], offset)}}

(***************************************************************************)
(* A rename asked for at any occurrence of a symbol edits every occurrence *)
(* of it, each once, none of another symbol, and in the order of the text; *)
(* the hover's range is the occurrence under the cursor.                   *)
(***************************************************************************)
RenameFromAnywhere ==
    Answered("scopes") => \A offset \in DOMAIN answer :
        LET model == question.model
            s == answer[offset].symbol
            spans == RenameSpans(model, s)
            own == {SpanOf(model.symbols[s])} \cup {SpanOf(model.uses[u]) : u \in {u \in DOMAIN model.uses : model.uses[u].symbol = s}}
        IN  s # 0 =>
            /\ \E span \in own : Around(span, offset)
            /\ ToSet(spans) = own
            /\ \A i \in 1 .. Len(spans) - 1 : spans[i].end <= spans[i + 1].begin
            /\ Around(SymbolSpanAt(model, s, offset), offset)
            /\ \A span \in own : SymbolAt(model, span.begin) = s
=============================================================================
