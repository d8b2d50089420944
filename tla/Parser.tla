-------------------------------- MODULE Parser --------------------------------
(***************************************************************************)
(* The recursive descent parser (src/src/parser).  A token is its text;    *)
(* identifiers and literals are sets of texts.  A parsing function takes a *)
(* parser's state, the position and the flag that allows constructors, and *)
(* returns a tree and the next state, or the place of the error.  Spans    *)
(* and the wording of errors are left out.                                 *)
(*                                                                         *)
(* The behaviours type a source text token by token and parse each text    *)
(* on the way.  A text is continued only while its error is that it ends:  *)
(* the parser does not look past the token it rejects.                     *)
(***************************************************************************)
EXTENDS Integers, Sequences

CONSTANTS
    Identifiers,
    Literals,       \* integers, floats, strings, durations, true, false, null
    Patterns,       \* the literals that may be patterns
    Keys,           \* the strings, which may be keys of objects
    OutOfRange,     \* the literals without a value
    Alphabets       \* the tokens to write texts with: sets of `tokens', each
                    \* with the bound `length' on the texts and what to parse
                    \* as `entry': an "expression" or a "program"

Methods == {"GET", "POST", "PUT", "PATCH", "DELETE", "HEAD"}
End == "EOF"

ASSUME ParserAssumption ==
    /\ Patterns \subseteq Literals /\ Keys \subseteq Literals
    /\ OutOfRange \subseteq Literals
    /\ \A a \in Alphabets : /\ End \notin a.tokens
                            /\ a.length \in Nat
                            /\ a.entry \in {"expression", "program"}

VARIABLES
    alphabet,   \* the tokens of this text
    text,       \* the tokens typed so far
    outcome     \* what parsing them gives

vars == <<alphabet, text, outcome>>

Node(kind, label, parts) == [kind |-> kind, label |-> label, parts |-> parts]
Leaf(kind, label) == Node(kind, label, <<>>)

\* Parser::new
Start(tokens) == [tokens |-> tokens, next |-> 1, constructors |-> TRUE]

Peek(p) == IF p.next > Len(p.tokens) THEN End ELSE p.tokens[p.next]
Advance(p) == IF Peek(p) = End THEN p ELSE [p EXCEPT !.next = @ + 1]
Done(tree, p) == [ok |-> TRUE, tree |-> tree, at |-> p]
Fail(p) == [ok |-> FALSE, tree |-> Leaf("error", ""), at |-> p]

\* The `?' of the code: an error ends the parse.
Bind(result, Rest(_, _)) ==
    IF result.ok THEN Rest(result.tree, result.at) ELSE result

Consume(p, kinds) ==
    IF Peek(p) \in kinds THEN Done(Peek(p), Advance(p)) ELSE Fail(p)
Then(result, kind) ==
    Bind(result, LAMBDA tree, p :
        Bind(Consume(p, {kind}), LAMBDA token, q : Done(tree, q)))

-----------------------------------------------------------------------------
(* Expressions.                                                            *)

\* What one rule of the grammar takes from another one.
RECURSIVE Rule(_, _)

Delimited(p, constructors) ==
    LET inside == [p EXCEPT !.constructors = constructors]
        result == Rule("assignment", inside) IN
        [result EXCEPT !.at.constructors = p.constructors]

\* Mutant: sums and products have the same precedence.
FlatLevels == <<{"||"}, {"&&"}, {"==", "!="}, {"<", "<=", ">", ">="},
                {"+", "-", "*", "/", "%"}>>

\* From loosest to tightest.
Levels == <<{"||"}, {"&&"}, {"==", "!="}, {"<", "<=", ">", ">="}, {"+", "-"},
            {"*", "/", "%"}>>

RECURSIVE Binary(_, _), Chain(_, _, _)

Operand(p, level) == IF level = Len(Levels) THEN Rule("unary", p)
                                            ELSE Binary(p, level + 1)

Binary(p, level) ==
    Bind(Operand(p, level), LAMBDA left, q : Chain(left, q, level))

Chain(left, p, level) ==
    IF Peek(p) \notin Levels[level]
    THEN Done(left, p)
    ELSE Bind(Operand(Advance(p), level), LAMBDA right, q :
             Chain(Node("binary", Peek(p), <<left, right>>), q, level))

SendTree(connection, data, destinations) ==
    Node("send", "", <<connection, data>> \o destinations)

SendEnd(p, tree) == IF Peek(p) = "SEND" THEN Fail(p) ELSE Done(tree, p)

Send(p) ==
    Bind(Rule("or", p), LAMBDA connection, q :
        IF Peek(q) # "SEND" THEN Done(connection, q)
        ELSE Bind(Rule("or", Advance(q)), LAMBDA data, r :
            IF Peek(r) = "TO"
            THEN Bind(Rule("or", Advance(r)), LAMBDA destination, s :
                     SendEnd(s, SendTree(connection, data, <<destination>>)))
            ELSE SendEnd(r, SendTree(connection, data, <<>>))))

Targets == {"identifier", "property", "index"}

Assignment(p) ==
    Bind(Send(p), LAMBDA target, q :
        IF Peek(q) # "=" THEN Done(target, q)
        ELSE IF target.kind \notin Targets THEN Fail(q)
        ELSE Bind(Rule("assignment", Advance(q)), LAMBDA value, r :
                 Done(Node("assignment", "", <<target, value>>), r)))

\* The items of a list up to the closing token; a comma may precede it.
Item(p, what) ==
    CASE what = "expression" -> Delimited(p, TRUE)
      [] what = "field" ->
            Bind(Then(Consume(p, Identifiers \cup Keys), ":"), LAMBDA key, q :
                Bind(Delimited(q, TRUE), LAMBDA value, r :
                    Done(Node("field", key, <<value>>), r)))
      [] what = "type field" ->
            Bind(Then(Consume(p, Identifiers), ":"), LAMBDA name, q :
                Bind(Consume(q, Identifiers), LAMBDA type, r :
                    Done(Node("type field", name, <<Leaf("type", type)>>), r)))
      [] what = "parameter" ->
            Bind(Consume(p, Identifiers), LAMBDA name, q :
                IF Peek(q) # ":" THEN Done(Leaf("parameter", name), q)
                ELSE Bind(Consume(Advance(q), Identifiers), LAMBDA type, r :
                    Done(Node("parameter", name, <<Leaf("type", type)>>), r)))

RECURSIVE List(_, _, _, _)
List(p, closing, what, items) ==
    IF Peek(p) = closing
    THEN Done(items, Advance(p))
    ELSE Bind(Item(p, what), LAMBDA item, q :
             IF Peek(q) = ","
             THEN List(Advance(q), closing, what, Append(items, item))
             ELSE Then(Done(Append(items, item), q), closing))

Listed(p, closing, what, Tree(_)) ==
    Bind(List(p, closing, what, <<>>), LAMBDA items, q : Done(Tree(items), q))

Address(p) == Rule("or", p)

Connection(p, transport) ==
    LET address == Address([p EXCEPT !.constructors = FALSE])
        restored == [address EXCEPT !.at.constructors = p.constructors]
    IN Bind(restored, LAMBDA tree, q :
           IF Peek(q) # "using"
           THEN Done(Node("connection", transport, <<tree>>), q)
           ELSE Bind(Consume(Advance(q), Identifiers), LAMBDA protocol, r :
                    Done(Node("connection", transport,
                              <<tree, Leaf("protocol", protocol)>>), r)))

Object(p) ==
    Listed(p, "}", "field", LAMBDA fields : Node("object", "", fields))

Request(p, method) ==
    Bind(Delimited(p, FALSE), LAMBDA url, q :
        IF Peek(q) # "{" THEN Done(Node("request", method, <<url>>), q)
        ELSE Bind(Object(Advance(q)), LAMBDA config, r :
                 Done(Node("request", method, <<url, config>>), r)))

Primary(p) ==
    LET token == Peek(p)
        q == Advance(p)
    IN CASE token \in {"TCP", "UDP"} -> Connection(q, token)
         [] token \in Methods -> Request(q, token)
         [] token \in Literals \ OutOfRange -> Done(Leaf("literal", token), q)
         [] token \in Identifiers ->
               IF q.constructors /\ Peek(q) = "{"
               THEN Listed(Advance(q), "}", "field",
                           LAMBDA fields : Node("construct", token, fields))
               ELSE Done(Leaf("identifier", token), q)
         [] token = "(" -> Then(Delimited(q, TRUE), ")")
         [] token = "[" -> Listed(q, "]", "expression",
                                  LAMBDA items : Node("array", "", items))
         [] token = "{" -> Object(q)
         [] OTHER -> Fail(p)

RECURSIVE Postfix(_, _)
Postfix(tree, p) ==
    LET q == Advance(p)
        More(result) == Bind(result, LAMBDA next, r : Postfix(next, r))
    IN CASE Peek(p) = "(" ->
               More(Listed(q, ")", "expression", LAMBDA arguments :
                           Node("call", "", <<tree>> \o arguments)))
         [] Peek(p) = "[" ->
               More(Bind(Then(Delimited(q, TRUE), "]"), LAMBDA index, r :
                         Done(Node("index", "", <<tree, index>>), r)))
         [] Peek(p) = "RECEIVE" ->
               Postfix(Node("receive", "", <<tree>>), q)
         [] Peek(p) = "." ->
               More(Bind(Consume(q, Identifiers), LAMBDA name, r :
                         Done(Node("property", name, <<tree>>), r)))
         [] OTHER -> Done(tree, p)

Unary(p) ==
    IF Peek(p) \in {"!", "-"}
    THEN Bind(Rule("unary", Advance(p)), LAMBDA tree, q :
             Done(Node("unary", Peek(p), <<tree>>), q))
    ELSE Bind(Primary(p), LAMBDA tree, q : Postfix(tree, q))

-----------------------------------------------------------------------------
(* Statements.                                                             *)

RECURSIVE Statements(_, _, _)
Statements(p, closing, done) ==
    IF Peek(p) \in {closing, End}
    THEN Done(done, p)
    ELSE Bind(Rule("declaration", p), LAMBDA statement, q :
             Statements(q, closing, Append(done, statement)))

Block(p) ==
    Bind(Consume(p, {"{"}), LAMBDA token, q :
        Bind(Then(Statements(q, "}", <<>>), "}"), LAMBDA statements, r :
            Done(Node("block", "", statements), r)))

\* Mutant: a name before a block starts a constructor.
OpenHeader(p) == Delimited(p, TRUE)

\* The condition or the collection, which ends where the block begins.
Header(p) == Delimited(p, FALSE)

Headed(p, kind, label) ==
    Bind(Header(p), LAMBDA header, q :
        Bind(Rule("block", q), LAMBDA body, r :
            Done(Node(kind, label, <<header, body>>), r)))

If(p) ==
    Bind(Headed(p, "if", ""), LAMBDA tree, q :
        IF Peek(q) # "else" THEN Done(tree, q)
        ELSE LET r == Advance(q) IN
             Bind(IF Peek(r) = "if" THEN Rule("if", Advance(r))
                                    ELSE Rule("block", r), LAMBDA else, s :
                      Done([tree EXCEPT !.parts = Append(@, else)], s)))

RECURSIVE Arms(_, _)
Arms(p, arms) ==
    IF Peek(p) \in {"}", End}
    THEN Done(arms, p)
    ELSE Bind(Then(Consume(p, (Patterns \ OutOfRange) \cup {"_"}), "=>"),
              LAMBDA pattern, q :
                  Bind(Rule("block", q), LAMBDA body, r :
                      Arms(r, Append(arms, Node("arm", pattern, <<body>>)))))

Match(p) ==
    Bind(Then(Header(p), "{"), LAMBDA expression, q :
        Bind(Then(Arms(q, <<>>), "}"), LAMBDA arms, r :
            Done(Node("match", "", <<expression>> \o arms), r)))

Function(p) ==
    Bind(Then(Consume(p, Identifiers), "("), LAMBDA name, q :
        Bind(List(q, ")", "parameter", <<>>), LAMBDA parameters, r :
            Bind(IF Peek(r) = "->" THEN Consume(Advance(r), Identifiers)
                                   ELSE Done("", r), LAMBDA type, s :
                Bind(Rule("block", s), LAMBDA body, u :
                    Done(Node("function", name,
                              parameters \o <<Leaf("type", type), body>>),
                         u)))))

Let(p) ==
    Bind(Item(p, "parameter"), LAMBDA binding, q :
        Bind(Consume(q, {"="}), LAMBDA token, r :
            Bind(Then(Rule("assignment", r), ";"), LAMBDA value, s :
                Done(Node("let", "", <<binding, value>>), s))))

Return(p) ==
    IF Peek(p) = ";"
    THEN Done(Leaf("return", ""), Advance(p))
    ELSE Bind(Then(Rule("assignment", p), ";"), LAMBDA value, q :
             Done(Node("return", "", <<value>>), q))

Declaration(p) ==
    LET q == Advance(p) IN
    CASE Peek(p) = "type" ->
            Bind(Then(Consume(q, Identifiers), "{"), LAMBDA name, r :
                Listed(r, "}", "type field", LAMBDA fields :
                       Node("type declaration", name, fields)))
      [] Peek(p) = "fn" -> Function(q)
      [] Peek(p) = "let" -> Let(q)
      [] Peek(p) \in {"break", "continue"} ->
            Then(Done(Leaf(Peek(p), ""), q), ";")
      [] Peek(p) = "{" -> Block(p)
      [] Peek(p) = "if" -> If(q)
      [] Peek(p) = "while" -> Headed(q, "while", "")
      [] Peek(p) = "match" -> Match(q)
      [] Peek(p) \in {"for", "parallel"} ->
            Bind(Then(Consume(q, Identifiers), "in"), LAMBDA variable, r :
                Headed(r, Peek(p), variable))
      [] Peek(p) = "return" -> Return(q)
      [] OTHER ->
            Bind(Then(Rule("assignment", p), ";"), LAMBDA tree, r :
                Done(Node("expression", "", <<tree>>), r))

Rule(name, p) ==
    CASE name = "assignment" -> Assignment(p)
      [] name = "or" -> Binary(p, 1)
      [] name = "unary" -> Unary(p)
      [] name = "declaration" -> Declaration(p)
      [] name = "if" -> If(p)
      [] name = "block" -> Block(p)

Program(p) ==
    Bind(Statements(p, End, <<>>), LAMBDA statements, q :
        Done(Node("program", "", statements), q))

Parse(tokens) ==
    IF alphabet.entry = "program" THEN Program(Start(tokens))
    ELSE Then(Rule("assignment", Start(tokens)), End)

-----------------------------------------------------------------------------
Init == alphabet \in Alphabets /\ text = <<>> /\ outcome = Parse(<<>>)

\* Whether more tokens may make a text of this one.
Unfinished == outcome.ok \/ Peek(outcome.at) = End

Type(token) ==
    /\ Len(text) < alphabet.length /\ Unfinished
    /\ text' = Append(text, token)
    /\ outcome' = Parse(text')
    /\ UNCHANGED alphabet

Next == \E token \in alphabet.tokens : Type(token)

Spec == Init /\ [][Next]_vars

=============================================================================
