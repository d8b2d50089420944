--------------------------- MODULE MCInterpreter ---------------------------
(***************************************************************************)
(* Families of small programs.  Each family is every combination of some   *)
(* declarations, statements or expressions, so that most of what can be    *)
(* written in so few lines is written, right or wrong.                     *)
(***************************************************************************)
EXTENDS Soundness, Analyzer

F == <<1000>>
G == <<1001>>
MCListen == <<1002>>
MCBind == <<1003>>
MCBuiltins == "bytes" :> 1 @@ "byte_len" :> 1 @@ "set_timeout" :> 2
MCFloats == LET positive == {0, 1, 2, 3, 4, 6, 8, 12, 16}
            IN  positive \cup {-q : q \in positive}

One == Integer(1)
Two == Integer(2)
Pair == Array(<<One, Two>>)
x == Identifier("x")
i == Identifier("i")
j == Identifier("j")
CallOf(f, es) == Call(Identifier(f), es)
Show(e) == Do(CallOf("print", <<e>>))
Set(target, e) == Do(Assignment(target, e))
Define(f, body) == Function(f, <<>>, NoType, body)

----------------------------------------------------------------------------
(* Names: what a function or a worker sees, and may assign.  Every         *)
(* three statements in a block that may shadow the x and f outside it.     *)

Inner ==
    {Set(x, i), Set(i, x), Do(CallOf("f", <<>>)), Define("g", <<Set(x, i)>>),
     Let("x", NoType, x), Parallel("j", Array(<<One>>), <<Set(i, j)>>),
     For("x", Pair, <<Set(x, i)>>)}
Uses ==
    {Let("x", NoType, x), Define("f", <<Show(x)>>), Define("f", <<Set(x, Two)>>),
     Function("f", <<Parameter("x", NoType)>>, NoType, <<Set(x, Two)>>),
     Define("f", <<Let("x", NoType, Two), Define("g", <<Set(x, One)>>),
                   Do(CallOf("g", <<>>)), Show(x)>>),
     Define("f", <<Parallel("i", Pair, <<Show(x)>>)>>),
     Set(x, Two), Show(x), Do(CallOf("f", <<>>)), Do(CallOf("f", <<One>>)),
     Set(Identifier("f"), One)}
        \cup {Parallel("i", Pair, <<s>>) : s \in Inner}
Names ==
    {<<Let("x", NoType, One), Define("f", <<Set(x, Two)>>), Block(<<a, b, c>>)>>
         : a, b, c \in Uses}
        \cup {<<Set(One, One)>>}

----------------------------------------------------------------------------
(* Control: three levels of statements around a jump.  Loops do not end by *)
(* themselves, a function is called inside an expression.                  *)

Around(b) ==
    {While(Boolean(TRUE), b), For("i", Pair, b), Parallel("i", Pair, b),
     Block(b), If(Boolean(FALSE), <<>>, <<b>>),
     Match(One, <<Arm(Two, <<>>), Arm(One, b), Arm(Wildcard, <<>>)>>),
     Block(<<Define("f", b), Do(Array(<<CallOf("f", <<>>)>>))>>)}
Endings == {<<>>, <<Show(One)>>}
              \cup {<<Show(One), jump>> : jump \in
                  {Break, Continue, Return(<<>>), Return(<<Two>>)}}
Wrap(bodies) == {<<s>> : s \in UNION {Around(b) : b \in bodies}}
WithMain == {<<Define("main", b)>> : b \in Wrap(Wrap(Endings))}
Recursions ==
    {<<Function("f", <<Parameter("x", NoType)>>, NoType, b),
       Parallel("i", Pair, <<Do(CallOf("f", <<e>>)), Show(i)>>)>> :
         b \in {<<Return(<<CallOf("f", <<x>>)>>)>>, <<Show(x)>>,
                <<While(x, <<Do(CallOf("f", <<Boolean(FALSE)>>)), Break>>)>>},
         e \in {Boolean(TRUE), Unary("!", Unary("!", Boolean(TRUE))),
                Unary("!", Unary("!", Unary("!", Boolean(TRUE))))}}
Control == Wrap(Wrap(Wrap(Endings))) \cup WithMain \cup Recursions

----------------------------------------------------------------------------
(* Types: a value of every kind where one of every type is expected, and   *)
(* assignments into a value that another name also holds.                  *)

Text == String(<<1004>>)
A == <<1005>>
B == <<1006>>
P(e) == Construct("P", <<Member(A, e)>>)
Q(e) == Construct("Q", <<Member(B, e)>>)
p == Identifier("p")
q == Identifier("q")
o == Identifier("o")
Sum(l, r) == Binary(l, "+", r)
TypesAndValues ==
    <<Type("P", <<Field(A, "int")>>), Type("Q", <<Field(B, "P")>>),
      Let("p", "P", P(One)), Let("q", NoType, Q(p)),
      Let("o", NoType, Object(<<Member(A, q), Member(B, Array(<<p>>))>>))>>

Typed ==
    {One, Float(2), Text, Boolean(TRUE), Null, Duration(1), Sum(One, Float(1)),
     Sum(One, Text), Sum(Duration(1), Duration(2)), Sum(p, One),
     Sum(Property(p, A), Sum(One, One)), Unary("-", Property(p, A)),
     Binary(Property(q, B), "==", p), Unary("!", Identifier("b")),
     CallOf("bytes", <<Pair>>), Sum(CallOf("bytes", <<Pair>>), o),
     CallOf("byte_len", <<CallOf("bytes", <<Pair>>)>>), CallOf("byte_len", <<p>>),
     CallOf("set_timeout", <<o, Duration(1)>>), CallOf("bytes", <<>>),
     p, q, o, Identifier("f"), P(Text), P(Property(o, A)), Q(P(One)), Q(Q(p)),
     Construct("P", <<>>), Construct("Zzz", <<>>),
     Property(q, B), Index(q, String(B)), Property(Property(q, B), A),
     Property(p, B), Property(o, A), Index(Property(o, B), Integer(0)),
     Index(Property(o, B), Two), Property(Property(o, A), B)}
Annotations == {NoType, "int", "float", "bool", "string", "bytes", "P", "Q",
                "Zzz"}
Expecting(e) ==
    {<<Let("v", t, e), Show(Identifier("v"))>> : t \in Annotations}
        \cup {<<Function("f", <<Parameter("x", t)>>, u, <<Return(<<x>>)>>),
                Do(CallOf("f", <<e>>))>> :
                  t \in {NoType, "int", "P"}, u \in {NoType, "int", "Q"}}
        \cup {<<Do(CallOf("f", <<e>>))>>, <<If(e, <<Show(p)>>, <<>>)>>,
              <<For("i", e, <<>>)>>, <<Parallel("i", e, <<Show(i)>>)>>,
              <<While(e, <<Break>>)>>, <<Do(Call(e, <<>>))>>,
              <<Match(e, <<Arm(Null, <<Show(p)>>), Arm(One, <<Show(q)>>)>>)>>,
              <<Do(Binary(e, "||", e))>>,
              <<Do(Connection("TCP", e, <<>>))>>, <<Do(Send(p, e, <<e>>))>>,
              <<Do(Request(e, <<One>>))>>, <<Show(Receive(e))>>}
Targets ==
    {p, q, Property(p, A), Property(q, B), Index(q, String(A)),
     Property(Property(q, B), A), Property(Property(o, A), B),
     Property(Property(Property(o, A), B), A),
     Index(Property(o, B), Integer(0)), Property(o, A),
     Property(Index(Property(o, B), Integer(0)), A)}
Stored == {One, Text, p, q, Q(P(Two)), Property(q, B), Property(o, A),
           Property(Index(Property(o, B), Integer(0)), A)}
Bool(body) == <<Let("b", "bool", Boolean(TRUE))>> \o body
Types ==
    {TypesAndValues \o Bool(body) : body \in UNION {Expecting(e) : e \in Typed}}
        \cup {TypesAndValues \o <<Set(t, e), Set(u, f), Show(o)>> :
                 t, u \in Targets, e \in Stored, f \in {One, p, q}}
        \cup {<<Type("P", <<Field(A, t)>>), Type("Q", <<Field(A, u)>>),
                Type(v, <<Field(A, "int")>>), Let("p", "P", P(One))>> :
                 t, u \in {"int", "P", "Q"}, v \in {"P", "R"}}

----------------------------------------------------------------------------
(* Each family with limits: ample ones, but for the steps of an endless    *)
(* loop, and in Control all of them so small that each one strikes.        *)

Ample == [steps |-> 60, call_depth |-> 3, expression_depth |-> 8,
          parallel_workers |-> 2, parallel_output_bytes |-> 3]
Tight == [Ample EXCEPT !.steps = 44, !.expression_depth = 4]
Under(programs, ls) == {[program |-> body, limits |-> ls] : body \in programs}
MCCases ==
    Under(Names, [Ample EXCEPT !.parallel_output_bytes = 2])
        \cup Under(Control, Tight)
        \cup Under(Types, [Ample EXCEPT !.steps = 90])

----------------------------------------------------------------------------
(* The parts of a program: the bodies and the expressions inside it.       *)

BodiesOf(s) ==
    CASE s.kind = "If" -> {s.body} \cup Range(s.else)
      [] s.kind = "Match" -> {s.arms[k].body : k \in DOMAIN s.arms}
      [] s.kind \in {"Block", "While", "For", "Parallel", "Function"} -> {s.body}
      [] OTHER -> {}
RECURSIVE BodiesIn(_)
BodiesIn(body) ==
    {body} \cup UNION {BodiesIn(b) : b \in UNION {BodiesOf(s) : s \in Range(body)}}

ExprsOf(s) ==
    CASE s.kind \in {"Let", "Expression", "Match", "If", "For", "Parallel"} ->
             {Subject(s)}
      [] s.kind = "While" -> {s.condition}
      [] s.kind = "Return" -> Range(s.result)
      [] OTHER -> {}
RECURSIVE ExprsIn(_)
ExprsIn(e) ==
    {e} \cup UNION {ExprsIn(part) : part \in
        CASE e.kind = "Assignment" -> {e.target, e.value}
          [] e.kind = "Construct" -> Range(Values(e.members))
          [] OTHER -> Range(Operands(e))}
MCParts(body) ==
    LET bodies == BodiesIn(body)
        statements == UNION {Range(b) : b \in bodies}
    IN  [bodies |-> bodies,
         exprs |-> UNION {ExprsIn(e) : e \in UNION {ExprsOf(s) : s \in statements}}]
=============================================================================
