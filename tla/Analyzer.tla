------------------------------ MODULE Analyzer ------------------------------
(***************************************************************************)
(* The semantic analysis (src/src/semantic): one pass over the tree that   *)
(* threads the analyser's state, here a record `a', and collects the kinds *)
(* of the errors it finds.  It executes nothing.  A type that is not known *)
(* without executing is NoType.                                            *)
(*                                                                         *)
(* Three fields are kept for the properties only: `decided' and `open' are *)
(* the checks at which a static type was known and those left to the       *)
(* runtime; `resolved' is the depth of the scope each name was found in.   *)
(***************************************************************************)
EXTENDS Syntax

Variable(t) == [sort |-> "Variable", type |-> t]
ParameterSymbol(t) == [sort |-> "Parameter", type |-> t]
LoopVariable == [sort |-> "LoopVariable", type |-> NoType]
Printer == [sort |-> "Builtin"]
FunctionSymbol(ps, t) == [sort |-> "Function", parameters |-> ps, returns |-> t,
                          arity |-> Len(ps)]
BuiltinFunction(n) == [sort |-> "Function", parameters |-> <<>>,
                       returns |-> NoType, arity |-> n]
IsMutable(s) == s.sort \in {"Variable", "Parameter", "LoopVariable"}

BuiltinScope == [x \in DOMAIN Builtins \cup {"print"} |->
    IF x = "print" THEN Printer ELSE BuiltinFunction(Builtins[x])]

Start(program) ==
    [scopes |-> <<BuiltinScope, NoScope>>, loops |-> <<>>, boundaries |-> <<>>,
     functions |-> 0, returns |-> NoType, registry |-> Registry(program),
     declared |-> {}, errors |-> {}, decided |-> {}, open |-> {},
     resolved |-> {}]

\* A fold over a tree.  The state so far is evaluated before the next node:
\* otherwise TLC would nest every node of a program in the one after it.
Thread(Op(_, _), a, nodes) ==
    FoldLeft(LAMBDA b, node :
                 CHOOSE result \in {Op(c, node) : c \in {b}} : TRUE,
             a, nodes)

Report(a, kind) == [a EXCEPT !.errors = @ \cup {kind}]
ReportIf(condition, a, kind) == IF condition THEN Report(a, kind) ELSE a

----------------------------------------------------------------------------
(* Scopes *)

Enter(a) == [a EXCEPT !.scopes = Append(@, NoScope)]
Leave(a) == [a EXCEPT !.scopes = Front(@)]

Defined(a, x) == DepthOf(a.scopes, x) # 0
Symbol(a, x) == a.scopes[DepthOf(a.scopes, x)][x]
IsFunction(a, e) == /\ e.kind = "Identifier" /\ Defined(a, e.name)
                    /\ Symbol(a, e.name).sort = "Function"

\* A duplicate is an error and keeps the first symbol.
Declare(a, x, symbol) ==
    IF x \in DOMAIN Last(a.scopes) THEN Report(a, "DuplicateDeclaration")
    ELSE [a EXCEPT !.scopes[Len(a.scopes)] = @ @@ (x :> symbol)]

Resolve(a, x) ==
    IF Defined(a, x)
    THEN [a EXCEPT !.resolved = @ \cup {<<x, DepthOf(a.scopes, x)>>}]
    ELSE Report(a, "UndefinedName")

----------------------------------------------------------------------------
(* Types known without executing *)

RECURSIVE KnownType(_, _)

MemberType(a, object, x) ==
    LET t == KnownType(a, object)
    IN  IF IsNamed(a.registry, t) /\ x \in FieldNames(a.registry[t])
        THEN FieldType(a.registry[t], x) ELSE NoType

NameType(a, x) ==
    IF ~Defined(a, x) THEN NoType
    ELSE IF IsMutable(Symbol(a, x)) THEN Symbol(a, x).type ELSE "function"

BinaryType(op, l, r) ==
    CASE op \in Relational \cup Logical -> "bool"
      [] op \notin Relational \cup Logical /\ NoType \in {l, r} -> NoType
      [] OTHER ->
           CASE op = "+" /\ "string" \in {l, r} -> "string"
             [] op = "+" /\ {l, r} = {"bytes"} -> "bytes"
             [] op \in {"+", "-"} /\ {l, r} = {"duration"} -> "duration"
             [] {l, r} = {"int"} -> "int"
             [] "float" \in {l, r} /\ {l, r} \subseteq {"int", "float"} ->
                    "float"
             [] OTHER -> NoType

KnownType(a, e) ==
    CASE e.kind = "Property" -> MemberType(a, e.object, e.name)
      [] e.kind = "Index" -> IF e.index.kind = "String"
                             THEN MemberType(a, e.object, e.index.text)
                             ELSE NoType
      [] e.kind = "Construct" -> IF Resolves(a.registry, e.name)
                                 THEN e.name ELSE NoType
      [] e.kind = "Integer" -> "int"
      [] e.kind = "Float" -> "float"
      [] e.kind = "Boolean" -> "bool"
      [] e.kind = "String" -> "string"
      [] e.kind = "Duration" -> "duration"
      [] e.kind = "Null" -> "null"
      [] e.kind = "Array" -> "array"
      [] e.kind = "Object" -> "object"
      [] e.kind = "Identifier" -> NameType(a, e.name)
      [] e.kind = "Assignment" -> KnownType(a, e.value)
      [] e.kind = "Call" -> IF IsFunction(a, e.callee)
                            THEN Symbol(a, e.callee.name).returns ELSE NoType
      [] e.kind = "Unary" ->
           IF e.operator = "!" THEN "bool"
           ELSE LET t == KnownType(a, e.expression)
                IN  IF t \in {"int", "float"} THEN t ELSE NoType
      [] e.kind = "Binary" ->
           BinaryType(e.operator, KnownType(a, e.left), KnownType(a, e.right))
      [] OTHER -> NoType

ResolveType(a, t) ==
    ReportIf(t # NoType /\ ~Resolves(a.registry, t), a, "UnknownType")

\* A contract with a static type is decided now, any other when it executes.
CheckType(a, e, expected) ==
    LET t == KnownType(a, e)
    IN  IF expected = NoType THEN a
        ELSE IF t = NoType
        THEN [a EXCEPT !.open = @ \cup {<<"type", e, expected>>}]
        ELSE [ReportIf(t # expected, a, "TypeMismatch")
                  EXCEPT !.decided = @ \cup {<<"type", e, expected>>}]

CheckMember(a, e, object, x) ==
    LET t == KnownType(a, object)
    IN  IF ~IsNamed(a.registry, t)
        THEN [a EXCEPT !.open = @ \cup {<<"member", e, x>>}]
        ELSE [ReportIf(x \notin FieldNames(a.registry[t]), a, "TypeMismatch")
                  EXCEPT !.decided = @ \cup {<<"member", e, x>>}]

----------------------------------------------------------------------------
(* Expressions *)

RECURSIVE Expression(_, _)
Expressions(a, es) == Thread(Expression, a, es)

\* The name behind the properties and indices of a target.
RECURSIVE TargetRoot(_)
TargetRoot(e) ==
    IF e.kind \in {"Property", "Index"} THEN TargetRoot(e.object) ELSE e

\* Mutant: the variables of the scope around the worker count as its own.
OwnScopeCapture(a, root) ==
    ReportIf(/\ root.kind = "Identifier" /\ Defined(a, root.name)
             /\ a.boundaries # <<>>
             /\ DepthOf(a.scopes, root.name) < Last(a.boundaries).depth
             /\ IsMutable(Symbol(a, root.name)),
             a, "CapturedAssignment")
\* Rust: check_parallel_assignment.  The innermost worker sees everything
\* declared outside it as a read-only capture.
CheckCapture(a, root) ==
    ReportIf(/\ root.kind = "Identifier" /\ Defined(a, root.name)
             /\ a.boundaries # <<>>
             /\ DepthOf(a.scopes, root.name) <= Last(a.boundaries).depth
             /\ IsMutable(Symbol(a, root.name)),
             a, "CapturedAssignment")

AnalyzeTarget(a, target) ==
    IF target.kind = "Identifier"
    THEN ReportIf(/\ Defined(a, target.name)
                  /\ ~IsMutable(Symbol(a, target.name)),
                  Resolve(a, target.name), "ImmutableAssignment")
    ELSE Expression(
             ReportIf(target.kind \notin {"Property", "Index"}, a,
                      "InvalidAssignmentTarget"), target)

AnalyzeAssignment(a, e) ==
    LET b == Expression(
                 CheckCapture(AnalyzeTarget(a, e.target), TargetRoot(e.target)),
                 e.value)
        expected ==
            CASE e.target.kind \in {"Property", "Index"} ->
                     TypeOf(b, KnownType(b, e.target))
              [] e.target.kind = "Identifier" /\ Defined(b, e.target.name) ->
                     IF IsMutable(Symbol(b, e.target.name))
                     THEN Symbol(b, e.target.name).type ELSE NoType
              [] OTHER -> NoType
    IN  CheckType(b, e.value, expected)

AnalyzeCall(a, e) ==
    LET direct == IsFunction(a, e.callee)
        symbol == Symbol(a, e.callee.name)
        counted ==
            IF ~direct THEN a
            ELSE [ReportIf(symbol.arity # Len(e.arguments), a, "ArgumentCount")
                      EXCEPT !.decided = @ \cup {<<"arguments", e>>}]
        b == Expressions(Expression(counted, e.callee), e.arguments)
        checked == IF direct THEN Min({Len(e.arguments), Len(symbol.parameters)})
                   ELSE 0
    IN  FoldLeft(LAMBDA c, i : CheckType(c, e.arguments[i],
                                         symbol.parameters[i]),
                 b, [i \in 1 .. checked |-> i])

AnalyzeConstruct(a, e) ==
    LET named == IsNamed(a.registry, e.name)
        fields == IF named THEN a.registry[e.name] ELSE <<>>
        earlier(i) == {e.members[j].name : j \in 1 .. (i - 1)}
        member(b, i) ==
            LET x == e.members[i].name
                c == ReportIf(x \in earlier(i),
                              Expression(b, e.members[i].value),
                              "InvalidConstructor")
            IN  IF ~named THEN c
                ELSE IF x \notin FieldNames(fields)
                THEN Report(c, "InvalidConstructor")
                ELSE CheckType(c, e.members[i].value,
                               TypeOf(c, FieldType(fields, x)))
    IN  ReportIf(\/ ~named
                 \/ ~(FieldNames(fields) \subseteq FieldNames(e.members)),
                 FoldLeft(member, a, [i \in DOMAIN e.members |-> i]),
                 "InvalidConstructor")

Expression(a, e) ==
    CASE e.kind = "Identifier" -> Resolve(a, e.name)
      [] e.kind = "Assignment" -> AnalyzeAssignment(a, e)
      [] e.kind = "Call" -> AnalyzeCall(a, e)
      [] e.kind = "Construct" -> AnalyzeConstruct(a, e)
      [] e.kind = "Property" ->
             CheckMember(Expression(a, e.object), e, e.object, e.name)
      [] e.kind = "Index" /\ e.index.kind = "String" ->
             CheckMember(Expressions(a, Operands(e)), e, e.object, e.index.text)
      [] OTHER -> Expressions(a, Operands(e))

----------------------------------------------------------------------------
(* Statements *)

RECURSIVE Statement(_, _)

\* Functions are declared first, so that they can call each other; variables
\* in the order of the text.
Hoist(a, s) ==
    IF s.kind # "Function" THEN a
    ELSE LET b == FoldLeft(LAMBDA c, p : ResolveType(c, p.annotation),
                           a, s.parameters)
             types == [i \in DOMAIN s.parameters |->
                          TypeOf(b, s.parameters[i].annotation)]
         IN  Declare(ResolveType(b, s.annotation), s.name,
                     FunctionSymbol(types, TypeOf(b, s.annotation)))
Body(a, body) == Thread(Statement, FoldLeft(Hoist, a, body), body)
Scoped(a, body) == Leave(Body(Enter(a), body))

AnalyzeLet(a, s) ==
    LET b == ResolveType(Expression(a, s.value), s.annotation)
    IN  Declare(CheckType(b, s.value, TypeOf(b, s.annotation)), s.name,
                Variable(TypeOf(b, s.annotation)))

\* A function starts with no loop of its caller and returns to no other type.
AnalyzeFunction(a, s) ==
    LET entered == [Enter(a) EXCEPT !.functions = @ + 1, !.loops = <<>>,
                                    !.returns = TypeOf(a, s.annotation)]
        b == Body(FoldLeft(LAMBDA c, p : Declare(c, p.name,
                               ParameterSymbol(TypeOf(c, p.annotation))),
                           entered, s.parameters),
                  s.body)
    IN  [Leave(b) EXCEPT !.functions = @ - 1, !.loops = a.loops,
                         !.returns = a.returns]

AnalyzeBreak(a) ==
    IF a.loops = <<>> THEN Report(a, "BreakOutsideLoop")
    ELSE ReportIf(Last(a.loops) = "parallel", a, "BreakAcrossParallel")

AnalyzeReturn(a, s) ==
    LET inWorker == /\ a.boundaries # <<>>
                    /\ Last(a.boundaries).functions = a.functions
        b == IF inWorker THEN Report(a, "ReturnAcrossParallel")
             ELSE ReportIf(a.functions = 0, a, "ReturnOutsideFunction")
        value == IF s.result = <<>> THEN Null ELSE Head(s.result)
    IN  CheckType(Expression(b, value), value, a.returns)

AnalyzeLoop(a, kind, variable, body) ==
    LET pushed == [a EXCEPT !.loops = Append(@, kind)]
        b == Body(Declare(Enter(pushed), variable, LoopVariable), body)
    IN  [Leave(b) EXCEPT !.loops = a.loops]

AnalyzeParallel(a, s) ==
    LET boundary == [depth |-> Len(a.scopes), functions |-> a.functions]
        b == AnalyzeLoop([a EXCEPT !.boundaries = Append(@, boundary)],
                         "parallel", s.variable, s.body)
    IN  [b EXCEPT !.boundaries = a.boundaries]

AnalyzeType(a, s) ==
    LET names == [i \in DOMAIN s.fields |-> s.fields[i].name]
        b == FoldLeft(LAMBDA c, f : ResolveType(c, f.annotation), a, s.fields)
        c == ReportIf(\/ Len(a.scopes) # 2 \/ a.functions # 0
                      \/ s.name \in ReservedTypes
                      \/ OnCycle(a.registry, s.name),
                      b, "InvalidTypeDeclaration")
    IN  [ReportIf(s.name \in a.declared \/ ~IsInjective(names), c,
                  "DuplicateDeclaration")
             EXCEPT !.declared = @ \cup {s.name}]

Statement(a, s) ==
    CASE s.kind = "Type" -> AnalyzeType(a, s)
      [] s.kind = "Let" -> AnalyzeLet(a, s)
      [] s.kind = "Expression" -> Expression(a, s.expression)
      [] s.kind = "Block" -> Scoped(a, s.body)
      [] s.kind = "Function" -> AnalyzeFunction(a, s)
      [] s.kind = "Break" -> AnalyzeBreak(a)
      [] s.kind = "Continue" ->
             ReportIf(a.loops = <<>>, a, "ContinueOutsideLoop")
      [] s.kind = "Return" -> AnalyzeReturn(a, s)
      [] s.kind = "If" ->
             FoldLeft(Scoped, Expression(a, s.condition), <<s.body>> \o s.else)
      [] s.kind = "While" ->
             LET b == [Expression(a, s.condition)
                           EXCEPT !.loops = Append(@, "serial")]
             IN  [Scoped(b, s.body) EXCEPT !.loops = a.loops]
      [] s.kind = "For" ->
             AnalyzeLoop(Expression(a, s.iterable), "serial", s.variable, s.body)
      [] s.kind = "Parallel" ->
             AnalyzeParallel(Expression(a, s.iterable), s)
      [] s.kind = "Match" ->
             FoldLeft(LAMBDA b, arm : Scoped(b, arm.body),
                      Expression(a, s.expression), s.arms)

Analyze(program) == Body(Start(program), program)
=============================================================================
