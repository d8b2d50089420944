---------------------------- MODULE Interpreter ----------------------------
(***************************************************************************)
(* The tree-walking interpreter (src/src/interpreter): statements, calls,  *)
(* expressions, assignment, and the workers of a parallel statement.       *)
(*                                                                         *)
(* The recursion of the Rust functions is explicit: `control' holds the    *)
(* tasks still to do, the next one first, and `operands' the values that   *)
(* finished tasks left behind, the last one first.  A task that evaluates  *)
(* or executes is one call of `expression' or `statements'; the others are *)
(* what the caller does when the value or the flow comes back.  A worker   *)
(* is an interpreter of its own: the one that started it waits in `outer'. *)
(* Here the jobs of a batch run one after the other; the module Parallel   *)
(* shows that the outcome of a batch does not depend on their order.       *)
(***************************************************************************)
EXTENDS Syntax, Operations

CONSTANTS
    Analyser(_),        \* what the analysis (Analyzer) finds in a program
    Cases,              \* the programs considered, each with its limits
    Parts(_),           \* the bodies and expressions a program consists of
    Listen, Bind        \* the texts "listen" and "bind"

\* The expression that a statement starts with.
Subject(s) == CASE s.kind = "Let" -> s.value
                [] s.kind \in {"Expression", "Match"} -> s.expression
                [] s.kind = "If" -> s.condition
                [] s.kind \in {"For", "Parallel"} -> s.iterable
                [] s.kind = "Return" -> Head(s.result)

\* Bodies and expressions whose parts are again among them.
IsSequence(s) == s \in Seq(Range(s))
IsExpression(e, exprs) ==
    /\ IsSequence(Operands(e)) /\ Range(Operands(e)) \subseteq exprs
    /\ e.kind = "Assignment" => {e.target, e.value} \subseteq exprs
    /\ e.kind = "Construct" => /\ IsSequence(e.members)
                               /\ Range(Values(e.members)) \subseteq exprs
    /\ e.kind = "Binary" =>
           e.operator \in {"+", "-", "*", "/", "%"} \cup Relational \cup Logical
    /\ e.kind = "Call" => IsSequence(e.arguments)
    /\ e.kind = "Request" => /\ IsSequence(e.config)
                             /\ Range(e.config) \subseteq exprs
IsStatement(s, parts) ==
    /\ s.kind \in {"Let", "Expression", "Match", "If", "For", "Parallel"} =>
           Subject(s) \in parts.exprs
    /\ s.kind = "While" => s.condition \in parts.exprs
    /\ s.kind = "Return" => s.result = <<>> \/ Subject(s) \in parts.exprs
    /\ s.kind \in {"Block", "If", "While", "For", "Parallel", "Function"} =>
           s.body \in parts.bodies
    /\ s.kind = "Function" => IsSequence(s.parameters)
    /\ s.kind = "If" => s.else = <<>> \/ Head(s.else) \in parts.bodies
    /\ s.kind = "Match" =>
           /\ IsSequence(s.arms)
           /\ \A k \in DOMAIN s.arms : s.arms[k].body \in parts.bodies
IsTree(body, parts) ==
    /\ body \in parts.bodies
    /\ \A e \in parts.exprs : IsExpression(e, parts.exprs)
    /\ \A b \in parts.bodies :
           IsSequence(b) /\ \A k \in DOMAIN b : IsStatement(b[k], parts)

\* A line is one byte of output.
Limits == [steps : Nat, call_depth : Nat, expression_depth : Nat,
           parallel_workers : 1 .. 64, parallel_output_bytes : Nat]
ASSUME CasesAssumption ==
    \A c \in Cases : c.limits \in Limits /\ IsTree(c.program, Parts(c.program))
ASSUME BuiltinsAssumption ==
    /\ IsFiniteSet(DOMAIN Builtins)
    /\ DOMAIN Builtins \subseteq {"bytes", "byte_len", "encode_utf8", "decode_utf8",
                                 "set_timeout", "local_address", "accept", "close"}

VARIABLES
    program,            \* the program, chosen once
    limits,             \* its limits, chosen with it
    analysis,           \* what the analyser found in it
    interp,             \* the interpreter that runs: the innermost worker
    outer,              \* the interpreters that wait for their workers
    remaining_steps,    \* the step budget, shared by all of them
    result              \* how the execution ended

vars == <<program, limits, analysis, interp, outer, remaining_steps, result>>

\* What does not change.
Given == <<program, limits, analysis>>

Running == [status |-> "running"]
Rejected == [status |-> "rejected"]

----------------------------------------------------------------------------
(* Bindings and environments *)

\* A binding's value is absent until its initialiser has executed.
Binding(value, annotation, mutable) ==
    [value |-> value, annotation |-> annotation, mutable |-> mutable]

BuiltinNames == <<"print">> \o SetToSeq(DOMAIN Builtins)
BuiltinEnv == [x \in Range(BuiltinNames) |->
                  CHOOSE i \in DOMAIN BuiltinNames : BuiltinNames[i] = x]

Idle ==
    [bindings |-> [i \in DOMAIN BuiltinNames |->
         Binding(<<BuiltinValue(BuiltinNames[i])>>, NoType, FALSE)],
     functions |-> <<>>, expression_depth |-> 0, call_stack |-> <<>>,
     captured_bindings |-> 0, in_parallel_worker |-> FALSE,
     return_type |-> NoType, output |-> <<>>,
     control |-> <<>>, operands |-> <<>>]

Slot(env, x) == env[DepthOf(env, x)][x]
\* All of f, and of g what f lacks.
Merged(f, g) == [x \in DOMAIN f \cup DOMAIN g |->
                    IF x \in DOMAIN f THEN f[x] ELSE g[x]]
Only(x, v) == [y \in {x} |-> v]
Extend(env, scope) == [env EXCEPT ![Len(env)] = Merged(scope, @)]
Allocate(i, value, annotation) ==
    [i EXCEPT !.bindings = Append(@, Binding(<<value>>, annotation, TRUE))]

HasType(t, v) ==
    CASE t = NoType -> TRUE
      [] t \in PrimitiveTypes -> v.type = t
      [] OTHER -> v.type = "record" /\ v.name = t
TypeError(e, t) == [error |-> "Type", site |-> <<"type", e, t>>]

\* Mutant: a function sees the later variables of its body too.
AllVariables(body, k) == {j \in DOMAIN body : body[j].kind = "Let"}
\* The variables a function sees: those declared before it in its body.
Earlier(body, k) == {j \in 1 .. (k - 1) : body[j].kind = "Let"}
\* `statements': every binding of the body gets its slot first.  A function
\* sees all functions of the body, and the variables declared before it.  The
\* handle of a function is here the slot of its binding: each has one of both.
Begin(i, body, env, rest) ==
    LET lets == {k \in DOMAIN body : body[k].kind = "Let"}
        functions == {k \in DOMAIN body : body[k].kind = "Function"}
        declared == lets \cup functions
        slot(k) == Len(i.bindings) + Cardinality({j \in declared : j <= k})
        scope(ks) == [x \in {body[k].name : k \in ks} |->
                         slot(Max({k \in ks : body[k].name = x}))]
        visible == Extend(env, scope(functions))
        closure(k) == Extend(visible, scope(Earlier(body, k)))
        binding(k) ==
            IF k \in lets
            THEN Binding(<<>>, TypeOf(analysis, body[k].annotation), TRUE)
            ELSE Binding(<<FunctionValue(slot(k))>>, NoType, FALSE)
        function(k) ==
            [name |-> body[k].name, parameters |-> body[k].parameters,
             returns |-> TypeOf(analysis, body[k].annotation),
             body |-> body[k].body, closure |-> closure(k)]
        at(ks, id) == CHOOSE k \in ks : slot(k) = id
    IN  [i EXCEPT !.bindings = @ \o [n \in 1 .. Cardinality(declared) |->
                      binding(at(declared, Len(i.bindings) + n))],
                  !.functions =
                      Merged(@, [id \in {slot(k) : k \in functions} |->
                          function(at(functions, id))]),
                  !.control =
                      <<[task |-> "statements", env |-> visible,
                         todo |-> [k \in DOMAIN body |->
                             [statement |-> body[k], slot |-> slot(k)]]]>>
                      \o rest]
Scope(i, body, env, rest) == Begin(i, body, Append(env, NoScope), rest)

----------------------------------------------------------------------------
(* Steps of the machine *)

Top == Head(interp.control)
Rest == Tail(interp.control)
Doing(task) == /\ result = Running
               /\ interp.control # <<>>
               /\ Top.task = task
Operand == Head(interp.operands)
Drop(s, n) == SubSeq(s, n + 1, Len(s))
Arguments(n) == [k \in 1 .. n |-> interp.operands[n + 1 - k]]

Evaluate(e, env) == [task |-> "evaluate", expr |-> e, env |-> env]
EvaluateAll(es, env) == [k \in DOMAIN es |-> Evaluate(es[k], env)]
Then(task, e, env) == [task |-> task, expr |-> e, env |-> env]

\* An error, with what the properties ask about it: the check that failed, the
\* calls around it and how many of them the worker inherited.
Fault(r) ==
    [error |-> r.error,
     site |-> IF "site" \in DOMAIN r THEN r.site ELSE <<>>,
     calls |-> Len(interp.call_stack),
     inherited |-> IF outer = <<>> THEN 0 ELSE Len(Head(outer).call_stack)]

\* The outcome of a worker goes to the batch the outer interpreter waits in.
Outcome(output, faults) ==
    /\ interp' = [Head(outer) EXCEPT !.control[1].outcomes =
                      Append(@, [output |-> output, faults |-> faults])]
    /\ outer' = Tail(outer)
    /\ UNCHANGED result

\* An error ends the worker, or the execution.
Fail(fault, output) ==
    IF outer # <<>> THEN Outcome(output, <<fault>>)
    ELSE /\ result' = [status |-> "error", fault |-> fault]
         /\ interp' = [interp EXCEPT !.output = output]
         /\ UNCHANGED outer

Become(next) ==
    IF IsError(next) THEN Fail(Fault(next), interp.output)
    ELSE interp' = next /\ UNCHANGED <<outer, result>>

\* Every step takes its ticks from the shared budget first.
Step(ticks, next) ==
    /\ UNCHANGED <<Given>>
    /\ IF ticks > remaining_steps
       THEN remaining_steps' = 0 /\ Become(Error("Step limit"))
       ELSE remaining_steps' = remaining_steps - ticks /\ Become(next)

Push(tasks) == [interp EXCEPT !.control = tasks \o Rest]
\* The same, taking n operands away.
Take(n, tasks) == [interp EXCEPT !.control = tasks \o Rest,
                                 !.operands = Drop(@, n)]
\* The value of the expression whose last task this is.
Close(n, v) == [interp EXCEPT !.control = Rest,
                              !.operands = <<v>> \o Drop(@, n),
                              !.expression_depth = @ - 1]
Complete(n, v) == IF IsError(v) THEN v ELSE Close(n, v)

----------------------------------------------------------------------------
(* Expressions *)

Deep == interp.expression_depth >= limits.expression_depth
TooDeep == Error("Expression depth")
Open(tasks) == IF Deep THEN TooDeep
               ELSE [Push(tasks) EXCEPT !.expression_depth = @ + 1]
Leaf(v) == IF Deep THEN TooDeep
           ELSE IF IsError(v) THEN v
           ELSE [Push(<<>>) EXCEPT !.operands = <<v>> \o @]

Literal(e) ==
    CASE e.kind = "Integer" -> IntegerValue(e.int)
      [] e.kind = "Float" -> FloatValue(e.float)
      [] e.kind = "String" -> StringValue(e.text)
      [] e.kind = "Boolean" -> BooleanValue(e.bool)
      [] e.kind = "Duration" -> DurationValue(e.duration)
      [] e.kind = "Null" -> NullValue

Read(id) == IF interp.bindings[id].value = <<>> THEN Error("Uninitialised")
            ELSE Head(interp.bindings[id].value)
Lookup(env, x) == IF DepthOf(env, x) = 0 THEN Error("Undefined name")
                  ELSE Read(Slot(env, x))

\* Mutant: literals take no tick.
FreeLiteral ==
    /\ Doing("evaluate") /\ Top.expr.kind \in Literals
    /\ Step(0, Leaf(Literal(Top.expr)))
EvaluateLiteral ==
    /\ Doing("evaluate") /\ Top.expr.kind \in Literals
    /\ Step(1, Leaf(Literal(Top.expr)))

EvaluateIdentifier ==
    /\ Doing("evaluate") /\ Top.expr.kind = "Identifier"
    /\ Step(1, Leaf(Lookup(Top.env, Top.expr.name)))

\* The expressions without a rule of their own.
Composite == {"Array", "Object", "Unary", "Binary", "Property", "Index", "Call",
              "Connection", "Send", "Receive", "Request"}
\* What is evaluated before the expression itself decides anything.
First(e) == CASE e.kind = "Binary" /\ e.operator \in Logical -> <<e.left>>
              [] e.kind = "Request" -> <<e.url>>
              [] OTHER -> Operands(e)

EvaluateOperands ==
    /\ Doing("evaluate") /\ Top.expr.kind \in Composite
    /\ Step(1, Open(EvaluateAll(First(Top.expr), Top.env)
                        \o <<Then(Top.expr.kind, Top.expr, Top.env)>>))

\* The members still to evaluate, and the values of those before them.
ConstructTask(e, env, todo, fields) ==
    [task |-> "Construct", expr |-> e, env |-> env, todo |-> todo,
     fields |-> fields]
EvaluateConstruct ==
    /\ Doing("evaluate") /\ Top.expr.kind = "Construct"
    /\ LET e == Top.expr
       IN  Step(1, IF ~Deep /\ ~IsNamed(analysis.registry, e.name)
                   THEN Error("Unknown type")
                   ELSE Open(<<ConstructTask(e, Top.env, e.members, NoScope)>>))
NextField ==
    /\ Doing("Construct") /\ Top.todo # <<>>
    /\ Step(0, [interp EXCEPT !.control =
           <<Evaluate(Head(Top.todo).value, Top.env), [task |-> "field"]>> \o @])

\* Mutant: only the fields of primitive types are checked.
PrimitiveFields(name, x) ==
    LET fields == analysis.registry[name]
    IN  IF /\ x \in FieldNames(fields)
           /\ FieldType(fields, x) \in PrimitiveTypes
        THEN FieldType(fields, x) ELSE NoType
\* The type of a field of a named type; a name that is no field has none.
FieldContract(name, x) ==
    LET fields == analysis.registry[name]
    IN  IF x \notin FieldNames(fields) THEN NoType
        ELSE TypeOf(analysis, FieldType(fields, x))

\* A field is checked as soon as it has a value; the task below is its record.
CheckField ==
    /\ Doing("field")
    /\ LET construct == Head(Rest)
           m == Head(construct.todo)
           t == FieldContract(construct.expr.name, m.name)
       IN  Step(0, IF ~HasType(t, Operand) THEN TypeError(m.value, t)
                   ELSE [Take(1, <<>>) EXCEPT !.control[1] =
                            ConstructTask(@.expr, @.env, Tail(@.todo),
                                          Merged(Only(m.name, Operand), @.fields))])
EndConstruct ==
    /\ Doing("Construct") /\ Top.todo = <<>>
    /\ Step(0, Close(0, RecordValue(Top.expr.name, Top.fields)))

\* The members as a function; of two with the same name, the later.
Fields(ms, vs) ==
    [x \in FieldNames(ms) |->
        vs[Max({k \in DOMAIN ms : ms[k].name = x})]]

NoMember(e, key) == [error |-> "Access", site |-> <<"member", e, key>>]
\* Properties and indices select alike; a property is an index by its name.
Get(e, v, selector) ==
    CASE v.type \in {"record", "object"} /\ selector.type = "string" ->
             IF selector.text \in DOMAIN v.fields THEN v.fields[selector.text]
             ELSE NoMember(e, selector.text)
      [] v.type = "array" /\ selector.type = "int" ->
             IF selector.int + 1 \in DOMAIN v.values
             THEN v.values[selector.int + 1] ELSE Error("Access")
      [] v.type = "bytes" /\ selector.type = "int" ->
             IF selector.int + 1 \in DOMAIN v.bytes
             THEN IntegerValue(v.bytes[selector.int + 1]) ELSE Error("Access")
      [] OTHER -> Error("Access")

ValueOf(e, vs) ==
    CASE e.kind = "Array" -> ArrayValue(vs)
      [] e.kind = "Object" -> ObjectValue(Fields(e.members, vs))
      [] e.kind = "Unary" -> IF e.operator = "!" THEN Not(vs[1])
                             ELSE Negate(vs[1])
      [] e.kind = "Binary" -> Operate(vs[1], e.operator, vs[2])
      [] e.kind = "Property" -> Get(e, vs[1], StringValue(e.name))
      [] e.kind = "Index" -> Get(e, vs[1], vs[2])

ApplyOperator ==
    /\ \E kind \in {"Array", "Object", "Unary", "Binary", "Property", "Index"} :
           Doing(kind)
    /\ Top.expr.kind = "Binary" => Top.expr.operator \notin Logical
    /\ LET n == Len(Operands(Top.expr))
       IN  Step(0, Complete(n, ValueOf(Top.expr, Arguments(n))))

\* The right operand is not evaluated when the left one decides.
ApplyLogical ==
    /\ Doing("Binary") /\ Top.expr.operator \in Logical
    /\ Step(0, IF Operand.type # "bool" THEN Error("Not a boolean")
               ELSE IF Operand.bool = (Top.expr.operator = "||")
               THEN Complete(1, Operand)
               ELSE Take(1, <<Evaluate(Top.expr.right, Top.env),
                              Then("boolean", Top.expr, Top.env)>>))
CheckBoolean ==
    /\ Doing("boolean")
    /\ Step(0, IF Operand.type # "bool" THEN Error("Not a boolean")
               ELSE Complete(1, Operand))

----------------------------------------------------------------------------
(* Calls *)

PrintLine(i, line) ==
    IF i.in_parallel_worker /\ Len(i.output) >= limits.parallel_output_bytes
    THEN Error("Output limit")
    ELSE [i EXCEPT !.output = Append(@, line)]

ArgumentCount(e) == [error |-> "Argument count", site |-> <<"arguments", e>>]

\* Enter a function: its parameters share the outermost scope of its body, the
\* expression depth starts again, the caller's return type is put aside.
EnterFunction(i, e, id, vs, rest) ==
    LET f == i.functions[id]
        parameter(k) == f.parameters[k]
        t(k) == TypeOf(analysis, parameter(k).annotation)
        wrong == {k \in DOMAIN vs : ~HasType(t(k), vs[k])}
        slots == [k \in DOMAIN vs |-> Len(i.bindings) + k]
        scope == [x \in FieldNames(f.parameters) |->
            slots[Max({k \in DOMAIN vs : parameter(k).name = x})]]
        frame == [task |-> "call", depth |-> i.expression_depth,
                  return_type |-> i.return_type]
    IN  IF Len(i.call_stack) >= limits.call_depth THEN Error("Call depth")
        ELSE IF id \notin DOMAIN i.functions THEN Error("Invalid handle")
        ELSE IF Len(vs) # Len(f.parameters) THEN ArgumentCount(e)
        ELSE IF wrong # {} THEN TypeError(e.arguments[Min(wrong)], t(Min(wrong)))
        ELSE Begin([i EXCEPT !.bindings = @ \o [k \in DOMAIN vs |->
                                 Binding(<<vs[k]>>, t(k), TRUE)],
                             !.call_stack = Append(@, f.name),
                             !.expression_depth = 0,
                             !.return_type = f.returns],
                   f.body, Append(f.closure, scope), <<frame>> \o rest)

\* The values a builtin may return.  Those that act on a connection answer
\* with the outcome of the module Transport; a text has a byte for each piece.
BuiltinResults(name, vs) ==
    LET v == vs[1]
        when(condition, values) ==
            IF condition THEN values ELSE {Error("Builtin")}
    IN  CASE name = "bytes" ->
                 when(/\ v.type = "array"
                      /\ \A k \in DOMAIN v.values :
                             v.values[k].type = "int" /\ v.values[k].int \in 0 .. 255,
                      {BytesValue([k \in DOMAIN v.values |-> v.values[k].int])})
          [] name = "byte_len" ->
                 when(v.type = "bytes", {IntegerValue(Len(v.bytes))})
          [] name = "encode_utf8" -> when(v.type = "string", {BytesValue(v.text)})
          [] name = "decode_utf8" ->
                 when(v.type = "bytes", {StringValue(v.bytes), Error("Builtin")})
          [] name = "set_timeout" ->
                 when(vs[2].type = "duration" /\ vs[2].duration # 0,
                      {NullValue, Error("Runtime")})
          [] name = "local_address" -> {StringValue(Listen), Error("Runtime")}
          [] name = "accept" -> {ConnectionValue, Error("Runtime")}
          [] name = "close" -> {NullValue, Error("Runtime")}

ApplyCall ==
    /\ Doing("Call")
    /\ LET e == Top.expr
           n == Len(e.arguments)
           vs == Arguments(n)
           callee == interp.operands[n + 1]
       IN  \/ /\ callee.type = "function"
              /\ Step(0, EnterFunction(
                              [interp EXCEPT !.operands = Drop(@, n + 1)],
                              e, callee.function, vs,
                              <<Then("called", e, Top.env)>> \o Rest))
           \/ /\ callee.type = "builtin" /\ callee.name = "print"
              /\ Step(0, LET next == PrintLine(interp, vs)
                         IN  IF IsError(next) THEN next
                             ELSE [Close(n + 1, NullValue)
                                       EXCEPT !.output = next.output])
           \/ /\ callee.type = "builtin" /\ callee.name # "print"
              /\ IF n # Builtins[callee.name] THEN Step(0, ArgumentCount(e))
                 ELSE \E v \in BuiltinResults(callee.name, vs) :
                          Step(0, Complete(n + 1, v))
           \/ /\ callee.type \notin {"function", "builtin"}
              /\ Step(0, Error("Not callable"))

\* The call frame has left the value; only the depth is still to be restored.
FinishCall == Doing("called") /\ Step(0, Complete(1, Operand))

----------------------------------------------------------------------------
(* Assignment: the target's binding and indices, the capture check, the    *)
(* value, and then the binding's value as it is by now.                    *)

\* A binding, and the selectors behind its name.
Place(slot, selectors) == [slot |-> slot, selectors |-> selectors]

\* `target' walks down to the name, and on its way back collects the selectors
\* of the path: the properties and indices still to come, the innermost first.
TargetTask(e, env, target, path) ==
    [task |-> "target", expr |-> e, env |-> env, target |-> target, path |-> path]
SelectTask(e, env, path, place) ==
    [task |-> "select", expr |-> e, env |-> env, path |-> path, place |-> place]
LoadTask(e, place) == [task |-> "load", expr |-> e, place |-> place]
StoreTask(e, place, root) ==
    [task |-> "store", expr |-> e, place |-> place, root |-> root]

EvaluateAssignment ==
    /\ Doing("evaluate") /\ Top.expr.kind = "Assignment"
    /\ LET e == Top.expr
       IN  Step(1, Open(<<TargetTask(e, Top.env, e.target, <<>>)>>))

ResolveTarget ==
    /\ Doing("target")
    /\ LET e == Top.expr
           t == Top.target
       IN  Step(1, CASE t.kind = "Identifier" ->
                            IF DepthOf(Top.env, t.name) = 0
                            THEN Error("Undefined name")
                            ELSE Push(<<SelectTask(e, Top.env, Top.path,
                                     Place(Slot(Top.env, t.name), <<>>))>>)
                     [] t.kind \in {"Property", "Index"} ->
                            Push(<<TargetTask(e, Top.env, t.object,
                                              <<t>> \o Top.path)>>)
                     [] OTHER -> Error("Invalid target"))

\* A property selects by its name, an index by the value it leaves.
Selected(selector) ==
    SelectTask(Top.expr, Top.env, Tail(Top.path),
               Place(Top.place.slot, Append(Top.place.selectors, selector)))
SelectTarget ==
    /\ Doing("select") /\ Top.path # <<>>
    /\ LET t == Head(Top.path)
       IN  Step(0, Push(IF t.kind = "Property"
                        THEN <<Selected(StringValue(t.name))>>
                        ELSE <<Evaluate(t.index, Top.env),
                               [Top EXCEPT !.task = "index"]>>))
SelectIndex == Doing("index") /\ Step(0, Take(1, <<Selected(Operand)>>))

\* What to do next if the place may be assigned to.
IfWritable(place, next) ==
    IF ~interp.bindings[place.slot].mutable THEN Error("Immutable assignment")
    ELSE IF place.slot <= interp.captured_bindings
    THEN Error("Read-only capture")
    ELSE next
\* A name alone is assigned to without being read.
Root(place) == IF place.selectors = <<>> THEN NullValue ELSE Read(place.slot)
\* Mutant: the root is read too early.
EarlyRoot ==
    /\ Doing("select") /\ Top.path = <<>>
    /\ LET e == Top.expr
           root == Root(Top.place)
       IN  Step(0, IfWritable(Top.place,
               IF IsError(root) THEN root
               ELSE Push(<<Evaluate(e.value, Top.env),
                           StoreTask(e, Top.place, root)>>)))
CheckWritable ==
    /\ Doing("select") /\ Top.path = <<>>
    /\ LET e == Top.expr
       IN  Step(0, IfWritable(Top.place,
               Push(<<Evaluate(e.value, Top.env), LoadTask(e, Top.place)>>)))

\* The value of the binding after the assigned value is known.
LoadRoot ==
    /\ Doing("load")
    /\ LET root == Root(Top.place)
       IN  Step(0, IF IsError(root) THEN root
                   ELSE Push(<<StoreTask(Top.expr, Top.place, root)>>))

\* The part of a value that a selector leads to.
Part(v, selector) ==
    IF IsError(v) THEN v
    ELSE CASE /\ v.type \in {"record", "object"} /\ selector.type = "string"
              /\ selector.text \in DOMAIN v.fields -> v.fields[selector.text]
           [] /\ v.type = "array" /\ selector.type = "int"
              /\ selector.int + 1 \in DOMAIN v.values ->
                  v.values[selector.int + 1]
           [] OTHER -> Error("Access")
\* The value with this part replaced; an object takes any field.
Changed(v, selector, part) ==
    IF v.type = "array" THEN [v EXCEPT !.values[selector.int + 1] = part]
    ELSE [v EXCEPT !.fields = Merged(Only(selector.text, part), @)]

\* The value `v' with the part that the selectors lead to replaced.
Replaced(e, v, selectors, new) ==
    LET n == Len(selectors)
        inside[k \in 0 .. n] ==
            IF k = 0 THEN v ELSE Part(inside[k - 1], selectors[k])
        outside[k \in 0 .. n] ==
            IF k = 0 THEN new
            ELSE Changed(inside[n - k], selectors[n - k + 1], outside[k - 1])
        parent == inside[n - 1]
        last == selectors[n]
        t == FieldContract(parent.name, last.text)
    IN  IF IsError(parent) THEN parent
        ELSE IF parent.type = "object" /\ last.type = "string" THEN outside[n]
        ELSE IF IsError(inside[n]) THEN inside[n]
        ELSE IF parent.type = "record" /\ ~HasType(t, new)
        THEN TypeError(e, t)
        ELSE outside[n]

\* (The bound variable makes TLC evaluate the root once.)
Store ==
    /\ Doing("store")
    /\ LET e == Top.expr
           id == Top.place.slot
           selectors == Top.place.selectors
           annotation == interp.bindings[id].annotation
       IN  \E root \in {IF selectors = <<>> THEN Operand
                        ELSE Replaced(e.value, Top.root, selectors,
                                      Operand)} :
               Step(0, IF IsError(root) THEN root
                       ELSE IF ~HasType(annotation, root)
                       THEN TypeError(e.value, annotation)
                       ELSE [Close(1, Operand)
                                 EXCEPT !.bindings[id].value = <<root>>])

----------------------------------------------------------------------------
(* Network expressions; what the runtime answers is chosen.  The modules   *)
(* Transport and HttpRequest say how it comes to its answers.              *)

Answers(e) ==
    {Error("Runtime")}
        \cup CASE e.kind = "Connection" -> {ConnectionValue}
               [] e.kind = "Send" -> {NullValue}
               [] e.kind = "Receive" -> {NullValue, BytesValue(<<1>>)}
               [] e.kind = "Request" -> {ObjectValue(NoScope)}

IsConfiguration(transport, v) ==
    LET key == IF transport = "TCP" THEN Listen ELSE Bind
    IN  DOMAIN v.fields = {key} /\ v.fields[key].type = "string"

ConnectionFails(e, v) ==
    CASE v.type = "object" ->
             e.protocol # <<>> \/ ~IsConfiguration(e.transport, v)
      [] v.type = "string" -> FALSE
      [] OTHER -> TRUE

\* The URL is checked before the configuration is evaluated.
ApplyRequest ==
    /\ Doing("Request")
    /\ Step(0, IF Operand.type # "string" THEN Error("Not a string")
               ELSE Push(EvaluateAll(Top.expr.config, Top.env)
                             \o <<Then("request", Top.expr, Top.env)>>))

ApplyNetwork ==
    /\ \E kind \in {"Connection", "Send", "Receive", "request"} : Doing(kind)
    /\ LET e == Top.expr
           n == Len(Operands(e))
           vs == Arguments(n)
           fails == CASE e.kind = "Connection" -> ConnectionFails(e, vs[1])
                      [] e.kind = "Send" -> n = 3 /\ vs[3].type # "string"
                      [] OTHER -> FALSE
       IN  IF fails THEN Step(0, Error("Invalid configuration"))
           ELSE \E answer \in Answers(e) : Step(0, Complete(n, answer))

----------------------------------------------------------------------------
(* Statements *)

\* Mutant: a for loop passes break and continue on.
WhileCatchers(flow) ==
    {"call", "worker", "program"}
        \cup (IF flow = "Return" THEN {} ELSE {"while"})
\* Where a flow other than Normal stops: a loop takes Break and Continue, a
\* function takes Return, and nothing passes a function, a worker or the end.
Catchers(flow) ==
    {"call", "worker", "program"}
        \cup (IF flow = "Return" THEN {} ELSE {"while", "for"})
CatcherOf(flow) == CHOOSE k \in DOMAIN interp.control :
    /\ interp.control[k].task \in Catchers(flow)
    /\ \A j \in 1 .. (k - 1) : interp.control[j].task \notin Catchers(flow)

\* Mutant: the expression depth of the caller is forgotten.
ForgottenDepth(rest, vs) ==
    [interp EXCEPT !.control = Tail(rest), !.operands = vs,
                   !.expression_depth = 0,
                   !.return_type = Head(rest).return_type,
                   !.call_stack = Front(@)]
\* Leave a function with its value on `vs'; `rest' starts with its frame.
LeaveFunction(rest, vs) ==
    [interp EXCEPT !.control = Tail(rest), !.operands = vs,
                   !.expression_depth = Head(rest).depth,
                   !.return_type = Head(rest).return_type,
                   !.call_stack = Front(@)]

Jump(flow) ==
    LET rest == Drop(interp.control, CatcherOf(flow) - 1)
        catcher == Head(rest).task
    IN  CASE catcher = "call" -> IF flow # "Return" THEN Error("Loop control")
                                 ELSE LeaveFunction(rest, interp.operands)
          [] catcher = "worker" ->
                 IF flow = "Continue" THEN [interp EXCEPT !.control = rest]
                 ELSE Error("Exit from worker")
          [] catcher = "program" -> [interp EXCEPT !.control = rest]
          [] OTHER -> [interp EXCEPT !.control =
                           IF flow = "Break" THEN Tail(rest) ELSE rest]

Current == Head(Top.todo).statement
Continuing == <<[Top EXCEPT !.todo = Tail(@)]>>
NextStatement(kinds) == /\ Doing("statements") /\ Top.todo # <<>>
                        /\ Current.kind \in kinds

ExecuteStatement ==
    /\ NextStatement({"Let", "Expression", "Match", "If", "For", "Parallel"})
    /\ Step(1, Push(<<Evaluate(Subject(Current), Top.env),
                      [task |-> Current.kind, statement |-> Current,
                       env |-> Top.env, slot |-> Head(Top.todo).slot]>>
                    \o Continuing))

ExecuteReturn ==
    /\ NextStatement({"Return"})
    /\ LET task == <<[task |-> "Return", statement |-> Current]>>
       IN  Step(1, IF Current.result = <<>>
                   THEN [Push(task \o Continuing)
                             EXCEPT !.operands = <<NullValue>> \o @]
                   ELSE Push(<<Evaluate(Subject(Current), Top.env)>>
                                 \o task \o Continuing))

ExecuteBlock ==
    /\ NextStatement({"Block"})
    /\ Step(1, Scope(interp, Current.body, Top.env, Continuing \o Rest))

ExecuteWhile ==
    /\ NextStatement({"While"})
    /\ Step(1, Push(<<[task |-> "while", statement |-> Current,
                       env |-> Top.env]>> \o Continuing))

ExecuteJump == /\ NextStatement({"Break", "Continue"})
               /\ Step(1, Jump(Current.kind))

\* Types and functions took effect when the body began.
ExecuteDeclaration ==
    NextStatement({"Type", "Function"}) /\ Step(1, Push(Continuing))

EndStatements ==
    Doing("statements") /\ Top.todo = <<>> /\ Step(0, Push(<<>>))

\* The name becomes visible to the rest of the body, the next task.
FinishLet ==
    /\ Doing("Let")
    /\ LET t == interp.bindings[Top.slot].annotation
           i == Take(1, <<>>)
       IN  Step(0, IF ~HasType(t, Operand)
                   THEN TypeError(Top.statement.value, t)
                   ELSE [i EXCEPT !.bindings[Top.slot].value = <<Operand>>,
                                  !.control[1].env =
                             Extend(@, Only(Top.statement.name, Top.slot))])

FinishExpression == Doing("Expression") /\ Step(0, Take(1, <<>>))

FinishReturn ==
    /\ Doing("Return")
    /\ LET value == Top.statement.result
           e == IF value = <<>> THEN Null ELSE Head(value)
       IN  Step(0, IF ~HasType(interp.return_type, Operand)
                   THEN TypeError(e, interp.return_type)
                   ELSE Jump("Return"))

Branch ==
    /\ Doing("If")
    /\ LET s == Top.statement
           i == Take(1, <<>>)
       IN  Step(0, IF Operand.type # "bool" THEN Error("Not a boolean")
                   ELSE IF Operand.bool
                   THEN Scope(i, s.body, Top.env, Rest)
                   ELSE IF s.else # <<>>
                   THEN Scope(i, Head(s.else), Top.env, Rest)
                   ELSE i)

\* A pattern matches its own kind of value only.
Matches(pattern, v) ==
    CASE pattern.kind = "Wildcard" -> TRUE
      [] pattern.kind = "Null" -> v.type = "null"
      [] OTHER -> v = Literal(pattern)

SelectArm ==
    /\ Doing("Match")
    /\ LET arms == Top.statement.arms
           taken == {k \in DOMAIN arms : Matches(arms[k].pattern, Operand)}
           i == Take(1, <<>>)
       IN  Step(0, IF taken = {} THEN i
                   ELSE Scope(i, arms[Min(taken)].body, Top.env, Rest))

TestLoop == /\ Doing("while")
            /\ Step(0, [interp EXCEPT !.control =
                   <<Evaluate(Top.statement.condition, Top.env),
                     [task |-> "test"]>> \o @])

\* The task below the test is its loop.
EnterLoop ==
    /\ Doing("test")
    /\ LET i == Take(1, <<>>)
           loop == Head(Rest)
       IN  Step(0, IF Operand.type # "bool" THEN Error("Not a boolean")
                   ELSE IF Operand.bool
                   THEN Scope(i, loop.statement.body, loop.env, Rest)
                   ELSE [i EXCEPT !.control = Tail(Rest)])

StartFor ==
    /\ Doing("For")
    /\ Step(0, IF Operand.type # "array" THEN Error("Not an array")
               ELSE Take(1, <<[task |-> "for", statement |-> Top.statement,
                               env |-> Top.env, values |-> Operand.values]>>))

NextIteration ==
    /\ Doing("for")
    /\ IF Top.values = <<>> THEN Step(0, Push(<<>>))
       ELSE LET i == Allocate(interp, Head(Top.values), NoType)
                scope == Only(Top.statement.variable, Len(i.bindings))
            IN  Step(1, Begin(i, Top.statement.body, Append(Top.env, scope),
                              <<[Top EXCEPT !.values = Tail(@)]>> \o Rest))

\* A function whose body ends without a return gives null.
EndFunction ==
    /\ Doing("call")
    /\ Step(0, IF HasType(interp.return_type, NullValue)
               THEN LeaveFunction(interp.control,
                                  <<NullValue>> \o interp.operands)
               ELSE Error("Type"))

----------------------------------------------------------------------------
(* The parallel statement *)

StartParallel ==
    /\ Doing("Parallel")
    /\ Step(0, IF Operand.type # "array" THEN Error("Not an array")
               ELSE Take(1, <<[task |-> "batch", statement |-> Top.statement,
                               env |-> Top.env, values |-> Operand.values,
                               jobs |-> <<>>, outcomes |-> <<>>,
                               faults |-> <<>>]>>))

\* Every job takes a tick from the parent.  Inside a worker a batch is one job.
PrepareBatch ==
    /\ Doing("batch") /\ Top.jobs = <<>> /\ Top.outcomes = <<>>
    /\ Top.faults = <<>>
    /\ IF Top.values = <<>> THEN Step(0, Push(<<>>))
       ELSE LET width == IF interp.in_parallel_worker THEN 1
                         ELSE limits.parallel_workers
                n == Cardinality((1 .. width) \cap DOMAIN Top.values)
            IN  Step(n, Push(<<[Top EXCEPT !.jobs = SubSeq(Top.values, 1, n),
                                           !.values = Drop(@, n)]>>))

\* A worker: a copy of the interpreter whose bindings so far are read-only.
StartWorker ==
    /\ Doing("batch") /\ Top.jobs # <<>>
    /\ LET copy == [interp EXCEPT !.captured_bindings = Len(interp.bindings),
                                  !.in_parallel_worker = TRUE,
                                  !.expression_depth = 0,
                                  !.return_type = NoType, !.output = <<>>,
                                  !.operands = <<>>]
           worker == Allocate(copy, Head(Top.jobs), NoType)
           scope == Only(Top.statement.variable, Len(worker.bindings))
       IN  /\ interp' = Begin(worker, Top.statement.body,
                              Append(Top.env, scope), <<[task |-> "worker"]>>)
           /\ outer' = <<[interp EXCEPT !.control[1].jobs = Tail(@)]>> \o outer
           /\ UNCHANGED <<Given, remaining_steps, result>>

EndWorker == /\ Doing("worker") /\ Outcome(interp.output, <<>>)
             /\ UNCHANGED <<Given, remaining_steps>>

\* Mutant: the lines of a later job are printed first.
ReversedReplay(batch, outcome) ==
    [output |-> outcome.output \o batch.output,
     faults |-> batch.faults \o outcome.faults]
\* One outcome of a batch: its lines are printed until one does not fit, and
\* the first failure is kept.
Replay(batch, outcome) ==
    LET room == IF interp.in_parallel_worker
                THEN limits.parallel_output_bytes - Len(batch.output) ELSE Len(outcome.output)
        n == Min({room, Len(outcome.output)})
        cut == IF n < Len(outcome.output)
               THEN <<Fault(Error("Output limit"))>> ELSE <<>>
    IN  [output |-> batch.output \o SubSeq(outcome.output, 1, n),
         faults |-> batch.faults \o cut \o outcome.faults]

ReplayOutcome ==
    /\ Doing("batch") /\ Top.jobs = <<>> /\ Top.outcomes # <<>>
    /\ LET batch == Replay([output |-> interp.output, faults |-> Top.faults],
                           Head(Top.outcomes))
       IN  Step(0, [Push(<<[Top EXCEPT !.outcomes = Tail(@),
                                       !.faults = batch.faults]>>)
                        EXCEPT !.output = batch.output])

EndBatch ==
    /\ Doing("batch") /\ Top.jobs = <<>> /\ Top.outcomes = <<>>
    /\ Top.faults # <<>>
    /\ Fail(Head(Top.faults), interp.output)
    /\ UNCHANGED <<Given, remaining_steps>>

----------------------------------------------------------------------------
(* The program *)

IsMain(s) == s.kind = "Function" /\ s.name = "main"
Mains == {k \in DOMAIN program : IsMain(program[k])}

\* The main function is checked before the first statement executes.
Execute ==
    /\ result = Running /\ interp = Idle
    /\ IF analysis.errors # {}
       THEN /\ result' = Rejected
            /\ UNCHANGED <<Given, interp, outer, remaining_steps>>
       ELSE Step(0, IF \E k \in Mains : program[k].parameters # <<>>
                    THEN Error("Main with parameters")
                    ELSE Begin(Idle, program, <<BuiltinEnv, NoScope>>,
                               <<[task |-> "program"]>>))

\* Whatever ended the statements, main is called if the program declares it.
EndProgram ==
    /\ Doing("program")
    /\ LET slot == Len(Idle.bindings) + Cardinality(
               {k \in 1 .. Max(Mains) : program[k].kind \in {"Let", "Function"}})
       IN  Step(0, IF Mains # {}
                   THEN EnterFunction(interp, Null, slot, <<>>,
                                      <<[task |-> "exit"]>>)
                   ELSE [Push(<<[task |-> "exit"]>>)
                             EXCEPT !.operands = <<NullValue>>])

Exit == /\ Doing("exit")
        /\ result' = [status |-> "value", value |-> Operand]
        /\ UNCHANGED <<Given, interp, outer, remaining_steps>>

----------------------------------------------------------------------------

Init ==
    /\ \E c \in Cases : program = c.program /\ limits = c.limits
    /\ analysis = Analyser(program)
    /\ interp = Idle
    /\ outer = <<>>
    /\ remaining_steps = limits.steps
    /\ result = Running

ExpressionStep ==
    \/ EvaluateLiteral \/ EvaluateIdentifier \/ EvaluateOperands
    \/ EvaluateConstruct \/ EvaluateAssignment
    \/ NextField \/ CheckField \/ EndConstruct \/ ApplyOperator \/ ApplyLogical \/ CheckBoolean
    \/ ApplyCall \/ FinishCall
    \/ ResolveTarget \/ SelectTarget \/ SelectIndex \/ CheckWritable \/ LoadRoot \/ Store
    \/ ApplyRequest \/ ApplyNetwork
StatementStep ==
    \/ ExecuteStatement \/ ExecuteReturn \/ ExecuteBlock \/ ExecuteWhile
    \/ ExecuteJump \/ ExecuteDeclaration \/ EndStatements
    \/ FinishLet \/ FinishExpression \/ FinishReturn \/ Branch \/ SelectArm
    \/ TestLoop \/ EnterLoop \/ StartFor \/ NextIteration \/ EndFunction
ParallelStep == \/ StartParallel \/ PrepareBatch \/ StartWorker \/ EndWorker
                \/ ReplayOutcome \/ EndBatch
Next == Execute \/ ExpressionStep \/ StatementStep \/ ParallelStep
            \/ EndProgram \/ Exit

\* The machine is one thread: it takes its next step as long as there is one.
Spec == Init /\ [][Next]_vars /\ WF_vars(Next)

----------------------------------------------------------------------------
(* What the machine keeps up, whatever the program and its analysis.       *)

Stack == <<interp>> \o outer            \* every interpreter, innermost first

\* The machine's counters stay inside their limits.
TypeOK ==
    /\ remaining_steps \in 0 .. limits.steps
    /\ result.status \in {"running", "rejected", "value", "error"}
    /\ outer # <<>> => interp.in_parallel_worker
    /\ \A k \in DOMAIN Stack :
           /\ Stack[k].expression_depth \in 0 .. limits.expression_depth
           /\ Len(Stack[k].call_stack) \in 0 .. limits.call_depth
           /\ Stack[k].captured_bindings \in 0 .. Len(Stack[k].bindings)
           /\ Stack[k].return_type \in
                  {NoType} \cup PrimitiveTypes \cup DOMAIN analysis.registry

\* The bindings a worker captured are those of the interpreter that waits for
\* it, whatever runs in the worker: no assignment is lost with the worker.
CapturesUnchanged ==
    \A k \in DOMAIN outer :
        /\ Stack[k].captured_bindings = Len(outer[k].bindings)
        /\ SubSeq(Stack[k].bindings, 1, Stack[k].captured_bindings)
               = outer[k].bindings

\* The expressions still open: those of the innermost function only.
Closers == Composite \cup {"Construct", "called", "boolean", "target", "select",
                           "index", "load", "store", "request"}
Depth(control) ==
    Cardinality({k \in DOMAIN control :
        /\ control[k].task \in Closers
        /\ \A j \in 1 .. k : control[j].task # "call"})
CallsIn(control) == {k \in DOMAIN control : control[k].task = "call"}

\* Depths are those of the work still open, whichever way an expression or a
\* function was left; a call will restore the depth of its caller.
DepthsRestored ==
    \A n \in DOMAIN Stack :
        LET i == Stack[n]
            inherited == IF n > Len(outer) THEN 0 ELSE Len(outer[n].call_stack)
        IN  /\ i.expression_depth = Depth(i.control)
            /\ \A k \in CallsIn(i.control) :
                   i.control[k].depth = Depth(Drop(i.control, k))
            /\ Len(i.call_stack) = inherited + Cardinality(CallsIn(i.control))

\* The buffer of a worker never exceeds its limit, the lines it takes over
\* from the workers of a nested parallel statement included.
BuffersBounded ==
    \A k \in DOMAIN Stack :
        Stack[k].in_parallel_worker =>
            Len(Stack[k].output) <= limits.parallel_output_bytes

\* What holds of every interpreter in every state.
StateKept == TypeOK /\ CapturesUnchanged /\ DepthsRestored /\ BuffersBounded
=============================================================================
