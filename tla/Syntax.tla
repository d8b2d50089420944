------------------------------- MODULE Syntax -------------------------------
(***************************************************************************)
(* The syntax tree (src/src/ast) and the registry of type names            *)
(* (src/src/types.rs).  Locations are left out: they only say where an     *)
(* error is reported.  A body is the sequence of its statements, whether a *)
(* block or a single statement.  NoType stands for a missing annotation,   *)
(* an optional part is a sequence of at most one.  A text is a sequence of *)
(* pieces; the names of fields are texts.  Every node has fields of its    *)
(* own, named for what they hold.                                          *)
(***************************************************************************)
EXTENDS Integers, Sequences, SequencesExt

CONSTANT Builtins       \* the names of runtime/builtin.rs, with their arity

Integer(n) == [kind |-> "Integer", int |-> n]
Float(q) == [kind |-> "Float", float |-> q]
String(t) == [kind |-> "String", text |-> t]
Boolean(b) == [kind |-> "Boolean", bool |-> b]
Null == [kind |-> "Null"]
Duration(d) == [kind |-> "Duration", duration |-> d]
Identifier(x) == [kind |-> "Identifier", name |-> x]
Array(es) == [kind |-> "Array", elements |-> es]
Object(fs) == [kind |-> "Object", members |-> fs]
Construct(t, fs) == [kind |-> "Construct", name |-> t, members |-> fs]
Unary(op, e) == [kind |-> "Unary", operator |-> op, expression |-> e]
Binary(l, op, r) ==
    [kind |-> "Binary", left |-> l, operator |-> op, right |-> r]
Assignment(t, v) == [kind |-> "Assignment", target |-> t, value |-> v]
Call(c, es) == [kind |-> "Call", callee |-> c, arguments |-> es]
Property(o, x) == [kind |-> "Property", object |-> o, name |-> x]
Index(o, i) == [kind |-> "Index", object |-> o, index |-> i]
Connection(transport, address, protocol) ==
    [kind |-> "Connection", transport |-> transport, address |-> address,
     protocol |-> protocol]
Send(c, d, to) == [kind |-> "Send", connection |-> c, data |-> d, to |-> to]
Receive(c) == [kind |-> "Receive", connection |-> c]
Request(url, config) == [kind |-> "Request", url |-> url, config |-> config]

Literals == {"Integer", "Float", "String", "Boolean", "Null", "Duration"}
Logical == {"&&", "||"}
Relational == {"<", "<=", ">", ">=", "==", "!="}

Type(t, fs) == [kind |-> "Type", name |-> t, fields |-> fs]
Break == [kind |-> "Break"]
Continue == [kind |-> "Continue"]
Let(x, t, e) ==
    [kind |-> "Let", name |-> x, annotation |-> t, value |-> e]
Do(e) == [kind |-> "Expression", expression |-> e]
Block(b) == [kind |-> "Block", body |-> b]
If(c, b, else) == [kind |-> "If", condition |-> c, body |-> b, else |-> else]
While(c, b) == [kind |-> "While", condition |-> c, body |-> b]
For(x, e, b) ==
    [kind |-> "For", variable |-> x, iterable |-> e, body |-> b]
Parallel(x, e, b) ==
    [kind |-> "Parallel", variable |-> x, iterable |-> e, body |-> b]
Match(e, arms) == [kind |-> "Match", expression |-> e, arms |-> arms]
Function(f, ps, t, b) ==
    [kind |-> "Function", name |-> f, parameters |-> ps, annotation |-> t,
     body |-> b]
Return(e) == [kind |-> "Return", result |-> e]

NoType == ""
Parameter(x, t) == [name |-> x, annotation |-> t]
Field(x, t) == [name |-> x, annotation |-> t]
Member(x, e) == [name |-> x, value |-> e]
Arm(pattern, b) == [pattern |-> pattern, body |-> b]
Wildcard == [kind |-> "Wildcard"]

Values(ms) == [i \in DOMAIN ms |-> ms[i].value]

\* The expressions of which an expression without a rule of its own consists.
Operands(e) ==
    CASE e.kind = "Array" -> e.elements
      [] e.kind = "Object" -> Values(e.members)
      [] e.kind = "Unary" -> <<e.expression>>
      [] e.kind = "Binary" -> <<e.left, e.right>>
      [] e.kind = "Call" -> <<e.callee>> \o e.arguments
      [] e.kind = "Property" -> <<e.object>>
      [] e.kind = "Index" -> <<e.object, e.index>>
      [] e.kind = "Connection" -> <<e.address>>
      [] e.kind = "Send" -> <<e.connection, e.data>> \o e.to
      [] e.kind = "Receive" -> <<e.connection>>
      [] e.kind = "Request" -> <<e.url>> \o e.config
      [] OTHER -> <<>>

----------------------------------------------------------------------------
(* Scopes, the innermost last: what a name stands for.                     *)

NoScope == <<>>
\* The depth of the innermost scope with the name; 0 when there is none.
DepthOf(scopes, x) ==
    Max({0} \cup {d \in DOMAIN scopes : x \in DOMAIN scopes[d]})

----------------------------------------------------------------------------
(* Type names.  A type is its name; the registry keeps the first top-level *)
(* definition of each.                                                     *)

PrimitiveTypes == {"int", "float", "bool", "string", "duration", "bytes"}
ReservedTypes ==
    PrimitiveTypes \cup {"array", "object", "function", "null", "connection"}

Registry(program) ==
    LET types == SelectSeq(program, LAMBDA s : s.kind = "Type")
        named(t) == {i \in DOMAIN types : types[i].name = t}
        first(t) == CHOOSE i \in named(t) : \A j \in named(t) : i <= j
    IN  [t \in {types[i].name : i \in DOMAIN types} |-> types[first(t)].fields]

\* TypeRegistry::resolve: a primitive name hides a definition.
IsNamed(registry, t) == t \in DOMAIN registry \ PrimitiveTypes
Resolves(registry, t) == t \in PrimitiveTypes \cup DOMAIN registry
\* The annotation as a type: none when the name is unknown.
TypeOf(a, t) == IF Resolves(a.registry, t) THEN t ELSE NoType

FieldNames(fields) == {fields[i].name : i \in DOMAIN fields}
FieldType(fields, x) == fields[CHOOSE i \in DOMAIN fields :
    fields[i].name = x /\ \A j \in 1 .. (i - 1) : fields[j].name # x].annotation

\* has_required_cycle: a value of the type would have to contain another one
\* (the search itself is the module TypeCycles).
Required(registry) ==
    [t \in DOMAIN registry |->
        {u \in {registry[t][i].annotation : i \in DOMAIN registry[t]} :
            IsNamed(registry, u)}]
OnCycle(registry, t) ==
    LET needs == Required(registry)
    IN  IsNamed(registry, t) /\
        \A closed \in SUBSET DOMAIN registry :
            needs[t] \cup UNION {needs[u] : u \in closed} \subseteq closed
                => t \in closed
=============================================================================
