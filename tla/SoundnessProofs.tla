-------------------------- MODULE SoundnessProofs --------------------------
(***************************************************************************)
(* Why annotations hold, for every program that the analysis accepts.      *)
(* Each value in the machine is sound: down to its last part, a record has *)
(* the fields that its type says, with values of their types.  That a step *)
(* finds such values where it looks for them takes the rest of the         *)
(* invariant (Good): a name leads to a binding that is there (Scoped), the *)
(* values that a task takes have been left by those before it (Runs), and  *)
(* a jump stops at a task that awaits it (Fit).                            *)
(* The last part shows that break, continue and return stay inside: what   *)
(* is to do behind a statement stops the flows that leave it (CInv).       *)
(***************************************************************************)
EXTENDS Soundness, InterpreterProofs

----------------------------------------------------------------------------
(* Values *)

\* Values that consist of one another and fit the types of a registry.
Sound(S, r) == \A v \in S :
    /\ ~IsError(v)
    /\ v.type \in {"record", "object"} => \A x \in DOMAIN v.fields : v.fields[x] \in S
    /\ v.type = "object" => v = ObjectValue(v.fields)
    /\ v.type = "record" => /\ v = RecordValue(v.name, v.fields)
                            /\ IsRecordOf(v, r[v.name])
                            /\ v.name \in DOMAIN r
    /\ v.type = "array" => /\ v = ArrayValue(v.values) /\ IsSequence(v.values)
                           /\ \A k \in DOMAIN v.values : v.values[k] \in S
    /\ v.type = "builtin" => v.name \in {"print"} \cup DOMAIN Builtins
Valued(v, r) == \E S : v \in S /\ Sound(S, r)
AllValued(s, r) == IsSequence(s) /\ \A k \in DOMAIN s : Valued(s[k], r)

\* An error, but not that of a flow that went too far.
Escapes == {"Loop control", "Exit from worker"}
Harmless(v) == IsError(v) /\ v.error \notin Escapes
Outcomes(v, r) == Harmless(v) \/ Valued(v, r)

\* What holds no other value.
Plain(v) == ~IsError(v) /\ v.type \notin {"record", "object", "array", "builtin"}
LEMMA PlainValued ==
    ASSUME NEW r, NEW v, Plain(v)
    PROVE  Valued(v, r)
<1>1. Sound({v}, r)
  BY DEF Sound, Plain
<1> QED
  BY <1>1 DEF Valued

\* The sound values that some values are among.
LEMMA PartsSound ==
    ASSUME NEW r, NEW f, NEW D, \A x \in D : Valued(f[x], r)
    PROVE  \E S : Sound(S, r) /\ \A x \in D : f[x] \in S
<1> DEFINE F(x) == CHOOSE S : f[x] \in S /\ Sound(S, r)
           U == UNION {F(x) : x \in D}
<1>1. ASSUME NEW x \in D PROVE f[x] \in F(x) /\ Sound(F(x), r)
  <2>1. \E S : f[x] \in S /\ Sound(S, r)
    BY DEF Valued
  <2> QED
    BY <2>1
<1> HIDE DEF F
<1>2. ASSUME NEW x \in D PROVE f[x] \in U
  BY <1>1
<1>3. ASSUME NEW v \in U PROVE \E x \in D : v \in F(x) /\ F(x) \subseteq U
  OBVIOUS
<1> HIDE DEF U
<1>4. Sound(U, r)
  <2>1. ASSUME NEW v \in U
        PROVE  /\ ~IsError(v)
               /\ v.type \in {"record", "object"} =>
                      \A x \in DOMAIN v.fields : v.fields[x] \in U
               /\ v.type = "object" => v = ObjectValue(v.fields)
               /\ v.type = "record" => /\ v = RecordValue(v.name, v.fields)
                                       /\ IsRecordOf(v, r[v.name])
                                       /\ v.name \in DOMAIN r
               /\ v.type = "array" => /\ v = ArrayValue(v.values) /\ IsSequence(v.values)
                                      /\ \A k \in DOMAIN v.values : v.values[k] \in U
               /\ v.type = "builtin" => v.name \in {"print"} \cup DOMAIN Builtins
    <3>1. PICK x \in D : v \in F(x) /\ F(x) \subseteq U
      BY <1>3
    <3> DEFINE S == F(x)
    <3>2. Sound(S, r) /\ v \in S /\ S \subseteq U
      BY <1>1, <3>1
    <3> HIDE DEF S
    <3> QED
      BY <3>2 DEF Sound
  <2> QED
    BY <2>1 DEF Sound
<1> QED
  BY <1>2, <1>4

\* An array of values, and an object or a record with such fields.
LEMMA ArrayValued ==
    ASSUME NEW r, NEW s, AllValued(s, r)
    PROVE  Valued(ArrayValue(s), r)
<1> DEFINE v == ArrayValue(s)
<1>1. PICK S : Sound(S, r) /\ \A k \in DOMAIN s : s[k] \in S
  <2> DEFINE D == DOMAIN s
  <2>1. \A k \in D : Valued(s[k], r)
    BY DEF AllValued
  <2> HIDE DEF D
  <2>2. \E S : Sound(S, r) /\ \A k \in D : s[k] \in S
    BY <2>1, PartsSound
  <2> QED
    BY <2>2 DEF D
<1>2. v.type = "array" /\ v.values = s /\ v = ArrayValue(v.values) /\ ~IsError(v)
  BY DEF ArrayValue, IsError
<1> HIDE DEF v
<1>3. Sound(S \cup {v}, r)
  BY <1>1, <1>2 DEF Sound, AllValued
<1> QED
  BY <1>3 DEF Valued, v

LEMMA ObjectValued ==
    ASSUME NEW r, NEW f, \A x \in DOMAIN f : Valued(f[x], r)
    PROVE  Valued(ObjectValue(f), r)
<1> DEFINE v == ObjectValue(f)
           D == DOMAIN f
<1>1. PICK S : Sound(S, r) /\ \A x \in D : f[x] \in S
  <2>1. \A x \in D : Valued(f[x], r)
    OBVIOUS
  <2> HIDE DEF D
  <2> QED
    BY <2>1, PartsSound
<1>2. v.type = "object" /\ v.fields = f /\ v = ObjectValue(v.fields) /\ ~IsError(v)
  BY DEF ObjectValue, IsError
<1> HIDE DEF v
<1>3. Sound(S \cup {v}, r)
  BY <1>1, <1>2 DEF Sound
<1> QED
  BY <1>3 DEF Valued, v

LEMMA RecordValued ==
    ASSUME NEW r, NEW name \in DOMAIN r, NEW f, \A x \in DOMAIN f : Valued(f[x], r),
           IsRecordOf(RecordValue(name, f), r[name])
    PROVE  Valued(RecordValue(name, f), r)
<1> DEFINE v == RecordValue(name, f)
           D == DOMAIN f
<1>1. PICK S : Sound(S, r) /\ \A x \in D : f[x] \in S
  <2>1. \A x \in D : Valued(f[x], r)
    OBVIOUS
  <2> HIDE DEF D
  <2> QED
    BY <2>1, PartsSound
<1>2. /\ v.type = "record" /\ v.fields = f /\ v.name = name
      /\ v = RecordValue(v.name, v.fields) /\ ~IsError(v)
  BY DEF RecordValue, IsError
<1>4. IsRecordOf(v, r[v.name])
  BY <1>2
<1> HIDE DEF v
<1>3. Sound(S \cup {v}, r)
  BY <1>1, <1>2, <1>4 DEF Sound
<1> QED
  BY <1>3 DEF Valued, v

\* A value taken apart.
LEMMA PartsValued ==
    ASSUME NEW r, NEW v, Valued(v, r)
    PROVE  /\ ~IsError(v)
           /\ v.type \in {"record", "object"} =>
                  \A x \in DOMAIN v.fields : Valued(v.fields[x], r)
           /\ v.type = "object" => v = ObjectValue(v.fields)
           /\ v.type = "record" => /\ v = RecordValue(v.name, v.fields)
                                   /\ IsRecordOf(v, r[v.name])
                                   /\ v.name \in DOMAIN r
           /\ v.type = "array" => v = ArrayValue(v.values) /\ AllValued(v.values, r)
           /\ v.type = "builtin" => v.name \in {"print"} \cup DOMAIN Builtins
<1>1. PICK S : v \in S /\ Sound(S, r)
  BY DEF Valued
<1>2. \A w \in S : Valued(w, r)
  BY <1>1 DEF Valued
<1> QED
  BY <1>1, <1>2 DEF Sound, AllValued

----------------------------------------------------------------------------
(* Operations on values *)

LEMMA ErrorOutcome ==
    ASSUME NEW r, NEW cause, cause \notin Escapes
    PROVE  Outcomes(Error(cause), r)
  BY DEF Outcomes, Harmless, Error, IsError

LEMMA LiteralValued ==
    ASSUME NEW r, NEW e, e.kind \in Literals
    PROVE  Valued(Literal(e), r)
<1>1. Plain(Literal(e))
  BY DEF Literals, Literal, Plain, IsError, IntegerValue, FloatValue, StringValue,
         BooleanValue, DurationValue, NullValue
<1> QED
  BY <1>1, PlainValued

\* What the operators give is an error or a value without parts.
Simple(v) == Harmless(v) \/ Plain(v)
LEMMA SimpleOutcome ==
    ASSUME NEW r, NEW v, Simple(v)
    PROVE  Outcomes(v, r)
  BY PlainValued DEF Simple, Outcomes

LEMMA SimpleValues ==
    /\ \A c : c \notin Escapes => Simple(Error(c))
    /\ \A n : Simple(IntegerValue(n)) /\ Simple(FloatValue(n))
    /\ \A n : Simple(BooleanValue(n)) /\ Simple(StringValue(n))
    /\ \A n : Simple(BytesValue(n)) /\ Simple(DurationValue(n))
    /\ Simple(NullValue) /\ Simple(ConnectionValue)
    /\ \A n : Simple(FunctionValue(n))
  BY DEF Simple, Harmless, Plain, IsError, Error, IntegerValue, FloatValue, BooleanValue,
         StringValue, BytesValue, DurationValue, NullValue, ConnectionValue,
         FunctionValue

\* Null and functions are values.
LEMMA GivenValued ==
    ASSUME NEW r
    PROVE  Valued(NullValue, r) /\ \A n : Valued(FunctionValue(n), r)
<1>1. Plain(NullValue) /\ \A n : Plain(FunctionValue(n))
  BY DEF Plain, IsError, NullValue, FunctionValue
<1> QED
  BY <1>1, PlainValued

LEMMA CheckedSimple ==
    \A n, c : c \notin Escapes => Simple(Checked(n, c))
  BY SimpleValues DEF Checked

Arithmetics == {"+", "-", "*", "/", "%"}
LEMMA IntegerSimple ==
    ASSUME NEW a, NEW b, NEW op \in Arithmetics
    PROVE  Simple(IntegerBinary(a, op, b))
  BY SimpleValues, CheckedSimple DEF IntegerBinary, Arithmetics, Escapes

LEMMA FloatSimple ==
    ASSUME NEW a, NEW b, NEW op \in Arithmetics
    PROVE  Simple(FloatBinary(a, op, b))
<1> DEFINE rounded(n, d) == IF IsFinite(n, d) THEN FloatValue(Nearest(n, d))
                            ELSE Error("Not finite")
<1>1. \A n, d : Simple(rounded(n, d))
  BY SimpleValues DEF Escapes
<1>2. FloatBinary(a, op, b) =
          IF op \in {"/", "%"} /\ b = 0 THEN Error("Division by zero")
          ELSE CASE op = "+" -> rounded(a + b, 1)
                 [] op = "-" -> rounded(a - b, 1)
                 [] op = "*" -> rounded(a * b, Scale)
                 [] op = "/" -> rounded(Sign(b) * a * Scale, Magnitude(b))
                 [] op = "%" -> FloatValue(a - b * Truncate(a, b))
  BY DEF FloatBinary
<1> HIDE DEF rounded
<1> QED
  BY <1>1, <1>2, SimpleValues DEF Arithmetics, Escapes

LEMMA OperateSimple ==
    ASSUME NEW l, NEW w, NEW op \in Arithmetics \cup Relational \cup Logical,
           op \notin Logical
    PROVE  Simple(Operate(l, op, w))
<1>1. \A a, b : Simple(DurationBinary(a, op, b)) /\ Simple(Concatenate(a, b))
  BY SimpleValues DEF DurationBinary, Concatenate, Escapes
<1>2. CASE op \in Arithmetics
  <2>1. Simple(Mixed(l, op, w))
    BY <1>2, SimpleValues, FloatSimple DEF Mixed, Escapes
  <2>2. Simple(Arithmetic(l, op, w))
    BY <1>1, <1>2, <2>1, SimpleValues, IntegerSimple, FloatSimple DEF Arithmetic, Escapes
  <2>3. Operate(l, op, w) = Arithmetic(l, op, w)
    BY <1>2 DEF Operate, Arithmetics, Ordering
  <2> QED
    BY <2>2, <2>3
<1>3. CASE op \notin Arithmetics
  BY <1>3, SimpleValues DEF Operate, Relational, Ordering, Escapes
<1> QED
  BY <1>2, <1>3

LEMMA UnarySimple == \A v : Simple(Not(v)) /\ Simple(Negate(v))
  BY SimpleValues, CheckedSimple DEF Not, Negate, Escapes

LEMMA BuiltinSimple ==
    ASSUME NEW name \in DOMAIN Builtins, NEW vs, NEW v \in BuiltinResults(name, vs)
    PROVE  Simple(v)
<1>1. name \in {"bytes", "byte_len", "encode_utf8", "decode_utf8", "set_timeout",
                "local_address", "accept", "close"}
  BY BuiltinsAssumption
<1> QED
  BY <1>1, SimpleValues DEF BuiltinResults, Escapes

LEMMA AnswerValued ==
    ASSUME NEW r, NEW e, e.kind \in {"Connection", "Send", "Receive", "Request"},
           NEW v \in Answers(e)
    PROVE  Outcomes(v, r)
<1>1. CASE e.kind # "Request"
  BY <1>1, SimpleOutcome, SimpleValues DEF Answers, Escapes
<1>2. CASE e.kind = "Request"
  <2>1. DOMAIN NoScope = {}
    BY DEF NoScope
  <2>2. Valued(ObjectValue(NoScope), r)
    BY <2>1, ObjectValued
  <2> QED
    BY <1>2, <2>2, ErrorOutcome DEF Answers, Outcomes, Escapes
<1> QED
  BY <1>1, <1>2

LEMMA GetOutcome ==
    ASSUME NEW r, NEW e, NEW v, Valued(v, r), NEW selector
    PROVE  Outcomes(Get(e, v, selector), r)
<1>1. CASE v.type \in {"record", "object"}
  BY <1>1, PartsValued, ErrorOutcome DEF Get, Outcomes, Harmless, NoMember, IsError, Escapes
<1>2. CASE v.type = "array"
  BY <1>2, PartsValued, ErrorOutcome DEF Get, Outcomes, AllValued, Escapes
<1>3. CASE v.type \notin {"record", "object", "array"}
  BY <1>3, ErrorOutcome, SimpleOutcome, SimpleValues DEF Get, Escapes
<1> QED
  BY <1>1, <1>2, <1>3
----------------------------------------------------------------------------
(* The invariant *)

\* Names lead to one of n bindings, whose values fit their annotations.
Scoped(env, n) == IsSequence(env)
    /\ \A d \in DOMAIN env : \A x \in DOMAIN env[d] : env[d][x] \in 1 .. n
Bound(b, r) ==
    /\ DOMAIN b = {"value", "annotation", "mutable"} /\ AllValued(b.value, r)
    /\ \A k \in DOMAIN b.value : HasType(b.annotation, b.value[k])

\* The operands that a task takes, and those that it leaves in the end.
Uses(t) ==
    CASE t.task \in Composite -> Len(First(t.expr))
      [] t.task = "request" -> Len(Operands(t.expr))
      [] t.task \in {"called", "boolean", "index", "load", "store", "field",
                     "test", "Return", "Let", "Expression", "Match", "If", "For",
                     "Parallel"} -> 1
      [] OTHER -> 0
Gives(t) == IF t.task \in Closers \cup {"evaluate", "call"} THEN 1 ELSE 0

\* The tasks that look names up.
Seeing == Composite \cup
    {"evaluate", "boolean", "Construct", "target", "select", "index", "statements",
     "Let", "Expression", "Match", "If", "For", "Parallel", "while", "for", "batch"}
\* What a task holds when there are n bindings.
Sane(t, n, r) ==
    /\ t.task \in Seeing => Scoped(t.env, n)
    /\ t.task = "Construct" =>
           /\ IsNamed(r, t.expr.name)
           /\ FieldNames(t.todo) \cup DOMAIN t.fields = FieldNames(r[t.expr.name])
           /\ \A x \in DOMAIN t.fields :
                  /\ Valued(t.fields[x], r)
                  /\ HasType(FieldType(r[t.expr.name], x), t.fields[x])
    /\ t.task \in {"select", "index", "load", "store"} =>
           t.place.slot \in 1 .. n /\ IsSequence(t.place.selectors)
    /\ t.task = "store" => t.place.selectors = <<>> \/ Valued(t.root, r)
    /\ t.task = "statements" => \A k \in DOMAIN t.todo :
           t.todo[k].statement.kind = "Let" => t.todo[k].slot \in 1 .. n
    /\ t.task = "Let" => t.slot \in 1 .. n
    /\ t.task \in {"for", "batch"} => AllValued(t.values, r)
    /\ t.task = "batch" => AllValued(t.jobs, r)
    /\ t.task = "request" => t.expr.kind = "Request" /\ IsSequence(Operands(t.expr))

\* Behind what belongs to a statement is its body, its loop or its frame.
Bodies == {"statements", "while", "for"}
Fit(t, rest) ==
    t.task \in StatementTasks \ (Frames \cup {"exit"}) =>
        rest # <<>> /\ rest[1].task \in Bodies \cup Frames

\* Tasks that n operands are enough for, with those the tasks leave themselves.
Steady(R, m, r) == \A p \in R :
    /\ IsSequence(p[1]) /\ p[2] \in Nat
    /\ p[1] # <<>> =>
           LET t == Head(p[1])
               rest == Tail(p[1])
           IN  /\ Sane(t, m, r) /\ Uses(t) \in 0 .. p[2] /\ Fit(t, rest)
               /\ <<rest, p[2] - Uses(t) + Gives(t)>> \in R
Runs(c, n, m, r) == \E R : <<c, n>> \in R /\ Steady(R, m, r)

Good(i, r) ==
    /\ \A k \in DOMAIN i.bindings : Bound(i.bindings[k], r)
    /\ AllValued(i.operands, r)
    /\ \A id \in DOMAIN i.functions :
           /\ Scoped(i.functions[id].closure, Len(i.bindings))
           /\ IsSequence(i.functions[id].parameters)
    /\ Runs(i.control, Len(i.operands), Len(i.bindings), r)

VInv ==
    /\ \E c \in Cases : program = c.program /\ analysis = Analyser(c.program)
    /\ analysis.errors # {} => interp.control = <<>> /\ outer = <<>>
    /\ Good(interp, analysis.registry)
    /\ \A k \in DOMAIN outer : Good(outer[k], analysis.registry)

----------------------------------------------------------------------------
(* Names and scopes *)

LEMMA MaxFacts ==
    ASSUME NEW n \in Nat, NEW S \in SUBSET (0 .. n), S # {}
    PROVE  Max(S) \in S /\ \A j \in S : j <= Max(S)
<1> DEFINE T == {n - k : k \in S}
<1>1. T \in SUBSET Nat /\ T # {}
  <2>1. \A k \in S : k \in 0 .. n
    OBVIOUS
  <2>2. \A k \in 0 .. n : n - k \in Nat
    OBVIOUS
  <2>3. \A k \in S : n - k \in Nat /\ n - k \in T
    BY <2>1, <2>2
  <2> QED
    BY <2>3
<1>2. PICK j \in T : \A k \in T : j <= k
  BY <1>1, LeastOf
<1>3. PICK m \in S : j = n - m
  BY <1>2
<1>4. ASSUME NEW k \in S PROVE m >= k
  <2>1. n - k \in T
    OBVIOUS
  <2>2. n - m <= n - k
    BY <1>2, <1>3, <2>1
  <2>3. n \in Nat /\ m \in 0 .. n /\ k \in 0 .. n
    OBVIOUS
  <2> QED
    BY <2>2, <2>3
<1>5. \E x \in S : \A y \in S : x >= y
  BY <1>4
<1>6. Max(S) \in S /\ \A y \in S : Max(S) >= y
  BY <1>5 DEF Max
<1>7. ASSUME NEW y \in S PROVE y <= Max(S)
  <2>1. Max(S) \in 0 .. n /\ y \in 0 .. n /\ Max(S) >= y
    BY <1>6
  <2> QED
    BY <2>1
<1> QED
  BY <1>6, <1>7

\* A name that some scope has leads to one of the bindings.
LEMMA SlotFacts ==
    ASSUME NEW n, NEW env, Scoped(env, n), NEW x, DepthOf(env, x) # 0
    PROVE  Slot(env, x) \in 1 .. n
<1> DEFINE D == {d \in DOMAIN env : x \in DOMAIN env[d]}
<1>1. DOMAIN env = 1 .. Len(env) /\ Len(env) \in Nat
  BY SequenceFacts DEF Scoped
<1>2. {0} \cup D \in SUBSET (0 .. Len(env)) /\ {0} \cup D # {}
  BY <1>1
<1>3. Max({0} \cup D) \in {0} \cup D
  BY <1>1, <1>2, MaxFacts
<1>4. DepthOf(env, x) \in D
  BY <1>3 DEF DepthOf
<1> QED
  BY <1>4 DEF Slot, Scoped

LEMMA ScopedWider ==
    ASSUME NEW n \in Nat, NEW m \in Nat, n <= m, NEW env, Scoped(env, n)
    PROVE  Scoped(env, m)
<1>1. 1 .. n \subseteq 1 .. m
  OBVIOUS
<1> QED
  BY <1>1 DEF Scoped

LEMMA MergedFacts ==
    ASSUME NEW f, NEW g
    PROVE  /\ DOMAIN Merged(f, g) = DOMAIN f \cup DOMAIN g
           /\ \A x \in DOMAIN f : Merged(f, g)[x] = f[x]
           /\ \A x \in DOMAIN g \ DOMAIN f : Merged(f, g)[x] = g[x]
  BY DEF Merged

LEMMA ScopedMore ==
    ASSUME NEW n, NEW env, Scoped(env, n),
           NEW scope, \A x \in DOMAIN scope : scope[x] \in 1 .. n
    PROVE  Scoped(Append(env, scope), n) /\ Scoped(Extend(env, scope), n)
<1>1. IsSequence(env) /\ DOMAIN env = 1 .. Len(env) /\ Len(env) \in Nat
  BY SequenceFacts DEF Scoped
<1>2. Scoped(Append(env, scope), n)
  <2> DEFINE u == Append(env, scope)
  <2>1. /\ IsSequence(u) /\ Len(u) = Len(env) + 1
        /\ \A k \in 1 .. Len(env) : u[k] = env[k]
        /\ u[Len(env) + 1] = scope
    BY <1>1, Appended
  <2> HIDE DEF u
  <2>2. DOMAIN u = 1 .. Len(env) + 1
    BY <2>1, SequenceFacts
  <2>3. \A d \in DOMAIN u : d \in DOMAIN env \/ d = Len(env) + 1
    BY <1>1, <2>2
  <2>4. Scoped(u, n)
    BY <1>1, <2>1, <2>3 DEF Scoped
  <2> QED
    BY <2>4 DEF u
<1>3. Scoped(Extend(env, scope), n)
  <2> DEFINE k == Len(env)
             w == Merged(scope, env[k])
             u == [env EXCEPT ![k] = w]
  <2>1. Extend(env, scope) = u
    BY DEF Extend
  <2>2. IsSequence(u) /\ DOMAIN u = DOMAIN env
    <3>1. IsSequence(u) /\ Len(u) = Len(env)
      BY <1>1, ExceptSequence
    <3> QED
      BY <3>1, SequenceFacts
  <2>5. /\ DOMAIN w = DOMAIN scope \cup DOMAIN env[k]
        /\ \A x \in DOMAIN scope : w[x] = scope[x]
        /\ \A x \in DOMAIN env[k] \ DOMAIN scope : w[x] = env[k][x]
    BY MergedFacts
  <2> HIDE DEF w
  <2>3. \A d \in DOMAIN env : u[d] = IF d = k THEN w ELSE env[d]
    OBVIOUS
  <2> HIDE DEF u
  <2>4. ASSUME NEW d \in DOMAIN env, NEW x \in DOMAIN u[d] PROVE u[d][x] \in 1 .. n
    <3>1. CASE d # k
      BY <2>3, <2>4, <3>1 DEF Scoped
    <3>2. CASE d = k
      <4>1. u[d] = w /\ x \in DOMAIN w
        BY <2>3, <2>4, <3>2
      <4>2. /\ x \in DOMAIN scope => w[x] = scope[x]
            /\ x \notin DOMAIN scope => x \in DOMAIN env[k] /\ w[x] = env[k][x]
        BY <2>5, <4>1
      <4> QED
        BY <3>2, <4>1, <4>2 DEF Scoped
    <3> QED
      BY <3>1, <3>2
  <2> QED
    BY <2>1, <2>2, <2>4 DEF Scoped
<1> QED
  BY <1>2, <1>3

----------------------------------------------------------------------------
(* Tasks and the operands they need *)

LEMMA SaneWider ==
    ASSUME NEW n \in Nat, NEW m \in Nat, n <= m, NEW t, NEW r, Sane(t, n, r)
    PROVE  Sane(t, m, r)
<1>1. 1 .. n \subseteq 1 .. m
  OBVIOUS
<1>2. t.task \in Seeing => Scoped(t.env, m)
  BY ScopedWider DEF Sane
<1> QED
  BY <1>1, <1>2 DEF Sane

\* Nothing to do needs nothing.
LEMMA RunsEmpty ==
    ASSUME NEW n \in Nat, NEW m, NEW r
    PROVE  Runs(<<>>, n, m, r)
<1>1. Steady({<< <<>>, n >>}, m, r)
  BY EmptyFacts DEF Steady
<1> QED
  BY <1>1 DEF Runs

\* One more task, which takes what it needs and leaves what the others need.
LEMMA RunsMore ==
    ASSUME NEW m, NEW r, NEW n \in Nat, NEW c, IsSequence(c), NEW t,
           Sane(t, m, r), Uses(t) \in 0 .. n, Fit(t, c),
           Runs(c, n - Uses(t) + Gives(t), m, r)
    PROVE  Runs(<<t>> \o c, n, m, r)
<1> DEFINE d == <<t>> \o c
<1>1. PICK R : <<c, n - Uses(t) + Gives(t)>> \in R /\ Steady(R, m, r)
  BY DEF Runs
<1>2. IsSequence(d) /\ d # <<>> /\ Head(d) = t /\ Tail(d) = c
  <2>1. c \in Seq(Range(c) \cup {t})
    BY Widen
  <2>2. IsSequence(d)
    BY ConsFacts
  <2> QED
    BY <2>1, <2>2
<1> HIDE DEF d
<1>3. Steady(R \cup {<<d, n>>}, m, r)
  <2> DEFINE p == <<d, n>>
             T == R \cup {p}
  <2>1. p[1] = d /\ p[2] = n
    OBVIOUS
  <2> HIDE DEF p
  <2>2. ASSUME NEW q \in T
        PROVE  /\ IsSequence(q[1]) /\ q[2] \in Nat
               /\ q[1] # <<>> =>
                      LET s == Head(q[1])
                          rest == Tail(q[1])
                      IN  /\ Sane(s, m, r) /\ Uses(s) \in 0 .. q[2]
                          /\ Fit(s, rest)
                          /\ <<rest, q[2] - Uses(s) + Gives(s)>> \in R
    <3>1. CASE q \in R
      BY <1>1, <3>1 DEF Steady
    <3>2. CASE q = p
      BY <1>1, <1>2, <2>1, <3>2
    <3> QED
      BY <3>1, <3>2
  <2>3. Steady(T, m, r)
    <3>1. R \subseteq T
      OBVIOUS
    <3> HIDE DEF T
    <3> QED
      BY <2>2, <3>1 DEF Steady
  <2> QED
    BY <2>3 DEF p
<1> QED
  BY <1>3 DEF Runs, d

\* The next task, and what follows it.
LEMMA RunsNext ==
    ASSUME NEW m, NEW r, NEW n, NEW c, Runs(c, n, m, r)
    PROVE  /\ IsSequence(c) /\ n \in Nat
           /\ c # <<>> =>
                  /\ Sane(Head(c), m, r) /\ Uses(Head(c)) \in 0 .. n
                  /\ Fit(Head(c), Tail(c))
                  /\ n - Uses(Head(c)) + Gives(Head(c)) \in Nat
                  /\ Runs(Tail(c), n - Uses(Head(c)) + Gives(Head(c)), m, r)
<1>1. PICK R : <<c, n>> \in R /\ Steady(R, m, r)
  BY DEF Runs
<1> DEFINE p == <<c, n>>
<1>2. p[1] = c /\ p[2] = n /\ p \in R
  BY <1>1
<1> HIDE DEF p
<1>3. /\ IsSequence(c) /\ n \in Nat
      /\ c # <<>> => /\ Sane(Head(c), m, r) /\ Uses(Head(c)) \in 0 .. n
                     /\ Fit(Head(c), Tail(c))
                     /\ <<Tail(c), n - Uses(Head(c)) + Gives(Head(c))>> \in R
  BY <1>1, <1>2 DEF Steady
<1>4. ASSUME c # <<>> PROVE n - Uses(Head(c)) + Gives(Head(c)) \in Nat
  <2>1. Gives(Head(c)) \in Nat
    BY DEF Gives
  <2> QED
    BY <1>3, <1>4, <2>1
<1> QED
  BY <1>1, <1>3, <1>4 DEF Runs

\* More operands and more bindings do no harm.
LEMMA RunsWider ==
    ASSUME NEW c, NEW n, NEW k \in Nat, n <= k, NEW m \in Nat, NEW l \in Nat, m <= l,
           NEW r, Runs(c, n, m, r)
    PROVE  Runs(c, k, l, r)
<1>1. PICK R : <<c, n>> \in R /\ Steady(R, m, r)
  BY DEF Runs
<1>2. n \in Nat
  BY RunsNext
<1> DEFINE d == k - n
           T == {<<p[1], p[2] + d>> : p \in R}
<1>3. d \in Nat /\ n + d = k
  BY <1>2
<1> HIDE DEF d
<1>4. <<c, k>> \in T
  <2>1. <<c, n>>[1] = c /\ <<c, n>>[2] + d = k
    BY <1>3
  <2> QED
    BY <1>1, <2>1
<1>5. ASSUME NEW q \in T
      PROVE  /\ IsSequence(q[1]) /\ q[2] \in Nat
             /\ q[1] # <<>> =>
                    LET t == Head(q[1])
                        rest == Tail(q[1])
                    IN  /\ Sane(t, l, r) /\ Uses(t) \in 0 .. q[2] /\ Fit(t, rest)
                        /\ <<rest, q[2] - Uses(t) + Gives(t)>> \in T
  <2>1. PICK p \in R : q = <<p[1], p[2] + d>>
    BY <1>5
  <2>2. IsSequence(p[1]) /\ p[2] \in Nat
    BY <1>1 DEF Steady
  <2>3. q[1] = p[1] /\ q[2] = p[2] + d
    BY <2>1
  <2>4. q[2] \in Nat
    BY <1>3, <2>2, <2>3
  <2>5. ASSUME q[1] # <<>>
        PROVE  LET t == Head(q[1])
                   rest == Tail(q[1])
               IN  /\ Sane(t, l, r) /\ Uses(t) \in 0 .. q[2] /\ Fit(t, rest)
                   /\ <<rest, q[2] - Uses(t) + Gives(t)>> \in T
    <3> DEFINE t == Head(q[1])
               rest == Tail(q[1])
               u == Uses(t)
               w == Gives(t)
               o == p[2] - u + w
    <3>1. /\ Sane(t, m, r) /\ u \in 0 .. p[2] /\ Fit(t, rest) /\ <<rest, o>> \in R
      BY <1>1, <2>3, <2>5 DEF Steady
    <3>2. w \in Nat
      BY DEF Gives
    <3> HIDE DEF t, rest, u, w
    <3>3. q[2] - u + w = o + d /\ u \in 0 .. q[2]
      BY <1>3, <2>2, <2>3, <3>1, <3>2
    <3> HIDE DEF o
    <3>4. <<rest, o + d>> \in T
      <4>1. <<rest, o>>[1] = rest /\ <<rest, o>>[2] = o
        OBVIOUS
      <4> QED
        BY <3>1, <4>1
    <3>5. Sane(t, l, r)
      BY <3>1, SaneWider
    <3> HIDE DEF T
    <3> QED
      BY <3>1, <3>3, <3>4, <3>5 DEF t, rest, u, w
  <2> QED
    BY <2>2, <2>3, <2>4, <2>5
<1> HIDE DEF T
<1>6. Steady(T, l, r)
  BY <1>5 DEF Steady
<1> QED
  BY <1>4, <1>6 DEF Runs

\* What each kind of task takes and leaves.
LEMMA UsesFacts ==
    ASSUME NEW t
    PROVE  /\ t.task \in Composite => Uses(t) = Len(First(t.expr)) /\ Gives(t) = 1
           /\ t.task = "request" => Uses(t) = Len(Operands(t.expr)) /\ Gives(t) = 1
           /\ t.task \in {"called", "boolean", "index", "load", "store"} =>
                  Uses(t) = 1 /\ Gives(t) = 1
           /\ t.task \in {"field", "test", "Return", "Let", "Expression", "Match",
                          "If", "For", "Parallel"} => Uses(t) = 1 /\ Gives(t) = 0
           /\ t.task \in {"evaluate", "call", "Construct", "target", "select"} =>
                  Uses(t) = 0 /\ Gives(t) = 1
           /\ t.task \in {"statements", "while", "for", "batch", "worker", "program",
                          "exit"} => Uses(t) = 0 /\ Gives(t) = 0
  BY DEF Uses, Gives, Closers, Composite

\* An evaluation in front leaves one operand more.
LEMMA RunsEvaluate ==
    ASSUME NEW m, NEW r, NEW n \in Nat, NEW c, NEW e, NEW env, Scoped(env, m),
           Runs(c, n + 1, m, r)
    PROVE  Runs(<<Evaluate(e, env)>> \o c, n, m, r)
<1> DEFINE t == Evaluate(e, env)
<1>1. t.task = "evaluate" /\ t.env = env
  BY DEF Evaluate
<1> HIDE DEF t
<1>2. Sane(t, m, r) /\ Fit(t, c)
  BY <1>1 DEF Sane, Fit, StatementTasks
<1>3. Uses(t) \in 0 .. n /\ n - Uses(t) + Gives(t) = n + 1
  BY <1>1, UsesFacts
<1>4. IsSequence(c)
  BY RunsNext
<1>5. Runs(<<t>> \o c, n, m, r)
  BY <1>2, <1>3, <1>4, RunsMore
<1> QED
  BY <1>5 DEF t

\* The same for a sequence of evaluations.
LEMMA RunsAll ==
    ASSUME NEW m, NEW r, NEW n \in Nat, NEW c, NEW es, IsSequence(es),
           NEW env, Scoped(env, m), Runs(c, n + Len(es), m, r)
    PROVE  Runs(EvaluateAll(es, env) \o c, n, m, r)
<1> DEFINE all == EvaluateAll(es, env)
           L == Len(es)
           P(k) == Runs(Drop(all, L - k) \o c, n + (L - k), m, r)
           bad == {k \in 0 .. L : ~P(k)}
<1>1. /\ IsSequence(all) /\ Len(all) = L /\ L \in Nat
      /\ \A k \in 1 .. L : all[k] = Evaluate(es[k], env)
  <2>1. IsSequence(all) /\ DOMAIN all = DOMAIN es
        /\ \A k \in DOMAIN es : all[k] = Evaluate(es[k], env)
    BY EvaluateAllFacts
  <2>2. DOMAIN es = 1 .. L /\ L \in Nat
    BY SequenceFacts
  <2> HIDE DEF all
  <2>3. DOMAIN all = 1 .. Len(all) /\ Len(all) \in Nat
    BY <2>1, SequenceFacts
  <2> HIDE DEF L
  <2> QED
    BY <2>1, <2>2, <2>3
<1>2. IsSequence(c)
  BY RunsNext
<1> HIDE DEF all
<1>3. P(0)
  <2>1. Drop(all, L) = <<>>
    <3>1. IsSequence(Drop(all, L)) /\ Len(Drop(all, L)) = L - L
      BY <1>1, DropFacts
    <3> QED
      BY <1>1, <3>1, SequenceFacts
  <2>2. L - 0 = L /\ <<>> \o c = c
    BY <1>1, <1>2, WithoutFront
  <2> QED
    BY <2>1, <2>2
<1>4. ASSUME NEW k \in 0 .. L, k # 0, P(k - 1) PROVE P(k)
  <2> DEFINE j == L - k
             s == Drop(all, j)
  <2>1. j \in 0 .. L /\ j + 1 \in 1 .. L /\ L - (k - 1) = j + 1 /\ k \in Nat
    BY <1>1, <1>4
  <2>2. /\ IsSequence(s) /\ Len(s) = L - j
        /\ \A i \in 1 .. L - j : s[i] = all[j + i]
    <3>1. j \in 0 .. Len(all)
      BY <1>1, <2>1
    <3> HIDE DEF j
    <3>2. /\ IsSequence(s) /\ Len(s) = Len(all) - j
          /\ \A i \in 1 .. Len(all) - j : s[i] = all[j + i]
      BY <1>1, <3>1, DropFacts
    <3> HIDE DEF s, L
    <3> QED
      BY <1>1, <3>2
  <2>3. Tail(s) = Drop(all, j + 1)
    <3>1. 1 \in 0 .. Len(all) - j /\ j \in 0 .. Len(all)
      BY <1>1, <2>1
    <3>2. Drop(s, 1) = Drop(all, j + 1)
      BY <1>1, <3>1, DropDrop
    <3>3. s # <<>>
      BY <1>1, <2>1, <2>2, SequenceFacts
    <3> QED
      BY <2>2, <3>2, <3>3, TailFacts
  <2>4. s # <<>> /\ s = <<all[j + 1]>> \o Tail(s)
    <3>1. s # <<>> /\ 1 \in 1 .. L - j
      BY <1>1, <2>1, <2>2, SequenceFacts
    <3>2. Head(s) = s[1] /\ s[1] = all[j + 1]
      BY <2>2, <3>1, SequenceFacts
    <3> QED
      BY <2>2, <3>1, <3>2, TailFacts
  <2> DEFINE w == Tail(s)
             e == es[j + 1]
  <2>5. IsSequence(w) /\ s = <<Evaluate(e, env)>> \o w
    BY <1>1, <2>1, <2>2, <2>4, TailFacts
  <2>6. Runs(w \o c, n + j + 1, m, r)
    <3>1. n + (L - (k - 1)) = n + j + 1
      BY <1>1, <2>1
    <3> QED
      BY <1>4, <2>1, <2>3, <3>1
  <2> HIDE DEF s, w, e
  <2>7. s \o c = <<Evaluate(e, env)>> \o (w \o c)
    BY <1>2, <2>5, SingleFacts, ConcatAssociative3, SMTT(30)
  <2>8. Runs(<<Evaluate(e, env)>> \o (w \o c), n + j, m, r)
    <3>1. n + j \in Nat
      BY <2>1
    <3> HIDE DEF j
    <3> QED
      BY <2>6, <3>1, RunsEvaluate
  <2> QED
    BY <2>7, <2>8 DEF s
<1>5. bad = {}
  <2> SUFFICES ASSUME bad # {} PROVE FALSE
    OBVIOUS
  <2> HIDE DEF P
  <2>1. bad \in SUBSET Nat
    BY <1>1
  <2>2. PICK k \in bad : \A j \in bad : k <= j
    BY <2>1, LeastOf
  <2>3. k \in 0 .. L /\ k # 0 /\ ~P(k)
    BY <1>3, <2>2
  <2>4. k - 1 \in 0 .. L /\ ~(k <= k - 1)
    BY <1>1, <2>3
  <2>5. P(k - 1)
    BY <2>2, <2>4
  <2> QED
    BY <1>4, <2>3, <2>5
<1>6. P(L)
  <2> HIDE DEF P
  <2>1. L \in 0 .. L
    BY <1>1
  <2> QED
    BY <1>5, <2>1
<1>7. L - L = 0 /\ Drop(all, 0) = all /\ n + 0 = n
  BY <1>1, WithoutFront
<1> QED
  BY <1>6, <1>7 DEF all

\* Past the bodies and loops in front of a task nothing is taken or left.
LEMMA RunsBehind ==
    ASSUME NEW m, NEW r, NEW n, NEW c, Runs(c, n, m, r), c # <<>>,
           c[1].task \in Bodies \cup Frames, NEW k \in 1 .. Len(c),
           \A j \in 1 .. (k - 1) : c[j].task \notin Frames
    PROVE  Runs(Drop(c, k - 1), n, m, r)
<1> DEFINE P(j) == /\ Runs(Drop(c, j), n, m, r) 
                   /\ c[j + 1].task \in Bodies \cup Frames
           bad == {j \in 0 .. (k - 1) : ~P(j)}
<1>1. IsSequence(c) /\ Len(c) \in Nat /\ n \in Nat /\ k \in Nat
  BY RunsNext, SequenceFacts
<1>2. P(0)
  BY <1>1, WithoutFront
<1>3. ASSUME NEW j \in 0 .. (k - 1), j # 0, P(j - 1) PROVE P(j)
  <2> DEFINE i == j - 1
             s == Drop(c, i)
  <2>1. i \in 0 .. Len(c) /\ 1 \in 0 .. Len(c) - i /\ i + 1 = j /\ j \in 1 .. (k - 1)
        /\ Len(c) - i > 1
    BY <1>1, <1>3
  <2>2. /\ IsSequence(s) /\ Len(s) = Len(c) - i
        /\ \A l \in 1 .. Len(c) - i : s[l] = c[i + l]
    BY <1>1, <2>1, DropFacts
  <2>3. Runs(s, n, m, r)
    BY <1>3
  <2>4. Drop(s, 1) = Drop(c, j)
    BY <1>1, <2>1, DropDrop
  <2>5. s[1] = c[j] /\ s[2] = c[j + 1]
    BY <1>1, <2>1, <2>2
  <2> HIDE DEF i, s
  <2>6. /\ s # <<>> /\ Head(s) = c[j] /\ Tail(s) = Drop(c, j) /\ Tail(s)[1] = c[j + 1]
    <3>1. s # <<>> /\ Head(s) = c[j]
      BY <1>1, <2>1, <2>2, <2>5, SequenceFacts
    <3>2. Tail(s) = Drop(s, 1) /\ Tail(s)[1] = s[1 + 1]
      <4>1. 1 \in 1 .. Len(s) - 1
        BY <1>1, <2>1, <2>2
      <4> QED
        BY <2>2, <3>1, <4>1, TailFacts
    <3>3. s[1 + 1] = s[2]
      OBVIOUS
    <3> QED
      BY <2>4, <2>5, <3>1, <3>2, <3>3
  <2>7. c[j].task \in Bodies
    BY <1>3, <2>1
  <2> DEFINE t == c[j]
  <2>8. Runs(Tail(s), n - Uses(t) + Gives(t), m, r) /\ Fit(t, Tail(s))
    BY <2>3, <2>6, RunsNext
  <2>9. Uses(t) = 0 /\ Gives(t) = 0
    BY <2>7, UsesFacts DEF Bodies
  <2>10. Tail(s)[1].task \in Bodies \cup Frames
    BY <2>7, <2>8 DEF Fit, Bodies, Frames, StatementTasks
  <2>11. n - 0 + 0 = n
    BY <1>1
  <2> QED
    BY <2>6, <2>8, <2>9, <2>10, <2>11
<1>4. bad = {}
  <2> SUFFICES ASSUME bad # {} PROVE FALSE
    OBVIOUS
  <2> HIDE DEF P
  <2>1. bad \in SUBSET Nat
    BY <1>1
  <2>2. PICK j \in bad : \A l \in bad : j <= l
    BY <2>1, LeastOf
  <2>3. j \in 0 .. (k - 1) /\ j # 0 /\ ~P(j)
    BY <1>2, <2>2
  <2>4. j - 1 \in 0 .. (k - 1) /\ ~(j <= j - 1)
    BY <1>1, <2>3
  <2>5. P(j - 1)
    BY <2>2, <2>4
  <2> QED
    BY <1>3, <2>3, <2>5
<1>5. k - 1 \in 0 .. (k - 1)
  BY <1>1
<1> QED
  BY <1>4, <1>5
----------------------------------------------------------------------------
(* Steps *)

LEMMA ValuedSequences ==
    ASSUME NEW r, NEW s, AllValued(s, r)
    PROVE  /\ IsSequence(s) /\ Len(s) \in Nat
           /\ \A k \in 1 .. Len(s) : Valued(s[k], r)
           /\ s # <<>> => Valued(Head(s), r) /\ AllValued(Tail(s), r)
                          /\ Len(Tail(s)) = Len(s) - 1
           /\ \A v : Valued(v, r) =>
                  AllValued(<<v>> \o s, r) /\ Len(<<v>> \o s) = 1 + Len(s)
           /\ \A n \in 0 .. Len(s) :
                  AllValued(Drop(s, n), r) /\ Len(Drop(s, n)) = Len(s) - n
<1>1. IsSequence(s) /\ DOMAIN s = 1 .. Len(s) /\ Len(s) \in Nat
      /\ (s # <<>> => Head(s) = s[1] /\ Len(s) # 0)
  BY SequenceFacts DEF AllValued
<1>2. \A k \in 1 .. Len(s) : Valued(s[k], r)
  BY <1>1 DEF AllValued
<1>3. ASSUME NEW v, Valued(v, r)
      PROVE  AllValued(<<v>> \o s, r) /\ Len(<<v>> \o s) = 1 + Len(s)
  <2> DEFINE u == <<v>> \o s
  <2>1. /\ IsSequence(u) /\ Len(u) = 1 + Len(s) /\ u[1] = v
        /\ \A k \in 1 .. Len(s) : u[1 + k] = s[k]
    BY <1>1, ConsFacts
  <2> HIDE DEF u
  <2>2. ASSUME NEW k \in DOMAIN u PROVE Valued(u[k], r)
    <3>1. k \in 1 .. 1 + Len(s)
      BY <2>1, SequenceFacts
    <3>2. k = 1 \/ (k - 1 \in 1 .. Len(s) /\ k = 1 + (k - 1))
      BY <1>1, <3>1
    <3> QED
      BY <1>2, <1>3, <2>1, <3>2
  <2>3. AllValued(u, r)
    BY <2>1, <2>2 DEF AllValued
  <2> QED
    BY <2>1, <2>3 DEF u
<1>4. ASSUME NEW n \in 0 .. Len(s)
      PROVE  AllValued(Drop(s, n), r) /\ Len(Drop(s, n)) = Len(s) - n
  <2> DEFINE u == Drop(s, n)
  <2>1. /\ IsSequence(u) /\ Len(u) = Len(s) - n
        /\ \A k \in 1 .. Len(s) - n : u[k] = s[n + k]
    BY <1>1, DropFacts
  <2> HIDE DEF u
  <2>2. ASSUME NEW k \in DOMAIN u PROVE Valued(u[k], r)
    <3>1. k \in 1 .. Len(s) - n
      BY <2>1, SequenceFacts
    <3>2. n + k \in 1 .. Len(s)
      BY <1>1, <3>1
    <3> QED
      BY <1>2, <2>1, <3>1, <3>2
  <2>3. AllValued(u, r)
    BY <2>1, <2>2 DEF AllValued
  <2> QED
    BY <2>1, <2>3 DEF u
<1>5. ASSUME s # <<>>
      PROVE  /\ Valued(Head(s), r) /\ AllValued(Tail(s), r)
             /\ Len(Tail(s)) = Len(s) - 1
  <2>1. 1 \in 0 .. Len(s) /\ 1 \in 1 .. Len(s)
    BY <1>1, <1>5
  <2>2. Tail(s) = Drop(s, 1)
    BY <1>1, <1>5, TailFacts
  <2> QED
    BY <1>1, <1>2, <1>4, <1>5, <2>1, <2>2
<1> QED
  BY <1>1, <1>2, <1>3, <1>4, <1>5

\* The first task replaced by one of the same kind.
LEMMA FirstReplaced ==
    ASSUME NEW c, IsSequence(c), c # <<>>, NEW t
    PROVE  [c EXCEPT ![1] = t] = <<t>> \o Tail(c)
<1> DEFINE r == Tail(c)
           u == [c EXCEPT ![1] = t]
           v == <<t>> \o r
<1>1. Len(c) \in Nat \ {0} /\ DOMAIN c = 1 .. Len(c)
  BY SequenceFacts
<1>2. /\ IsSequence(r) /\ Len(r) = Len(c) - 1
      /\ \A k \in 1 .. Len(c) - 1 : r[k] = c[k + 1]
  BY TailFacts
<1>3. /\ IsSequence(u) /\ Len(u) = Len(c) /\ u[1] = t
      /\ \A k \in 1 .. Len(c) : k # 1 => u[k] = c[k]
  <2>1. u[1] = t
    BY <1>1
  <2>2. /\ DOMAIN u = 1 .. Len(c) /\ u = [k \in DOMAIN u |-> u[k]]
        /\ \A k \in 1 .. Len(c) : k # 1 => u[k] = c[k]
    BY <1>1
  <2> HIDE DEF u
  <2>3. IsSequence(u) /\ Len(u) = Len(c)
    BY <1>1, <2>2, FunctionSequence
  <2> QED
    BY <2>1, <2>2, <2>3
<1> HIDE DEF r, u
<1>4. /\ IsSequence(v) /\ Len(v) = 1 + Len(r) /\ v[1] = t
      /\ \A k \in 1 .. Len(r) : v[1 + k] = r[k]
  BY <1>2, ConsFacts
<1> HIDE DEF v
<1>5. ASSUME NEW k \in 1 .. Len(u) PROVE u[k] = v[k]
  <2>1. k = 1 \/ (k - 1 \in 1 .. Len(r) /\ 1 + (k - 1) = k /\ (k - 1) + 1 = k /\ k # 1)
    BY <1>1, <1>2, <1>3
  <2> QED
    BY <1>2, <1>3, <1>4, <2>1
<1>6. u = v
  BY <1>1, <1>2, <1>3, <1>4, <1>5, SameSequence
<1> QED
  BY <1>6 DEF u, v, r

LEMMA RunsReplaced ==
    ASSUME NEW m, NEW r, NEW n, NEW c, Runs(c, n, m, r), c # <<>>,
           NEW t, t.task = c[1].task, Sane(t, m, r),
           t.task \notin Composite \cup {"request"}
    PROVE  Runs(<<t>> \o Tail(c), n, m, r) /\ Runs([c EXCEPT ![1] = t], n, m, r)
<1>1. /\ IsSequence(c) /\ n \in Nat /\ Head(c) = c[1] /\ IsSequence(Tail(c))
      /\ Uses(c[1]) \in 0 .. n /\ Fit(c[1], Tail(c))
      /\ Runs(Tail(c), n - Uses(c[1]) + Gives(c[1]), m, r)
  BY RunsNext, SequenceFacts, TailFacts
<1>2. Uses(t) = Uses(c[1]) /\ Gives(t) = Gives(c[1]) /\ Fit(t, Tail(c))
  BY <1>1 DEF Uses, Gives, Fit
<1>3. Runs(<<t>> \o Tail(c), n, m, r)
  BY <1>1, <1>2, RunsMore
<1> QED
  BY <1>1, <1>3, FirstReplaced

\* The batch that waits takes the outcome of a worker.
LEMMA OutcomeGood ==
    ASSUME IInv, VInv, outer # <<>>, NEW outcome, UNCHANGED Given,
           interp' = [Head(outer) EXCEPT !.control[1].outcomes = Append(@, outcome)],
           outer' = Tail(outer)
    PROVE  VInv'
<1> DEFINE o == outer[1]
           t == o.control[1]
           u == [t EXCEPT !.outcomes = Append(@, outcome)]
           q == [o EXCEPT !.control[1].outcomes = Append(@, outcome)]
           r == analysis.registry
<1>1. /\ Head(outer) = o /\ 1 \in DOMAIN outer
      /\ DOMAIN outer = 1 .. Len(outer) /\ Len(outer) \in Nat
  BY SequenceFacts DEF IInv
<1>2. /\ Machine(o, Setting) /\ Waiting(o) /\ Good(o, r)
  BY <1>1 DEF IInv, VInv
<1>3. /\ t.task = "batch" /\ Holds(t, o.captured_bindings, o.in_parallel_worker, Setting)
      /\ Shape(o) /\ IsSequence(o.control) /\ o.control # <<>>
  BY <1>2, TopReady DEF Machine, Waiting, Base, Ready
<1>4. DOMAIN t = BatchFields
  BY <1>3 DEF Holds, BatchFields
<1>5. /\ u.task = "batch" /\ DOMAIN u = DOMAIN t /\ u.env = t.env
      /\ u.values = t.values /\ u.jobs = t.jobs
  BY <1>3, <1>4 DEF BatchFields
<1>6. /\ q.control = [o.control EXCEPT ![1] = u] /\ q.bindings = o.bindings
      /\ q.functions = o.functions /\ q.operands = o.operands
  BY <1>3 DEF Shape
<1>7. q = interp'
  BY <1>1
<1> HIDE DEF o, u, q
<1>8. Runs(q.control, Len(q.operands), Len(q.bindings), r)
  <2> DEFINE c == o.control
             n == Len(o.operands)
             m == Len(o.bindings)
  <2>1. Runs(c, n, m, r) /\ c # <<>> /\ t = c[1]
    BY <1>2, <1>3 DEF Good
  <2>2. Sane(t, m, r)
    BY <1>3, <2>1, RunsNext, SequenceFacts
  <2>3. Sane(u, m, r)
    BY <1>3, <1>5, <2>2 DEF Sane
  <2> HIDE DEF c, n, m, r
  <2>4. Runs([c EXCEPT ![1] = u], n, m, r)
    BY <1>3, <1>5, <2>1, <2>3, RunsReplaced DEF Composite
  <2> QED
    BY <1>6, <2>4 DEF c, n, m
<1>9. Good(q, r)
  BY <1>2, <1>6, <1>8 DEF Good
<1>10. ASSUME NEW k \in DOMAIN outer' PROVE Good(outer'[k], r)
  <2>1. /\ IsSequence(outer') /\ Len(outer') = Len(outer) - 1
        /\ \A j \in 1 .. Len(outer) - 1 : outer'[j] = outer[j + 1]
    BY TailFacts DEF IInv
  <2>2. k \in 1 .. Len(outer) - 1 /\ k + 1 \in DOMAIN outer
    BY <1>1, <2>1, SequenceFacts
  <2> QED
    BY <2>1, <2>2 DEF VInv
<1>11. analysis.errors = {}
  BY DEF VInv
<1> QED
  BY <1>7, <1>9, <1>10, <1>11 DEF VInv, Given

\* A failure ends the worker or the execution.
LEMMA FailGood ==
    ASSUME IInv, VInv, NEW fault, Fail(fault, interp.output), UNCHANGED Given
    PROVE  VInv'
<1>1. CASE outer # <<>>
  <2> DEFINE outcome == [output |-> interp.output, faults |-> <<fault>>]
  <2>1. /\ interp' = [Head(outer) EXCEPT
                        !.control[1].outcomes = Append(@, outcome)]
        /\ outer' = Tail(outer)
    BY <1>1 DEF Fail, Outcome
  <2> HIDE DEF outcome
  <2> QED
    BY <1>1, <2>1, OutcomeGood
<1>2. CASE outer = <<>>
  <2>1. interp' = [interp EXCEPT !.output = interp.output] /\ outer' = outer
    BY <1>2 DEF Fail
  <2>2. /\ interp'.bindings = interp.bindings
        /\ interp'.functions = interp.functions
        /\ interp'.operands = interp.operands
        /\ interp'.control = interp.control
    BY <2>1, GivenFacts DEF Shape
  <2>3. Good(interp', analysis.registry)
    BY <2>2 DEF VInv, Good
  <2> QED
    BY <2>1, <2>2, <2>3 DEF VInv, Given
<1> QED
  BY <1>1, <1>2

\* A step leads to an error or to an interpreter that is as it should be.
LEMMA StepGood ==
    ASSUME IInv, VInv, NEW n, NEW next, Step(n, next), analysis.errors = {},
           ~IsError(next) => Good(next, analysis.registry)
    PROVE  VInv'
<1>1. UNCHANGED Given
  BY DEF Step, Given
<1>2. CASE \E fault : Fail(fault, interp.output)
  BY <1>1, <1>2, FailGood
<1>3. CASE interp' = next /\ UNCHANGED <<outer, result>> /\ ~IsError(next)
  BY <1>1, <1>3 DEF VInv, Given
<1> QED
  BY <1>2, <1>3 DEF Step, Become, Error, IsError

----------------------------------------------------------------------------
(* The interpreter that runs *)

Now(c, n) == Runs(c, n, Len(interp.bindings), analysis.registry)
SaneNow(t) == Sane(t, Len(interp.bindings), analysis.registry)
ScopedNow(env) == Scoped(env, Len(interp.bindings))
GoodNow(i) == Good(i, analysis.registry)
Left == Len(interp.operands)

\* What is known of a task that is next.
LEMMA TopFacts ==
    ASSUME IInv, VInv, interp.control # <<>>
    PROVE  /\ analysis.errors = {} /\ IsSequence(Rest)
           /\ SaneNow(Top) /\ Uses(Top) \in 0 .. Left /\ Fit(Top, Rest)
           /\ Left \in Nat /\ Len(interp.bindings) \in Nat
           /\ Left - Uses(Top) + Gives(Top) \in Nat
           /\ Now(Rest, Left - Uses(Top) + Gives(Top))
           /\ Top.task \in Seeing => ScopedNow(Top.env)
           /\ AllValued(interp.operands, analysis.registry)
           /\ Uses(Top) # 0 => Valued(Operand, analysis.registry)
<1> DEFINE c == interp.control
           m == Len(interp.bindings)
           r == analysis.registry
<1>1. Runs(c, Left, m, r) /\ c # <<>> /\ AllValued(interp.operands, r)
  BY DEF VInv, Good, Left
<1>2. Left \in Nat /\ m \in Nat
  BY <1>1, ValuedSequences, GivenFacts, SequenceFacts DEF Left, Machine, Base
<1> HIDE DEF c, m, r
<1>3. /\ Sane(Head(c), m, r) /\ Uses(Head(c)) \in 0 .. Left
      /\ Fit(Head(c), Tail(c))
      /\ Left - Uses(Head(c)) + Gives(Head(c)) \in Nat
      /\ Runs(Tail(c), Left - Uses(Head(c)) + Gives(Head(c)), m, r)
      /\ IsSequence(Tail(c))
  BY <1>1, RunsNext, TailFacts
<1>4. Top = Head(c) /\ Rest = Tail(c)
  BY DEF Top, Rest, c
<1>5. Top.task \in Seeing => Scoped(Top.env, m)
  BY <1>3, <1>4 DEF Sane
<1>6. ASSUME Uses(Top) # 0 PROVE Valued(Operand, r)
  <2>1. Len(interp.operands) # 0
    BY <1>2, <1>3, <1>4, <1>6 DEF Left
  <2>2. interp.operands # <<>>
    BY <1>1, <2>1, SequenceFacts DEF AllValued
  <2> QED
    BY <1>1, <2>2, ValuedSequences DEF Operand
<1> QED
  BY <1>1, <1>2, <1>3, <1>4, <1>5, <1>6 DEF VInv, Now, SaneNow, ScopedNow, m, r

\* The same bindings and functions, with other tasks and other operands.
LEMMA GoodMoved ==
    ASSUME IInv, VInv, NEW j, j.bindings = interp.bindings,
           j.functions = interp.functions,
           AllValued(j.operands, analysis.registry), Now(j.control, Len(j.operands))
    PROVE  GoodNow(j)
  BY DEF VInv, Good, GoodNow, Now

LEMMA PushGood ==
    ASSUME IInv, VInv, NEW tasks, Now(tasks \o Rest, Left)
    PROVE  /\ GoodNow(Push(tasks))
           /\ \A d : GoodNow([Push(tasks) EXCEPT !.expression_depth = d])
<1>1. /\ Push(tasks).bindings = interp.bindings
      /\ Push(tasks).functions = interp.functions
      /\ Push(tasks).operands = interp.operands
      /\ Push(tasks).control = tasks \o Rest
  BY GivenFacts DEF Push, Shape
<1>2. ASSUME NEW d
      PROVE  LET j == [Push(tasks) EXCEPT !.expression_depth = d]
             IN  /\ j.bindings = interp.bindings
                 /\ j.functions = interp.functions
                 /\ j.operands = interp.operands
                 /\ j.control = tasks \o Rest
  BY GivenFacts DEF Push, Shape
<1>3. AllValued(interp.operands, analysis.registry)
  BY DEF VInv, Good
<1>4. GoodNow(Push(tasks))
  BY <1>1, <1>3, GoodMoved DEF Left
<1>5. ASSUME NEW d PROVE GoodNow([Push(tasks) EXCEPT !.expression_depth = d])
  <2> DEFINE j == [Push(tasks) EXCEPT !.expression_depth = d]
  <2>1. /\ j.bindings = interp.bindings
        /\ j.functions = interp.functions
        /\ j.operands = interp.operands
        /\ j.control = tasks \o Rest
    BY <1>2
  <2> HIDE DEF j
  <2>2. GoodNow(j)
    BY <1>3, <2>1, GoodMoved DEF Left
  <2> QED
    BY <2>2 DEF j
<1> QED
  BY <1>4, <1>5

\* The same with operands taken away.
LEMMA TakeGood ==
    ASSUME IInv, VInv, NEW n \in 0 .. Left, NEW tasks, Now(tasks \o Rest, Left - n)
    PROVE  GoodNow(Take(n, tasks))
<1>1. /\ Take(n, tasks).bindings = interp.bindings
      /\ Take(n, tasks).functions = interp.functions
      /\ Take(n, tasks).operands = Drop(interp.operands, n)
      /\ Take(n, tasks).control = tasks \o Rest
  BY GivenFacts DEF Take, Shape
<1>2. /\ AllValued(Drop(interp.operands, n), analysis.registry)
      /\ Len(Drop(interp.operands, n)) = Left - n
  BY ValuedSequences DEF VInv, Good, Left
<1> QED
  BY <1>1, <1>2, GoodMoved

\* An expression that leaves its value.
LEMMA CloseGood ==
    ASSUME IInv, VInv, interp.control # <<>>, NEW n, n = Uses(Top), Gives(Top) = 1,
           NEW v, Valued(v, analysis.registry)
    PROVE  GoodNow(Close(n, v))
<1> DEFINE j == Close(n, v)
           vs == <<v>> \o Drop(interp.operands, n)
           r == analysis.registry
<1>1. /\ j.bindings = interp.bindings /\ j.functions = interp.functions
      /\ j.operands = vs /\ j.control = Rest
  BY GivenFacts DEF Close, Shape
<1>2. /\ Left \in Nat /\ n \in 0 .. Left /\ Now(Rest, Left - n + 1)
      /\ AllValued(interp.operands, r)
  BY TopFacts
<1>3. AllValued(vs, r) /\ Len(vs) = Left - n + 1
  <2> DEFINE s == Drop(interp.operands, n)
  <2>1. AllValued(s, r) /\ Len(s) = Left - n
    <3> HIDE DEF r
    <3> QED
      BY <1>2, ValuedSequences DEF Left
  <2> HIDE DEF s, r
  <2>2. AllValued(<<v>> \o s, r) /\ Len(<<v>> \o s) = 1 + Len(s)
    <3>1. Valued(v, r)
      BY DEF r
    <3> QED
      BY <2>1, <3>1, ValuedSequences
  <2> QED
    BY <1>2, <2>1, <2>2 DEF s, r
<1> HIDE DEF j, vs
<1>4. GoodNow(j)
  BY <1>1, <1>2, <1>3, GoodMoved
<1> QED
  BY <1>4 DEF j

LEMMA CompleteGood ==
    ASSUME IInv, VInv, interp.control # <<>>, NEW n, n = Uses(Top), Gives(Top) = 1,
           NEW v, Outcomes(v, analysis.registry), ~IsError(Complete(n, v))
    PROVE  GoodNow(Complete(n, v))
<1>1. ~IsError(v)
  BY DEF Complete
<1>2. Valued(v, analysis.registry) /\ Complete(n, v) = Close(n, v)
  BY <1>1 DEF Outcomes, Harmless, Complete
<1> QED
  BY <1>2, CloseGood

\* One more task for the interpreter that runs.
LEMMA NowMore ==
    ASSUME IInv, VInv, NEW n \in Nat, NEW c, NEW t, SaneNow(t), Fit(t, c),
           Uses(t) \in 0 .. n, Now(c, n - Uses(t) + Gives(t))
    PROVE  Now(<<t>> \o c, n) /\ IsSequence(<<t>> \o c) /\ IsSequence(c)
<1>1. IsSequence(c)
  BY RunsNext DEF Now
<1>2. Now(<<t>> \o c, n)
  BY <1>1, RunsMore DEF Now, SaneNow
<1> QED
  BY <1>1, <1>2, RunsNext DEF Now

LEMMA ExpressionFit ==
    ASSUME NEW t, t.task \notin StatementTasks, NEW c
    PROVE  Fit(t, c)
  BY DEF Fit

LEMMA EvaluateNow ==
    ASSUME IInv, VInv, NEW n \in Nat, NEW c, NEW e, NEW env, ScopedNow(env),
           Now(c, n + 1)
    PROVE  Now(<<Evaluate(e, env)>> \o c, n)
  BY RunsEvaluate DEF Now, ScopedNow

\* What is wrapped in an expression of the program.
LEMMA TopExpression ==
    ASSUME IInv, interp.control # <<>>, Top.task \in {"evaluate"} \cup Composite
    PROVE  /\ Top.expr \in Setting.parts.exprs
           /\ IsExpression(Top.expr, Setting.parts.exprs)
           /\ Top.task # "evaluate" => Top.expr.kind = Top.task
<1>1. HeldBy(Top)
  BY NextTask
<1>2. Top.expr \in Setting.parts.exprs
      /\ (Top.task # "evaluate" => Top.expr.kind = Top.task)
  BY <1>1 DEF HeldBy, Holds
<1> QED
  BY <1>2, TreeFacts

----------------------------------------------------------------------------
(* Expressions leave sound values *)

LEMMA LeafGood ==
    ASSUME IInv, VInv, interp.control # <<>>, Top.task = "evaluate",
           NEW v, Outcomes(v, analysis.registry), ~IsError(Leaf(v))
    PROVE  GoodNow(Leaf(v))
<1> DEFINE j == Leaf(v)
           r == analysis.registry
<1>1. ~Deep /\ Valued(v, r)
  <2>1. ~Deep
    BY DEF Leaf, TooDeep, Error, IsError
  <2>2. ~IsError(v)
    BY <2>1 DEF Leaf
  <2> QED
    BY <2>1, <2>2 DEF Outcomes, Harmless
<1>2. j = IF IsError(v) THEN v ELSE [Push(<<>>) EXCEPT !.operands = <<v>> \o @]
  BY <1>1 DEF Leaf
<1>3. j = [Push(<<>>) EXCEPT !.operands = <<v>> \o @]
  BY <1>2
<1>4. /\ j.bindings = interp.bindings /\ j.functions = interp.functions
      /\ j.operands = <<v>> \o interp.operands /\ j.control = <<>> \o Rest
  BY <1>3, GivenFacts DEF Push, Shape
<1>5. /\ IsSequence(Rest) /\ Left \in Nat /\ Now(Rest, Left + 1)
      /\ AllValued(interp.operands, r)
  <2>1. Left - 0 + 1 = Left + 1 /\ Left \in Nat
    BY TopFacts
  <2> QED
    BY <2>1, TopFacts, UsesFacts
<1>6. <<>> \o Rest = Rest
  BY <1>5, WithoutFront
<1>7. AllValued(<<v>> \o interp.operands, r)
      /\ Len(<<v>> \o interp.operands) = 1 + Left
  BY <1>1, <1>5, ValuedSequences DEF Left
<1>8. 1 + Left = Left + 1
  BY <1>5
<1> HIDE DEF j
<1>9. GoodNow(j)
  BY <1>4, <1>5, <1>6, <1>7, <1>8, GoodMoved
<1> QED
  BY <1>9 DEF j

LEMMA OpenGood ==
    ASSUME IInv, VInv, NEW tasks, Now(tasks \o Rest, Left), ~IsError(Open(tasks))
    PROVE  GoodNow(Open(tasks))
<1>1. ~Deep
  BY DEF Open, TooDeep, Error, IsError
<1>2. Open(tasks) = [Push(tasks) EXCEPT !.expression_depth = @ + 1]
  BY <1>1 DEF Open
<1> DEFINE d == Push(tasks).expression_depth + 1
<1>3. Open(tasks) = [Push(tasks) EXCEPT !.expression_depth = d]
  BY <1>2
<1> HIDE DEF d
<1> QED
  BY <1>3, PushGood

LEMMA LiteralGood == ASSUME IInv, VInv, EvaluateLiteral PROVE VInv'
<1>1. interp.control # <<>> /\ Top.task = "evaluate" /\ Top.expr.kind \in Literals
      /\ Step(1, Leaf(Literal(Top.expr)))
  BY DEF EvaluateLiteral, Doing
<1>2. Outcomes(Literal(Top.expr), analysis.registry)
  BY <1>1, LiteralValued DEF Outcomes
<1> DEFINE next == Leaf(Literal(Top.expr))
<1>3. ~IsError(next) => Good(next, analysis.registry)
  BY <1>1, <1>2, LeafGood DEF GoodNow
<1>4. analysis.errors = {}
  BY <1>1, TopFacts
<1> HIDE DEF next
<1> QED
  BY <1>1, <1>3, <1>4, StepGood DEF next

LEMMA ReadOutcome ==
    ASSUME VInv, NEW id \in DOMAIN interp.bindings
    PROVE  Outcomes(Read(id), analysis.registry)
<1> DEFINE s == interp.bindings[id].value
           r == analysis.registry
<1>1. AllValued(s, r)
  BY DEF VInv, Good, Bound
<1> HIDE DEF r
<1>2. s # <<>> => Valued(Head(s), r)
  <2> HIDE DEF s
  <2> QED
    BY <1>1, ValuedSequences
<1>3. Read(id) = IF s = <<>> THEN Error("Uninitialised") ELSE Head(s)
  BY DEF Read
<1> HIDE DEF s
<1> QED
  BY <1>2, <1>3, ErrorOutcome DEF Outcomes, Escapes, r

LEMMA LookupOutcome ==
    ASSUME IInv, VInv, NEW env, ScopedNow(env), NEW x
    PROVE  Outcomes(Lookup(env, x), analysis.registry)
<1>1. CASE DepthOf(env, x) = 0
  BY <1>1, ErrorOutcome DEF Lookup, Escapes
<1>2. CASE DepthOf(env, x) # 0
  <2> DEFINE id == Slot(env, x)
             v == Lookup(env, x)
  <2>1. id \in DOMAIN interp.bindings
    <3>1. id \in 1 .. Len(interp.bindings)
      BY <1>2, SlotFacts DEF ScopedNow
    <3> QED
      BY <3>1, GivenFacts, SequenceFacts DEF Machine, Base
  <2>2. v = Read(id)
    BY <1>2 DEF Lookup
  <2> HIDE DEF id, v
  <2>3. Outcomes(v, analysis.registry)
    BY <2>1, <2>2, ReadOutcome
  <2> QED
    BY <2>3 DEF v
<1> QED
  BY <1>1, <1>2

LEMMA IdentifierGood == ASSUME IInv, VInv, EvaluateIdentifier PROVE VInv'
<1> DEFINE v == Lookup(Top.env, Top.expr.name)
           next == Leaf(v)
           r == analysis.registry
<1>1. interp.control # <<>> /\ Top.task = "evaluate" /\ Step(1, next)
  BY DEF EvaluateIdentifier, Doing
<1>2. Outcomes(v, r)
  <2>1. ScopedNow(Top.env)
    BY <1>1, TopFacts DEF Seeing
  <2> QED
    BY <2>1, LookupOutcome
<1> HIDE DEF v
<1>3. ~IsError(next) => Good(next, r)
  BY <1>1, <1>2, LeafGood DEF GoodNow
<1>4. analysis.errors = {}
  BY <1>1, TopFacts
<1> HIDE DEF next
<1> QED
  BY <1>1, <1>3, <1>4, StepGood

LEMMA OperandsGood == ASSUME IInv, VInv, EvaluateOperands PROVE VInv'
<1> DEFINE e == Top.expr
           env == Top.env
           es == First(e)
           k == Len(es)
           t == Then(e.kind, e, env)
           all == EvaluateAll(es, env)
           tasks == all \o <<t>>
           next == Open(tasks)
<1>1. /\ interp.control # <<>> /\ Top.task = "evaluate" /\ e.kind \in Composite
      /\ Step(1, next)
  BY DEF EvaluateOperands, Doing
<1>2. /\ analysis.errors = {} /\ ScopedNow(env) /\ Left \in Nat
      /\ IsSequence(Rest) /\ Now(Rest, Left - 0 + 1)
  BY <1>1, TopFacts, UsesFacts DEF Seeing
<1>3. IsSequence(es) /\ k \in Nat
  BY <1>1, TopExpression, FirstFacts, SequenceFacts
<1>4. t.task = e.kind /\ t.expr = e /\ t.env = env
  BY DEF Then
<1> HIDE DEF e, env, es, t, all
<1>5. SaneNow(t) /\ Fit(t, Rest) /\ Uses(t) = k /\ Gives(t) = 1
  <2>1. t.task \in Composite /\ t.task \notin StatementTasks
    BY <1>1, <1>4 DEF Composite, StatementTasks
  <2>2. SaneNow(t)
    BY <1>2, <1>4, <2>1 DEF SaneNow, Sane, ScopedNow, Composite
  <2> QED
    BY <1>4, <2>1, <2>2, ExpressionFit, UsesFacts DEF es
<1>6. Now(<<t>> \o Rest, Left + k)
  <2> DEFINE n == Left + k
  <2>1. n \in Nat /\ Uses(t) \in 0 .. n /\ n - Uses(t) + Gives(t) = Left - 0 + 1
    BY <1>2, <1>3, <1>5
  <2> HIDE DEF n
  <2>2. Now(<<t>> \o Rest, n)
    BY <1>2, <1>5, <2>1, NowMore
  <2> QED
    BY <2>2 DEF n
<1>7. Now(all \o (<<t>> \o Rest), Left)
  <2> DEFINE c == <<t>> \o Rest
  <2>1. Now(c, Left + k)
    BY <1>6
  <2> HIDE DEF c
  <2>2. Now(all \o c, Left)
    BY <1>2, <1>3, <2>1, RunsAll DEF Now, ScopedNow, all
  <2> QED
    BY <2>2 DEF c
<1>8. all \o (<<t>> \o Rest) = tasks \o Rest
  <2>1. IsSequence(all)
    BY <1>3, EvaluateAllFacts DEF all
  <2> QED
    BY <1>2, <2>1, SingleFacts, ConcatAssociative3, SMTT(30)
<1> HIDE DEF tasks
<1>9. ~IsError(next) => Good(next, analysis.registry)
  BY <1>7, <1>8, OpenGood DEF GoodNow
<1> HIDE DEF next
<1> QED
  BY <1>1, <1>2, <1>9, StepGood

\* The registry of a program without errors.
LEMMA AcceptedFacts ==
    ASSUME IInv, VInv, analysis.errors = {}
    PROVE  /\ \A t \in DOMAIN analysis.registry :
                  /\ IsSequence(analysis.registry[t])
                  /\ \A k \in DOMAIN analysis.registry[t] :
                         Resolves(analysis.registry, analysis.registry[t][k].annotation)
           /\ \A e \in Setting.parts.exprs : e.kind = "Construct" =>
                  /\ IsNamed(analysis.registry, e.name)
                  /\ FieldNames(e.members) = FieldNames(analysis.registry[e.name])
<1>1. PICK c \in Cases : program = c.program /\ analysis = Analyser(c.program)
  BY DEF VInv
<1>2. Setting.parts = Parts(c.program)
  BY <1>1, GivenFacts
<1> QED
  BY <1>1, <1>2, AnalyserAssumption

\* The contract of a field that the type has is the type of the field.
LEMMA ContractFacts ==
    ASSUME IInv, VInv, analysis.errors = {}, NEW name \in DOMAIN analysis.registry,
           NEW x \in FieldNames(analysis.registry[name])
    PROVE  FieldContract(name, x) = FieldType(analysis.registry[name], x)
<1> DEFINE r == analysis.registry
           fields == r[name]
           D == {i \in DOMAIN fields : fields[i].name = x}
           first(i) == fields[i].name = x /\ \A j \in 1 .. (i - 1) : fields[j].name # x
           t == FieldType(fields, x)
<1>1. IsSequence(fields) /\ \A k \in DOMAIN fields : Resolves(r, fields[k].annotation)
  BY AcceptedFacts
<1> HIDE DEF r
<1>2. DOMAIN fields = 1 .. Len(fields) /\ Len(fields) \in Nat
  <2> HIDE DEF fields
  <2> QED
    BY <1>1, SequenceFacts
<1> HIDE DEF fields
<1>3. D \in SUBSET Nat /\ D # {}
  BY <1>2 DEF FieldNames, fields, r
<1>4. PICK i \in D : \A j \in D : i <= j
  BY <1>3, LeastOf
<1>5. ASSUME NEW j \in 1 .. (i - 1) PROVE fields[j].name # x
  <2>1. i \in 1 .. Len(fields)
    BY <1>2
  <2>2. j \in DOMAIN fields /\ ~(i <= j)
    BY <1>2, <2>1
  <2> QED
    BY <1>4, <2>2
<1>6. \E k \in DOMAIN fields : first(k)
  BY <1>5
<1>7. (CHOOSE k \in DOMAIN fields : first(k)) \in DOMAIN fields
  <2> HIDE DEF first
  <2> QED
    BY <1>6
<1>8. Resolves(r, t)
  BY <1>1, <1>7 DEF FieldType
<1>9. FieldContract(name, x) = TypeOf(analysis, t)
  BY DEF FieldContract, fields, r
<1> QED
  BY <1>8, <1>9 DEF TypeOf, fields, r

LEMMA ConstructGood == ASSUME IInv, VInv, EvaluateConstruct PROVE VInv'
<1> DEFINE e == Top.expr
           env == Top.env
           r == analysis.registry
           t == ConstructTask(e, env, e.members, NoScope)
           next == IF ~Deep /\ ~IsNamed(r, e.name) THEN Error("Unknown type")
                   ELSE Open(<<t>>)
<1>1. /\ interp.control # <<>> /\ Top.task = "evaluate" /\ e.kind = "Construct"
      /\ Step(1, next)
  BY DEF EvaluateConstruct, Doing
<1>2. /\ analysis.errors = {} /\ ScopedNow(env) /\ Left \in Nat
      /\ IsSequence(Rest) /\ Now(Rest, Left - 0 + 1)
  BY <1>1, TopFacts, UsesFacts DEF Seeing
<1>3. IsNamed(r, e.name) /\ FieldNames(e.members) = FieldNames(r[e.name])
  BY <1>1, <1>2, TopExpression, AcceptedFacts
<1>4. /\ t.task = "Construct" /\ t.expr = e /\ t.env = env /\ t.todo = e.members
      /\ t.fields = NoScope /\ DOMAIN NoScope = {}
  BY DEF ConstructTask, NoScope
<1> HIDE DEF e, env, r, t
<1>5. SaneNow(t) /\ Fit(t, Rest) /\ Uses(t) = 0 /\ Gives(t) = 1
  <2>1. t.task \notin StatementTasks \cup Composite
    BY <1>4 DEF Composite, StatementTasks
  <2>2. FieldNames(t.todo) \cup DOMAIN t.fields = FieldNames(r[e.name])
    BY <1>3, <1>4
  <2>3. SaneNow(t)
    BY <1>2, <1>3, <1>4, <2>1, <2>2 DEF SaneNow, Sane, ScopedNow, r
  <2> QED
    BY <1>4, <2>1, <2>3, ExpressionFit, UsesFacts
<1>6. Now(<<t>> \o Rest, Left)
  <2>1. Uses(t) \in 0 .. Left /\ Left - Uses(t) + Gives(t) = Left - 0 + 1
    BY <1>2, <1>5
  <2> QED
    BY <1>2, <1>5, <2>1, NowMore
<1>7. next = Open(<<t>>)
  BY <1>3
<1> DEFINE tasks == <<t>>
<1>8. Now(tasks \o Rest, Left)
  BY <1>6
<1> HIDE DEF tasks
<1>9. ~IsError(Open(tasks)) => Good(Open(tasks), analysis.registry)
  BY <1>8, OpenGood DEF GoodNow
<1> HIDE DEF next
<1> QED
  BY <1>1, <1>2, <1>7, <1>9, StepGood DEF tasks

\* The tasks of the interpreter that runs, and others in their place.
LEMMA ControlGood ==
    ASSUME IInv, VInv
    PROVE  /\ Now(interp.control, Left) /\ Left \in Nat
           /\ \A c : Now(c, Left) => GoodNow([interp EXCEPT !.control = c])
<1>1. Now(interp.control, Left) /\ AllValued(interp.operands, analysis.registry)
  BY DEF VInv, Good, Now, Left
<1>2. ASSUME NEW c, Now(c, Left) PROVE GoodNow([interp EXCEPT !.control = c])
  <2> DEFINE j == [interp EXCEPT !.control = c]
  <2>1. /\ j.bindings = interp.bindings /\ j.functions = interp.functions
        /\ j.operands = interp.operands /\ j.control = c
    BY GivenFacts DEF Shape
  <2> HIDE DEF j
  <2>2. GoodNow(j)
    BY <1>1, <1>2, <2>1, GoodMoved DEF Left
  <2> QED
    BY <2>2 DEF j
<1> QED
  BY <1>1, <1>2, RunsNext DEF Now

LEMMA NextFieldGood == ASSUME IInv, VInv, NextField PROVE VInv'
<1> DEFINE e == Head(Top.todo).value
           env == Top.env
           t == [task |-> "field"]
           c == interp.control
           p == <<Evaluate(e, env), t>>
           next == [interp EXCEPT !.control = p \o @]
<1>1. Step(0, next) /\ c # <<>> /\ Top.task = "Construct"
  BY DEF NextField, Doing
<1>2. /\ analysis.errors = {} /\ ScopedNow(env) /\ Left \in Nat
      /\ Now(c, Left) /\ IsSequence(c)
  BY <1>1, TopFacts, ControlGood, RunsNext DEF Seeing, Now
<1>3. SaneNow(t) /\ Fit(t, c) /\ Uses(t) = 1 /\ Gives(t) = 0
  BY ExpressionFit, UsesFacts DEF SaneNow, Sane, StatementTasks, Seeing, Composite
<1> HIDE DEF e, env, c, t
<1>4. Now(<<t>> \o c, Left + 1)
  <2> DEFINE n == Left + 1
  <2>1. n \in Nat /\ Uses(t) \in 0 .. n /\ n - Uses(t) + Gives(t) = Left
    BY <1>2, <1>3
  <2> HIDE DEF n
  <2>2. Now(<<t>> \o c, n)
    BY <1>2, <1>3, <2>1, NowMore
  <2> QED
    BY <2>2 DEF n
<1>5. Now(<<Evaluate(e, env)>> \o (<<t>> \o c), Left)
  BY <1>2, <1>4, EvaluateNow
<1>6. p \o c = <<Evaluate(e, env)>> \o (<<t>> \o c)
  BY <1>2, TwoTasks
<1>7. next = [interp EXCEPT !.control = p \o c]
  BY DEF c
<1> HIDE DEF next, p
<1>8. Good(next, analysis.registry)
  BY <1>5, <1>6, <1>7, ControlGood DEF GoodNow
<1> QED
  BY <1>1, <1>2, <1>8, StepGood

LEMMA FieldGood == ASSUME IInv, VInv, CheckField PROVE VInv'
<1> DEFINE construct == Head(Rest)
           m == Head(construct.todo)
           u(x) == ConstructTask(x.expr, x.env, Tail(x.todo),
                                 Merged(Only(m.name, Operand), x.fields))
           i == Take(1, <<>>)
           j == [i EXCEPT !.control[1] = u(@)]
           t == FieldContract(construct.expr.name, m.name)
           next == IF ~HasType(t, Operand) THEN TypeError(m.value, t) ELSE j
           r == analysis.registry
<1>1. Step(0, next) /\ interp.control # <<>> /\ Top.task = "field"
  BY DEF CheckField, Doing
<1>2. /\ analysis.errors = {} /\ IsSequence(Rest) /\ Left \in Nat /\ 1 \in 0 .. Left
      /\ Now(Rest, Left - 1) /\ Valued(Operand, r)
  <2>1. Uses(Top) = 1 /\ Gives(Top) = 0
    BY <1>1, UsesFacts
  <2>2. Left - 1 + 0 = Left - 1 /\ Left \in Nat
    BY <1>1, TopFacts
  <2> QED
    BY <1>1, <2>1, <2>2, TopFacts
<1>3. /\ Rest # <<>> /\ construct.task = "Construct" /\ 1 \in DOMAIN Rest
      /\ construct = Rest[1] /\ construct.todo # <<>> /\ HeldBy(construct)
  <2>1. Placed(Top, Rest) /\ Continues(Rest)
    BY <1>1, NextTask
  <2>2. Rest # <<>> /\ Rest[1].task = "Construct" /\ Rest[1].todo # <<>>
    BY <1>1, <2>1 DEF Placed, Follows
  <2>3. construct = Rest[1] /\ 1 \in DOMAIN Rest
    BY <1>2, <2>2, SequenceFacts
  <2> QED
    BY <2>1, <2>2, <2>3 DEF Continues, Ready, HeldBy
<1> DEFINE name == construct.expr.name
           w == Merged(Only(m.name, Operand), construct.fields)
<1>4. /\ SaneNow(construct) /\ IsSequence(construct.todo)
  BY <1>2, <1>3, RunsNext DEF Now, SaneNow, HeldBy, Holds
<1>5. /\ ScopedNow(construct.env) /\ IsNamed(r, name) /\ name \in DOMAIN r
      /\ FieldNames(construct.todo) \cup DOMAIN construct.fields = FieldNames(r[name])
      /\ \A x \in DOMAIN construct.fields :
             /\ Valued(construct.fields[x], r)
             /\ HasType(FieldType(r[name], x), construct.fields[x])
  BY <1>3, <1>4 DEF SaneNow, Sane, ScopedNow, Seeing, IsNamed
<1>6. FieldNames(construct.todo) = {m.name} \cup FieldNames(Tail(construct.todo))
  <2> DEFINE todo == construct.todo
             rest == Tail(todo)
  <2>1. /\ m = todo[1] /\ IsSequence(rest) /\ DOMAIN rest = 1 .. Len(todo) - 1
        /\ DOMAIN todo = 1 .. Len(todo) /\ Len(todo) \in Nat \ {0}
        /\ \A k \in 1 .. Len(todo) - 1 : rest[k] = todo[k + 1]
    <3> HIDE DEF construct
    <3>1. IsSequence(todo) /\ todo # <<>>
      BY <1>3, <1>4
    <3> HIDE DEF todo
    <3>2. IsSequence(rest) /\ Len(rest) = Len(todo) - 1
          /\ \A k \in 1 .. Len(todo) - 1 : rest[k] = todo[k + 1]
      BY <3>1, TailFacts
    <3>3. DOMAIN rest = 1 .. Len(rest)
      BY <3>2, SequenceFacts
    <3>4. /\ DOMAIN todo = 1 .. Len(todo) /\ Len(todo) \in Nat \ {0}
          /\ Head(todo) = todo[1]
      BY <3>1, SequenceFacts
    <3> QED
      BY <3>2, <3>3, <3>4 DEF todo
  <2> HIDE DEF construct, m, rest
  <2>2. \A k \in DOMAIN todo : k = 1 \/ (k - 1 \in DOMAIN rest /\ todo[k] = rest[k - 1])
    <3>1. ASSUME NEW k \in DOMAIN todo, k # 1
          PROVE  k - 1 \in DOMAIN rest /\ todo[k] = rest[k - 1]
      <4>1. k - 1 \in 1 .. Len(todo) - 1 /\ (k - 1) + 1 = k
        BY <2>1, <3>1
      <4> QED
        BY <2>1, <4>1
    <3> QED
      BY <3>1
  <2>3. \A k \in DOMAIN rest : k + 1 \in DOMAIN todo /\ rest[k] = todo[k + 1]
    BY <2>1
  <2>4. 1 \in DOMAIN todo
    BY <2>1
  <2>5. FieldNames(rest) = {rest[k].name : k \in DOMAIN rest}
        /\ FieldNames(todo) = {todo[k].name : k \in DOMAIN todo}
    BY DEF FieldNames
  <2> HIDE DEF todo
  <2>6. FieldNames(todo) \subseteq {m.name} \cup FieldNames(rest)
    BY <2>1, <2>2, <2>5
  <2>7. {m.name} \cup FieldNames(rest) \subseteq FieldNames(todo)
    BY <2>1, <2>3, <2>4, <2>5
  <2>8. FieldNames(todo) = {m.name} \cup FieldNames(rest)
    BY <2>6, <2>7
  <2> QED
    BY <2>8 DEF todo, rest
<1>7. m.name \in FieldNames(r[name]) /\ t = FieldType(r[name], m.name)
  <2>1. m.name \in FieldNames(r[name])
    BY <1>5, <1>6
  <2> HIDE DEF construct, m, name
  <2>2. FieldContract(name, m.name) = FieldType(r[name], m.name)
    BY <1>2, <1>5, <2>1, ContractFacts
  <2> QED
    BY <2>1, <2>2 DEF name
<1>8. /\ DOMAIN w = {m.name} \cup DOMAIN construct.fields
      /\ w[m.name] = Operand
      /\ \A x \in DOMAIN construct.fields : x # m.name => w[x] = construct.fields[x]
  <2> HIDE DEF m, construct
  <2>1. DOMAIN Only(m.name, Operand) = {m.name} /\ Only(m.name, Operand)[m.name] = Operand
    BY DEF Only
  <2> DEFINE f == Only(m.name, Operand)
             g == construct.fields
  <2>2. w = Merged(f, g)
    OBVIOUS
  <2>3. DOMAIN f = {m.name} /\ f[m.name] = Operand
    BY <2>1
  <2> HIDE DEF f, g, w
  <2>4. /\ DOMAIN w = DOMAIN f \cup DOMAIN g
        /\ \A x \in DOMAIN f : w[x] = f[x]
        /\ \A x \in DOMAIN g \ DOMAIN f : w[x] = g[x]
    BY <2>2 DEF Merged
  <2> QED
    BY <2>3, <2>4 DEF g
<1>9. /\ u(construct).task = "Construct" /\ u(construct).todo = Tail(construct.todo)
      /\ u(construct).expr = construct.expr /\ u(construct).env = construct.env
      /\ u(construct).fields = w
  <2> HIDE DEF construct, w
  <2> QED
    BY DEF ConstructTask, w
<1> HIDE DEF w
<1>10. ASSUME HasType(t, Operand) PROVE SaneNow(u(construct))
  <2>1. ASSUME NEW x \in DOMAIN w
        PROVE  Valued(w[x], r) /\ HasType(FieldType(r[name], x), w[x])
    <3>1. CASE x = m.name
      BY <1>2, <1>7, <1>8, <1>10, <3>1
    <3>2. CASE x # m.name
      BY <1>5, <1>8, <2>1, <3>2
    <3> QED
      BY <3>1, <3>2, SMTT(30)
  <2>2. FieldNames(Tail(construct.todo)) \cup DOMAIN w = FieldNames(r[name])
    BY <1>5, <1>6, <1>8
  <2> DEFINE q == u(construct)
  <2>3. /\ q.task = "Construct" /\ q.todo = Tail(construct.todo)
        /\ q.expr.name = name /\ q.env = construct.env /\ q.fields = w
    BY <1>9
  <2> HIDE DEF q, construct, u
  <2>4. SaneNow(q)
    BY <1>5, <2>1, <2>2, <2>3 DEF SaneNow, Sane, ScopedNow
  <2> QED
    BY <2>4 DEF q
<1>11. /\ j.bindings = interp.bindings /\ j.functions = interp.functions
       /\ j.operands = Drop(interp.operands, 1)
       /\ j.control = [Rest EXCEPT ![1] = u(construct)]
  <2>1. <<>> \o Rest = Rest
    BY <1>2, WithoutFront
  <2> HIDE DEF u, construct
  <2>2. /\ i.control = Rest /\ Shape(i) /\ i.bindings = interp.bindings
        /\ i.functions = interp.functions /\ i.operands = Drop(interp.operands, 1)
    BY <2>1, GivenFacts DEF Take, Shape
  <2> HIDE DEF i
  <2>3. j.control = [Rest EXCEPT ![1] = u(Rest[1])]
    BY <1>3, <2>2 DEF Shape
  <2> QED
    BY <1>3, <2>2, <2>3 DEF Shape
<1>12. /\ AllValued(Drop(interp.operands, 1), r)
       /\ Len(Drop(interp.operands, 1)) = Left - 1
  <2>1. AllValued(interp.operands, r)
    BY <1>1, TopFacts
  <2> HIDE DEF r
  <2> QED
    BY <1>2, <2>1, ValuedSequences, SMTT(30) DEF Left
<1> HIDE DEF j, u, construct, t, m
<1>13. HasType(t, Operand) => Good(j, r)
  <2> SUFFICES ASSUME HasType(t, Operand) PROVE Good(j, r)
    OBVIOUS
  <2>1. SaneNow(u(construct))
    BY <1>10
  <2>2. Now([Rest EXCEPT ![1] = u(construct)], Left - 1)
    BY <1>2, <1>3, <1>9, <2>1, RunsReplaced DEF Now, SaneNow, Composite
  <2> QED
    BY <1>11, <1>12, <2>2, GoodMoved DEF GoodNow
<1>14. ~IsError(next) => Good(next, analysis.registry)
  BY <1>13 DEF TypeError, IsError
<1> HIDE DEF next
<1> QED
  BY <1>1, <1>2, <1>14, StepGood

LEMMA EndConstructGood == ASSUME IInv, VInv, EndConstruct PROVE VInv'
<1> DEFINE v == RecordValue(Top.expr.name, Top.fields)
           next == Close(0, v)
           r == analysis.registry
<1>1. /\ Step(0, next) /\ interp.control # <<>> /\ Top.task = "Construct"
      /\ Top.todo = <<>>
  BY DEF EndConstruct, Doing
<1>2. analysis.errors = {} /\ SaneNow(Top) /\ Uses(Top) = 0 /\ Gives(Top) = 1
  BY <1>1, TopFacts, UsesFacts
<1> DEFINE name == Top.expr.name
           f == Top.fields
<1>3. /\ name \in DOMAIN r
      /\ FieldNames(Top.todo) \cup DOMAIN f = FieldNames(r[name])
      /\ \A x \in DOMAIN f : Valued(f[x], r) /\ HasType(FieldType(r[name], x), f[x])
  BY <1>1, <1>2 DEF SaneNow, Sane, IsNamed
<1>4. FieldNames(Top.todo) = {}
  BY <1>1 DEF FieldNames
<1>5. v.fields = f
  BY DEF RecordValue
<1>6. IsRecordOf(v, r[name])
  BY <1>3, <1>4, <1>5 DEF IsRecordOf
<1>7. Valued(v, r)
  <2> HIDE DEF f, name, r
  <2> QED
    BY <1>3, <1>6, RecordValued DEF f, name
<1> HIDE DEF v
<1>8. Good(next, analysis.registry)
  BY <1>1, <1>2, <1>7, CloseGood DEF GoodNow
<1> HIDE DEF next
<1> QED
  BY <1>1, <1>2, <1>8, StepGood

----------------------------------------------------------------------------
(* Operators and calls that close *)

\* A step of the next task.
LEMMA TaskGood ==
    ASSUME IInv, VInv, interp.control # <<>>, NEW n, NEW next, Step(n, next),
           ~IsError(next) => GoodNow(next)
    PROVE  VInv'
<1>1. analysis.errors = {}
  BY TopFacts
<1>2. ~IsError(next) => Good(next, analysis.registry)
  BY DEF GoodNow
<1> QED
  BY <1>1, <1>2, StepGood

LEMMA ErrorFacts == \A cause : IsError(Error(cause))
  BY DEF Error, IsError

\* A task that takes one operand.
LEMMA OperandFacts ==
    ASSUME IInv, VInv, interp.control # <<>>, Uses(Top) = 1
    PROVE  /\ Valued(Operand, analysis.registry) /\ IsSequence(Rest)
           /\ Outcomes(Operand, analysis.registry)
           /\ Left \in Nat /\ 1 \in 0 .. Left /\ Left - 1 \in Nat
           /\ Gives(Top) = 1 => Now(Rest, Left)
           /\ Gives(Top) = 0 => Now(Rest, Left - 1)
<1>1. /\ Uses(Top) # 0 /\ Uses(Top) \in 0 .. Left /\ Left \in Nat
      /\ IsSequence(Rest) /\ Now(Rest, Left - Uses(Top) + Gives(Top))
      /\ Valued(Operand, analysis.registry)
  <2>1. Uses(Top) # 0
    OBVIOUS
  <2> QED
    BY <2>1, TopFacts
<1>2. 1 \in 0 .. Left /\ Left - 1 \in Nat /\ Left - 1 + 1 = Left /\ Left - 1 + 0 = Left - 1
  BY <1>1
<1> QED
  BY <1>1, <1>2 DEF Outcomes

\* The operands of an expression as its arguments.
LEMMA ArgumentsValued ==
    ASSUME IInv, VInv, NEW n \in 0 .. Left
    PROVE  /\ AllValued(Arguments(n), analysis.registry)
           /\ DOMAIN Arguments(n) = 1 .. n /\ Len(Arguments(n)) = n
<1> DEFINE vs == Arguments(n)
           r == analysis.registry
           s == interp.operands
<1>1. AllValued(s, r)
  BY DEF VInv, Good
<1> HIDE DEF r
<1>2. Left \in Nat /\ DOMAIN s = 1 .. Left
  BY <1>1, SequenceFacts DEF AllValued, Left
<1>3. n \in Nat /\ DOMAIN vs = 1 .. n /\ vs = [k \in DOMAIN vs |-> vs[k]]
      /\ \A k \in 1 .. n : vs[k] = s[n + 1 - k]
  BY <1>2 DEF Arguments
<1> HIDE DEF vs
<1>4. IsSequence(vs) /\ Len(vs) = n
  BY <1>3, FunctionSequence
<1>5. ASSUME NEW k \in 1 .. n PROVE Valued(vs[k], r)
  <2>1. n + 1 - k \in 1 .. Left
    BY <1>2, <1>3
  <2> QED
    BY <1>1, <1>2, <1>3, <2>1 DEF AllValued
<1>6. AllValued(vs, r)
  BY <1>3, <1>4, <1>5 DEF AllValued
<1> QED
  BY <1>3, <1>4, <1>6 DEF vs, r

LEMMA FieldsValued ==
    ASSUME NEW r, NEW ms, NEW n \in Nat, DOMAIN ms = 1 .. n,
           NEW vs, \A k \in 1 .. n : Valued(vs[k], r)
    PROVE  Valued(ObjectValue(Fields(ms, vs)), r)
<1> DEFINE f == Fields(ms, vs)
           D(x) == {k \in DOMAIN ms : ms[k].name = x}
<1>1. ASSUME NEW x \in DOMAIN f PROVE Valued(f[x], r)
  <2>1. x \in FieldNames(ms) /\ f[x] = vs[Max(D(x))]
    BY <1>1 DEF Fields
  <2>2. D(x) \in SUBSET (0 .. n) /\ D(x) # {} /\ D(x) \subseteq 1 .. n
    BY <2>1 DEF FieldNames
  <2> HIDE DEF D
  <2>3. Max(D(x)) \in D(x)
    BY <2>2, MaxFacts
  <2> QED
    BY <2>1, <2>2, <2>3
<1> HIDE DEF f
<1> QED
  BY <1>1, ObjectValued DEF f

\* What an operator gives.
LEMMA OperatorOutcome ==
    ASSUME NEW r, NEW exprs, NEW e, IsExpression(e, exprs),
           e.kind \in {"Array", "Object", "Unary", "Binary", "Property", "Index"},
           e.kind = "Binary" => e.operator \notin Logical,
           NEW vs, AllValued(vs, r), DOMAIN vs = 1 .. Len(Operands(e))
    PROVE  Outcomes(ValueOf(e, vs), r)
<1>1. IsSequence(Operands(e))
  BY DEF IsExpression
<1>2. CASE e.kind = "Array"
  BY <1>2, ArrayValued DEF ValueOf, Outcomes
<1>3. CASE e.kind = "Object"
  <2> DEFINE ms == e.members
             n == Len(Operands(e))
  <2>1. Operands(e) = Values(ms)
    BY <1>3 DEF Operands
  <2>2. n \in Nat /\ DOMAIN ms = 1 .. n
    <3>1. n \in Nat /\ DOMAIN Operands(e) = 1 .. n
      BY <1>1, SequenceFacts
    <3> HIDE DEF n
    <3> QED
      BY <2>1, <3>1 DEF Values
  <2>3. \A k \in 1 .. n : Valued(vs[k], r)
    BY DEF AllValued
  <2> HIDE DEF n, ms
  <2>4. Valued(ObjectValue(Fields(ms, vs)), r)
    BY <2>2, <2>3, FieldsValued
  <2> QED
    BY <1>3, <2>4 DEF ValueOf, Outcomes, ms
<1>4. CASE e.kind = "Unary"
  <2>1. Simple(ValueOf(e, vs))
    BY <1>4, UnarySimple DEF ValueOf
  <2> QED
    BY <2>1, SimpleOutcome
<1>5. CASE e.kind = "Binary"
  <2>1. e.operator \in Arithmetics \cup Relational \cup Logical
    BY <1>5 DEF IsExpression, Arithmetics
  <2>2. Simple(Operate(vs[1], e.operator, vs[2]))
    BY <1>5, <2>1, OperateSimple
  <2> QED
    BY <1>5, <2>2, SimpleOutcome DEF ValueOf
<1>6. CASE e.kind = "Property"
  <2>1. Operands(e) = <<e.object>>
    BY <1>6 DEF Operands
  <2>2. Len(Operands(e)) = 1
    BY <2>1
  <2>3. Valued(vs[1], r)
    BY <2>2 DEF AllValued
  <2> QED
    BY <1>6, <2>3, GetOutcome DEF ValueOf
<1>7. CASE e.kind = "Index"
  <2>1. Operands(e) = <<e.object, e.index>>
    BY <1>7 DEF Operands
  <2>2. Len(Operands(e)) = 2
    BY <2>1
  <2>3. Valued(vs[1], r)
    BY <2>2 DEF AllValued
  <2> QED
    BY <1>7, <2>3, GetOutcome DEF ValueOf
<1> QED
  BY <1>2, <1>3, <1>4, <1>5, <1>6, <1>7

LEMMA AppliedOutcome ==
    ASSUME IInv, VInv, interp.control # <<>>,
           Top.task \in {"Array", "Object", "Unary", "Binary", "Property", "Index"},
           Top.expr.kind = "Binary" => Top.expr.operator \notin Logical
    PROVE  LET n == Len(Operands(Top.expr))
           IN  /\ n = Uses(Top) /\ Gives(Top) = 1
               /\ Outcomes(ValueOf(Top.expr, Arguments(n)), analysis.registry)
<1> DEFINE e == Top.expr
           n == Len(Operands(e))
           r == analysis.registry
<1>1. Top.task \in Composite
  BY DEF Composite
<1>2. e.kind = Top.task /\ IsExpression(e, Setting.parts.exprs)
  BY <1>1, TopExpression
<1>3. First(e) = Operands(e)
  BY <1>2 DEF First
<1>4. n = Uses(Top) /\ Gives(Top) = 1 /\ n \in 0 .. Left
  BY <1>1, <1>3, UsesFacts, TopFacts
<1>5. AllValued(Arguments(n), r) /\ DOMAIN Arguments(n) = 1 .. n
  BY <1>4, ArgumentsValued
<1>6. Outcomes(ValueOf(e, Arguments(n)), r)
  BY <1>2, <1>5, OperatorOutcome
<1> QED
  BY <1>4, <1>6

LEMMA OperatorGood == ASSUME IInv, VInv, ApplyOperator PROVE VInv'
<1> DEFINE n == Len(Operands(Top.expr))
           v == ValueOf(Top.expr, Arguments(n))
           next == Complete(n, v)
<1>1. /\ interp.control # <<>> /\ Step(0, next)
      /\ Top.task \in {"Array", "Object", "Unary", "Binary", "Property", "Index"}
      /\ Top.expr.kind = "Binary" => Top.expr.operator \notin Logical
  BY DEF ApplyOperator, Doing
<1>2. n = Uses(Top) /\ Gives(Top) = 1 /\ Outcomes(v, analysis.registry)
  BY <1>1, AppliedOutcome
<1> HIDE DEF v, n
<1>3. ~IsError(next) => GoodNow(next)
  BY <1>1, <1>2, CompleteGood
<1> HIDE DEF next
<1> QED
  BY <1>1, <1>3, TaskGood

LEMMA LogicalGood == ASSUME IInv, VInv, ApplyLogical PROVE VInv'
<1> DEFINE e == Top.expr
           v == Operand
           t == Then("boolean", e, Top.env)
           p == <<Evaluate(e.right, Top.env), t>>
           more == Take(1, p)
           next == IF v.type # "bool" THEN Error("Not a boolean")
                   ELSE IF v.bool = (e.operator = "||") THEN Complete(1, v)
                   ELSE more
           r == analysis.registry
<1>1. /\ Step(0, next) /\ interp.control # <<>> /\ Top.task = "Binary"
      /\ e.operator \in Logical
  BY DEF ApplyLogical, Doing
<1>2. Top.task \in Composite /\ e.kind = "Binary"
  BY <1>1, TopExpression DEF Composite
<1>3. 1 = Uses(Top) /\ Gives(Top) = 1
  <2>1. First(e) = <<e.left>>
    BY <1>1, <1>2 DEF First
  <2> QED
    BY <1>2, <2>1, UsesFacts
<1>4. /\ Valued(v, r) /\ Left \in Nat /\ 1 \in 0 .. Left /\ ScopedNow(Top.env)
      /\ Left - 1 \in Nat /\ Now(Rest, Left)
  <2>1. ScopedNow(Top.env)
    BY <1>1, <1>2, TopFacts DEF Seeing
  <2> QED
    BY <1>1, <1>3, <2>1, OperandFacts
<1>5. ~IsError(Complete(1, v)) => GoodNow(Complete(1, v))
  BY <1>1, <1>3, <1>4, CompleteGood DEF Outcomes
<1>6. GoodNow(more)
  <2> DEFINE env == Top.env
             n == Left - 1
  <2>1. t.task = "boolean" /\ t.env = env
    BY DEF Then
  <2>2. n \in Nat /\ n + 1 = Left /\ n + 1 \in Nat
    BY <1>4
  <2> HIDE DEF t, env, n
  <2>3. SaneNow(t) /\ Fit(t, Rest) /\ Uses(t) = 1 /\ Gives(t) = 1
    BY <1>4, <2>1, UsesFacts DEF SaneNow, Sane, ScopedNow, env, Fit, StatementTasks
  <2>4. Uses(t) \in 0 .. (n + 1) /\ (n + 1) - Uses(t) + Gives(t) = Left
    BY <1>4, <2>2, <2>3
  <2>5. Now(<<t>> \o Rest, n + 1) /\ IsSequence(Rest)
    BY <1>4, <2>2, <2>3, <2>4, NowMore
  <2>6. Now(<<Evaluate(e.right, env)>> \o (<<t>> \o Rest), n)
    <3> DEFINE c == <<t>> \o Rest
    <3>1. Now(c, n + 1)
      BY <2>5
    <3> HIDE DEF c
    <3>2. Now(<<Evaluate(e.right, env)>> \o c, n)
      BY <1>4, <2>2, <3>1, EvaluateNow DEF env
    <3> QED
      BY <3>2 DEF c
  <2>7. <<Evaluate(e.right, env)>> \o (<<t>> \o Rest) = p \o Rest
    BY <2>5, TwoTasks DEF env
  <2> HIDE DEF p
  <2>8. Now(p \o Rest, Left - 1)
    BY <2>6, <2>7 DEF n
  <2> QED
    BY <1>4, <2>8, TakeGood
<1> HIDE DEF more, v
<1>7. ~IsError(next) => GoodNow(next)
  BY <1>5, <1>6, ErrorFacts
<1> HIDE DEF next
<1> QED
  BY <1>1, <1>7, TaskGood

LEMMA BooleanGood == ASSUME IInv, VInv, CheckBoolean PROVE VInv'
<1> DEFINE v == Operand
           next == IF v.type # "bool" THEN Error("Not a boolean")
                   ELSE Complete(1, v)
<1>1. Step(0, next) /\ interp.control # <<>> /\ Top.task = "boolean"
  BY DEF CheckBoolean, Doing
<1>2. 1 = Uses(Top) /\ Gives(Top) = 1
  BY <1>1, UsesFacts
<1>3. Outcomes(v, analysis.registry)
  BY <1>1, <1>2, OperandFacts
<1> HIDE DEF v
<1>4. ~IsError(Complete(1, v)) => GoodNow(Complete(1, v))
  BY <1>1, <1>2, <1>3, CompleteGood
<1>5. ~IsError(next) => GoodNow(next)
  BY <1>4, ErrorFacts
<1> HIDE DEF next
<1> QED
  BY <1>1, <1>5, TaskGood

LEMMA FinishCallGood == ASSUME IInv, VInv, FinishCall PROVE VInv'
<1> DEFINE v == Operand
           next == Complete(1, v)
<1>1. Step(0, next) /\ interp.control # <<>> /\ Top.task = "called"
  BY DEF FinishCall, Doing
<1>2. 1 = Uses(Top) /\ Gives(Top) = 1
  BY <1>1, UsesFacts
<1>3. Outcomes(v, analysis.registry)
  BY <1>1, <1>2, OperandFacts
<1> HIDE DEF v
<1>4. ~IsError(next) => GoodNow(next)
  BY <1>1, <1>2, <1>3, CompleteGood
<1> HIDE DEF next
<1> QED
  BY <1>1, <1>4, TaskGood

LEMMA NetworkKind ==
    ASSUME IInv, VInv, interp.control # <<>>,
           Top.task \in {"Connection", "Send", "Receive", "request"}
    PROVE  /\ Top.expr.kind \in {"Connection", "Send", "Receive", "Request"}
           /\ Len(Operands(Top.expr)) = Uses(Top) /\ Gives(Top) = 1
<1>1. CASE Top.task = "request"
  <2>1. SaneNow(Top)
    BY TopFacts
  <2> QED
    BY <1>1, <2>1, UsesFacts DEF SaneNow, Sane
<1>2. CASE Top.task # "request"
  <2>1. Top.task \in Composite /\ Top.expr.kind = Top.task
    BY <1>2, TopExpression DEF Composite
  <2>2. First(Top.expr) = Operands(Top.expr)
    BY <1>2, <2>1 DEF First
  <2> QED
    BY <1>2, <2>1, <2>2, UsesFacts
<1> QED
  BY <1>1, <1>2

LEMMA NetworkGood == ASSUME IInv, VInv, ApplyNetwork PROVE VInv'
<1> DEFINE e == Top.expr
           n == Len(Operands(e))
<1>1. /\ interp.control # <<>>
      /\ Top.task \in {"Connection", "Send", "Receive", "request"}
      /\ \/ Step(0, Error("Invalid configuration"))
         \/ \E answer \in Answers(e) : Step(0, Complete(n, answer))
  BY DEF ApplyNetwork, Doing
<1>2. CASE Step(0, Error("Invalid configuration"))
  BY <1>1, <1>2, ErrorFacts, TaskGood
<1>3. /\ e.kind \in {"Connection", "Send", "Receive", "Request"}
      /\ n = Uses(Top) /\ Gives(Top) = 1
  BY <1>1, NetworkKind
<1>4. ASSUME NEW answer \in Answers(e), Step(0, Complete(n, answer)) PROVE VInv'
  <2> DEFINE next == Complete(n, answer)
  <2>1. Outcomes(answer, analysis.registry)
    BY <1>3, AnswerValued
  <2>2. ~IsError(next) => GoodNow(next)
    BY <1>1, <1>3, <2>1, CompleteGood
  <2>3. Step(0, next)
    BY <1>4
  <2> HIDE DEF next
  <2> QED
    BY <1>1, <2>2, <2>3, TaskGood
<1> QED
  BY <1>1, <1>2, <1>4

LEMMA RequestGood == ASSUME IInv, VInv, ApplyRequest PROVE VInv'
<1> DEFINE e == Top.expr
           v == Operand
           env == Top.env
           es == e.config
           k == Len(es)
           t == Then("request", e, env)
           all == EvaluateAll(es, env)
           tasks == all \o <<t>>
           next == IF v.type # "string" THEN Error("Not a string") ELSE Push(tasks)
<1>1. Step(0, next) /\ interp.control # <<>> /\ Top.task = "Request"
  BY DEF ApplyRequest, Doing
<1>2. Top.task \in Composite /\ e.kind = "Request"
      /\ IsExpression(e, Setting.parts.exprs)
  BY <1>1, TopExpression DEF Composite
<1>3. 1 = Uses(Top) /\ Gives(Top) = 1
  <2>1. First(e) = <<e.url>>
    BY <1>2 DEF First
  <2> QED
    BY <1>2, <2>1, UsesFacts
<1>4. /\ Left \in Nat /\ 1 \in 0 .. Left /\ ScopedNow(env)
      /\ IsSequence(Rest) /\ Now(Rest, Left - 1 + 1)
  BY <1>1, <1>2, <1>3, TopFacts DEF Seeing
<1>5. IsSequence(es) /\ k \in Nat /\ Operands(e) = <<e.url>> \o es
  BY <1>2, SequenceFacts DEF IsExpression, Operands
<1>6. Len(Operands(e)) = 1 + k /\ IsSequence(Operands(e))
  BY <1>5, ConsFacts
<1>7. t.task = "request" /\ t.expr = e /\ t.env = env
  BY DEF Then
<1> HIDE DEF e, env, es, t, all, v
<1>8. SaneNow(t) /\ Fit(t, Rest) /\ Uses(t) = 1 + k /\ Gives(t) = 1
  <2>1. t.task \notin StatementTasks
    BY <1>7 DEF StatementTasks
  <2>2. SaneNow(t)
    BY <1>2, <1>6, <1>7 DEF SaneNow, Sane, Seeing, Composite, e
  <2> QED
    BY <1>6, <1>7, <2>1, <2>2, ExpressionFit, UsesFacts
<1>9. Now(<<t>> \o Rest, Left + k)
  <2> DEFINE n == Left + k
  <2>1. n \in Nat /\ Uses(t) \in 0 .. n /\ n - Uses(t) + Gives(t) = Left - 1 + 1
    BY <1>4, <1>5, <1>8
  <2> HIDE DEF n
  <2>2. Now(<<t>> \o Rest, n)
    BY <1>4, <1>8, <2>1, NowMore
  <2> QED
    BY <2>2 DEF n
<1>10. Now(all \o (<<t>> \o Rest), Left)
  <2> DEFINE c == <<t>> \o Rest
  <2>1. Now(c, Left + k)
    BY <1>9
  <2> HIDE DEF c
  <2>2. Now(all \o c, Left)
    BY <1>4, <1>5, <2>1, RunsAll DEF Now, ScopedNow, all
  <2> QED
    BY <2>2 DEF c
<1>11. all \o (<<t>> \o Rest) = tasks \o Rest
  <2>1. IsSequence(all)
    BY <1>5, EvaluateAllFacts DEF all
  <2> DEFINE q == <<t>>
  <2>2. IsSequence(q) /\ tasks = all \o q
    BY SingleFacts
  <2> HIDE DEF q, tasks
  <2>3. all \o (q \o Rest) = (all \o q) \o Rest
    BY <1>4, <2>1, <2>2, ConcatAssociative3, SMTT(30)
  <2> QED
    BY <2>2, <2>3 DEF q
<1> HIDE DEF tasks
<1>12. GoodNow(Push(tasks))
  BY <1>10, <1>11, PushGood
<1>13. ~IsError(next) => GoodNow(next)
  BY <1>12, ErrorFacts
<1> HIDE DEF next
<1> QED
  BY <1>1, <1>13, TaskGood

----------------------------------------------------------------------------
(* Assignment *)

\* An expression, and the task that takes its value.
LEMMA ThenNow ==
    ASSUME IInv, VInv, NEW n \in Nat, NEW c, IsSequence(c), NEW t,
           Now(c, n + Gives(t)), SaneNow(t), Fit(t, c), Uses(t) = 1,
           NEW e, NEW env, ScopedNow(env)
    PROVE  Now(<<Evaluate(e, env), t>> \o c, n)
<1> DEFINE d == <<t>> \o c
           a == Evaluate(e, env)
<1>1. n + 1 \in Nat /\ Gives(t) \in Nat
  BY DEF Gives
<1>2. Uses(t) \in 0 .. (n + 1) /\ (n + 1) - Uses(t) + Gives(t) = n + Gives(t)
  BY <1>1
<1>3. Now(d, n + 1)
  BY <1>1, <1>2, NowMore
<1>4. <<a, t>> \o c = <<a>> \o d
  BY TwoTasks
<1> HIDE DEF d
<1>5. Now(<<a>> \o d, n)
  BY <1>3, EvaluateNow
<1> QED
  BY <1>4, <1>5

\* A task that takes and leaves what the one before it did.
LEMMA SameTask ==
    ASSUME IInv, VInv, interp.control # <<>>, NEW t, SaneNow(t), Fit(t, Rest),
           Uses(t) = Uses(Top), Gives(t) = Gives(Top)
    PROVE  Now(<<t>> \o Rest, Left) /\ GoodNow(Push(<<t>>))
<1>1. /\ Left \in Nat /\ Uses(t) \in 0 .. Left
      /\ Now(Rest, Left - Uses(t) + Gives(t))
  BY TopFacts
<1>2. Now(<<t>> \o Rest, Left)
  BY <1>1, NowMore
<1> DEFINE p == <<t>>
<1>3. Now(p \o Rest, Left)
  BY <1>2
<1> HIDE DEF p
<1>4. GoodNow(Push(p))
  BY <1>3, PushGood
<1> QED
  BY <1>2, <1>4 DEF p

LEMMA AssignmentGood == ASSUME IInv, VInv, EvaluateAssignment PROVE VInv'
<1> DEFINE e == Top.expr
           t == TargetTask(e, Top.env, e.target, <<>>)
           p == <<t>>
           next == Open(p)
<1>1. Step(1, next) /\ interp.control # <<>> /\ Top.task = "evaluate"
  BY DEF EvaluateAssignment, Doing
<1>2. Uses(Top) = 0 /\ Gives(Top) = 1 /\ ScopedNow(Top.env)
  BY <1>1, TopFacts, UsesFacts DEF Seeing
<1>3. t.task = "target" /\ t.env = Top.env
  BY DEF TargetTask
<1> HIDE DEF t
<1>4. SaneNow(t) /\ Fit(t, Rest) /\ Uses(t) = 0 /\ Gives(t) = 1
  BY <1>2, <1>3, UsesFacts DEF SaneNow, Sane, ScopedNow, Fit, StatementTasks
<1>5. Now(<<t>> \o Rest, Left)
  BY <1>1, <1>2, <1>4, SameTask
<1>6. Now(p \o Rest, Left)
  BY <1>5
<1> HIDE DEF p
<1>7. ~IsError(next) => GoodNow(next)
  BY <1>6, OpenGood
<1> HIDE DEF next
<1> QED
  BY <1>1, <1>7, TaskGood

LEMMA TargetGood == ASSUME IInv, VInv, ResolveTarget PROVE VInv'
<1> DEFINE e == Top.expr
           t == Top.target
           env == Top.env
           path == Top.path
           id == Slot(env, t.name)
           s == SelectTask(e, env, path, Place(id, <<>>))
           o == TargetTask(e, env, t.object, <<t>> \o path)
           unknown == DepthOf(env, t.name) = 0
           next == CASE t.kind = "Identifier" ->
                            IF unknown THEN Error("Undefined name") ELSE Push(<<s>>)
                     [] t.kind \in {"Property", "Index"} -> Push(<<o>>)
                     [] OTHER -> Error("Invalid target")
<1>1. Step(1, next) /\ interp.control # <<>> /\ Top.task = "target"
  BY DEF ResolveTarget, Doing
<1>2. Uses(Top) = 0 /\ Gives(Top) = 1 /\ ScopedNow(env)
  BY <1>1, TopFacts, UsesFacts DEF Seeing
<1>3. GoodNow(Push(<<o>>))
  <2>1. o.task = "target" /\ o.env = env
    BY DEF TargetTask
  <2> HIDE DEF o
  <2>2. SaneNow(o) /\ Fit(o, Rest) /\ Uses(o) = 0 /\ Gives(o) = 1
    BY <1>2, <2>1, UsesFacts DEF SaneNow, Sane, ScopedNow, Fit, StatementTasks
  <2> QED
    BY <1>1, <1>2, <2>2, SameTask
<1>4. ASSUME ~unknown PROVE GoodNow(Push(<<s>>))
  <2>1. /\ s.task = "select" /\ s.env = env
        /\ s.place.slot = id /\ s.place.selectors = <<>>
    BY DEF SelectTask, Place
  <2>2. id \in 1 .. Len(interp.bindings)
    BY <1>2, <1>4, SlotFacts DEF ScopedNow
  <2>3. IsSequence(<<>>)
    BY EmptyFacts
  <2> HIDE DEF s, id, env
  <2>4. SaneNow(s) /\ Fit(s, Rest) /\ Uses(s) = 0 /\ Gives(s) = 1
    BY <1>2, <2>1, <2>2, <2>3, UsesFacts
       DEF SaneNow, Sane, ScopedNow, Fit, StatementTasks
  <2> QED
    BY <1>1, <1>2, <2>4, SameTask
<1> HIDE DEF s, o, unknown
<1>5. ~IsError(next) => GoodNow(next)
  BY <1>3, <1>4, ErrorFacts
<1> HIDE DEF next
<1> QED
  BY <1>1, <1>5, TaskGood

\* One more selector for the place.
LEMMA SelectedSane ==
    ASSUME IInv, VInv, interp.control # <<>>, Top.task \in {"select", "index"},
           NEW selector
    PROVE  LET s == Selected(selector)
           IN  SaneNow(s) /\ Fit(s, Rest) /\ Uses(s) = 0 /\ Gives(s) = 1
<1> DEFINE s == Selected(selector)
           n == Len(interp.bindings)
<1>1. /\ s.task = "select" /\ s.env = Top.env /\ s.place.slot = Top.place.slot
      /\ s.place.selectors = Append(Top.place.selectors, selector)
  BY DEF Selected, SelectTask, Place
<1>2. /\ ScopedNow(Top.env) /\ Top.place.slot \in 1 .. n
      /\ IsSequence(Top.place.selectors)
  <2>1. SaneNow(Top)
    BY TopFacts
  <2> QED
    BY <2>1 DEF SaneNow, Sane, ScopedNow, Seeing
<1>3. IsSequence(Append(Top.place.selectors, selector))
  BY <1>2, Appended
<1> HIDE DEF s
<1>4. SaneNow(s)
  BY <1>1, <1>2, <1>3 DEF SaneNow, Sane, ScopedNow
<1>5. Fit(s, Rest) /\ Uses(s) = 0 /\ Gives(s) = 1
  BY <1>1, UsesFacts DEF Fit, StatementTasks
<1> QED
  BY <1>4, <1>5 DEF s

LEMMA SelectGood == ASSUME IInv, VInv, SelectTarget PROVE VInv'
<1> DEFINE t == Head(Top.path)
           s == Selected(StringValue(t.name))
           i == [Top EXCEPT !.task = "index"]
           env == Top.env
           first == t.kind = "Property"
           p == <<Evaluate(t.index, env), i>>
           next == Push(IF first THEN <<s>> ELSE p)
<1>1. Step(0, next) /\ interp.control # <<>> /\ Top.task = "select"
  BY DEF SelectTarget, Doing
<1>2. /\ Uses(Top) = 0 /\ Gives(Top) = 1 /\ ScopedNow(env) /\ SaneNow(Top)
      /\ IsSequence(Rest) /\ Left \in Nat /\ Now(Rest, Left - 0 + 1)
  BY <1>1, TopFacts, UsesFacts DEF Seeing
<1>3. GoodNow(Push(<<s>>))
  <2>1. SaneNow(s) /\ Fit(s, Rest) /\ Uses(s) = 0 /\ Gives(s) = 1
    BY <1>1, SelectedSane
  <2> HIDE DEF s
  <2> QED
    BY <1>1, <1>2, <2>1, SameTask
<1>4. GoodNow(Push(p))
  <2>1. DOMAIN Top = {"task", "expr", "env", "path", "place"}
    BY <1>1, NextTask DEF HeldBy, Holds
  <2>2. i.task = "index" /\ i.env = env /\ i.place = Top.place
    BY <2>1
  <2> HIDE DEF i, env
  <2>3. SaneNow(i) /\ Fit(i, Rest) /\ Uses(i) = 1 /\ Gives(i) = 1
    BY <1>1, <1>2, <2>2, UsesFacts DEF SaneNow, Sane, ScopedNow, Fit, StatementTasks
  <2>4. Now(Rest, Left + Gives(i))
    BY <1>2, <2>3
  <2>5. Now(p \o Rest, Left)
    BY <1>2, <2>3, <2>4, ThenNow
  <2> HIDE DEF p
  <2> QED
    BY <2>5, PushGood
<1> HIDE DEF p, s, first
<1>5. GoodNow(next)
  BY <1>3, <1>4
<1> HIDE DEF next
<1> QED
  BY <1>1, <1>5, TaskGood

LEMMA SelectIndexGood == ASSUME IInv, VInv, SelectIndex PROVE VInv'
<1> DEFINE s == Selected(Operand)
           p == <<s>>
           next == Take(1, p)
<1>1. Step(0, next) /\ interp.control # <<>> /\ Top.task = "index"
  BY DEF SelectIndex, Doing
<1>2. /\ Uses(Top) = 1 /\ Gives(Top) = 1
  BY <1>1, UsesFacts
<1>3. /\ Left \in Nat /\ 1 \in 0 .. Left /\ Left - 1 \in Nat /\ Now(Rest, Left)
  BY <1>1, <1>2, OperandFacts
<1>4. SaneNow(s) /\ Fit(s, Rest) /\ Uses(s) = 0 /\ Gives(s) = 1
  BY <1>1, SelectedSane
<1> HIDE DEF s
<1> DEFINE n == Left - 1
<1>5. n \in Nat /\ Uses(s) \in 0 .. n /\ n - Uses(s) + Gives(s) = Left
  BY <1>3, <1>4
<1> HIDE DEF n
<1>6. Now(<<s>> \o Rest, n)
  BY <1>3, <1>4, <1>5, NowMore
<1>7. Now(p \o Rest, Left - 1)
  BY <1>6 DEF n
<1> HIDE DEF p
<1>8. GoodNow(next)
  BY <1>3, <1>7, TakeGood
<1> HIDE DEF next
<1> QED
  BY <1>1, <1>8, TaskGood

LEMMA WritableGood == ASSUME IInv, VInv, CheckWritable PROVE VInv'
<1> DEFINE e == Top.expr
           v == Top.place
           l == LoadTask(e, v)
           p == <<Evaluate(e.value, Top.env), l>>
           pushed == Push(p)
           next == IfWritable(v, pushed)
<1>1. Step(0, next) /\ interp.control # <<>> /\ Top.task = "select"
  BY DEF CheckWritable, Doing
<1>2. /\ Uses(Top) = 0 /\ Gives(Top) = 1 /\ ScopedNow(Top.env) /\ SaneNow(Top)
      /\ IsSequence(Rest) /\ Left \in Nat /\ Now(Rest, Left - 0 + 1)
  BY <1>1, TopFacts, UsesFacts DEF Seeing
<1>3. l.task = "load" /\ l.place = v
  BY DEF LoadTask
<1>4. v.slot \in 1 .. Len(interp.bindings) /\ IsSequence(v.selectors)
  BY <1>1, <1>2 DEF SaneNow, Sane
<1> HIDE DEF l, v
<1>5. SaneNow(l) /\ Fit(l, Rest) /\ Uses(l) = 1 /\ Gives(l) = 1
  BY <1>3, <1>4, UsesFacts DEF SaneNow, Sane, Seeing, Composite, Fit, StatementTasks
<1>6. Now(Rest, Left + Gives(l))
  BY <1>2, <1>5
<1>7. Now(p \o Rest, Left)
  BY <1>2, <1>5, <1>6, ThenNow
<1> HIDE DEF p
<1>8. GoodNow(pushed)
  BY <1>7, PushGood
<1> HIDE DEF pushed
<1>9. ~IsError(next) => GoodNow(next)
  BY <1>8, ErrorFacts DEF IfWritable
<1> HIDE DEF next
<1> QED
  BY <1>1, <1>9, TaskGood

LEMMA RootOutcome ==
    ASSUME IInv, VInv, NEW place, place.slot \in 1 .. Len(interp.bindings)
    PROVE  Outcomes(Root(place), analysis.registry)
<1>1. place.slot \in DOMAIN interp.bindings
  BY GivenFacts, SequenceFacts DEF Machine, Base
<1>2. Outcomes(Read(place.slot), analysis.registry)
  BY <1>1, ReadOutcome
<1> QED
  BY <1>2, SimpleValues, SimpleOutcome DEF Root

LEMMA LoadGood == ASSUME IInv, VInv, LoadRoot PROVE VInv'
<1> DEFINE root == Root(Top.place)
           t == StoreTask(Top.expr, Top.place, root)
           next == IF IsError(root) THEN root ELSE Push(<<t>>)
<1>1. Step(0, next) /\ interp.control # <<>> /\ Top.task = "load"
  BY DEF LoadRoot, Doing
<1>2. /\ Uses(Top) = 1 /\ Gives(Top) = 1 /\ SaneNow(Top)
  BY <1>1, TopFacts, UsesFacts
<1>3. /\ Top.place.slot \in 1 .. Len(interp.bindings)
      /\ IsSequence(Top.place.selectors)
  BY <1>1, <1>2 DEF SaneNow, Sane
<1>4. Outcomes(root, analysis.registry)
  BY <1>3, RootOutcome
<1>5. t.task = "store" /\ t.place = Top.place /\ t.root = root
  BY DEF StoreTask
<1> HIDE DEF root, t
<1>6. ASSUME ~IsError(root) PROVE GoodNow(Push(<<t>>))
  <2>1. Valued(t.root, analysis.registry)
    BY <1>4, <1>5, <1>6 DEF Outcomes, Harmless
  <2>2. SaneNow(t) /\ Fit(t, Rest) /\ Uses(t) = 1 /\ Gives(t) = 1
    BY <1>3, <1>5, <2>1, UsesFacts
       DEF SaneNow, Sane, Seeing, Composite, Fit, StatementTasks
  <2> QED
    BY <1>1, <1>2, <2>2, SameTask
<1>7. ~IsError(next) => GoodNow(next)
  BY <1>6
<1> HIDE DEF next
<1> QED
  BY <1>1, <1>7, TaskGood

----------------------------------------------------------------------------
(* Values changed in place *)

\* What holds of 0 and passes from each number to the next holds up to n.
LEMMA UpTo ==
    ASSUME NEW n \in Nat, NEW S, 0 \in S, \A k \in 0 .. n - 1 : k \in S => k + 1 \in S
    PROVE  \A k \in 0 .. n : k \in S
<1> DEFINE bad == {k \in 0 .. n : k \notin S}
<1>1. SUFFICES ASSUME bad # {} PROVE FALSE
  OBVIOUS
<1>2. bad \in SUBSET Nat
  OBVIOUS
<1> HIDE DEF bad
<1>3. PICK k \in bad : \A j \in bad : k <= j
  BY <1>1, <1>2, LeastOf
<1> USE DEF bad
<1>4. k \in 0 .. n /\ k # 0 /\ k \notin S
  BY <1>3
<1>5. k - 1 \in 0 .. n - 1 /\ k - 1 \in 0 .. n /\ (k - 1) + 1 = k /\ ~(k <= k - 1)
  BY <1>4
<1>6. k - 1 \notin S
  BY <1>4, <1>5
<1>7. k - 1 \in bad
  BY <1>5, <1>6
<1> HIDE DEF bad
<1> QED
  BY <1>3, <1>5, <1>7

LEMMA PartFacts ==
    ASSUME NEW r, NEW v, Valued(v, r), ~IsError(v), NEW s
    PROVE  /\ Outcomes(Part(v, s), r)
           /\ \/ IsError(Part(v, s))
              \/ /\ v.type \in {"record", "object"} /\ s.text \in DOMAIN v.fields
                 /\ Part(v, s) = v.fields[s.text]
              \/ /\ v.type = "array" /\ s.int + 1 \in DOMAIN v.values
                 /\ Part(v, s) = v.values[s.int + 1]
<1>1. \/ Harmless(Part(v, s))
      \/ /\ v.type \in {"record", "object"} /\ s.text \in DOMAIN v.fields
         /\ Part(v, s) = v.fields[s.text]
      \/ /\ v.type = "array" /\ s.int + 1 \in DOMAIN v.values
         /\ Part(v, s) = v.values[s.int + 1]
  <2>1. Harmless(Error("Access"))
    BY DEF Harmless, IsError, Error, Escapes
  <2> QED
    BY <2>1 DEF Part
<1>2. /\ v.type \in {"record", "object"} =>
             \A x \in DOMAIN v.fields : Valued(v.fields[x], r)
      /\ v.type = "array" => \A k \in DOMAIN v.values : Valued(v.values[k], r)
  BY PartsValued DEF AllValued
<1> QED
  BY <1>1, <1>2 DEF Outcomes, Harmless

LEMMA SameType ==
    ASSUME NEW v, NEW w, v.type = w.type, v.type = "record" => v.name = w.name,
           NEW t, HasType(t, v)
    PROVE  HasType(t, w)
  BY DEF HasType

\* A value with a part replaced by another one that fits.
LEMMA ChangedValued ==
    ASSUME NEW r, NEW v, Valued(v, r), NEW w, Valued(w, r), NEW s,
           \/ v.type = "object"
           \/ /\ v.type = "record" /\ s.text \in DOMAIN v.fields
              /\ HasType(FieldType(r[v.name], s.text), w)
           \/ v.type = "array" /\ s.int + 1 \in DOMAIN v.values
    PROVE  /\ Valued(Changed(v, s, w), r) /\ Changed(v, s, w).type = v.type
           /\ v.type = "record" => Changed(v, s, w).name = v.name
<1>1. CASE v.type = "array"
  <2> DEFINE u == v.values
             i == s.int + 1
             q == [u EXCEPT ![i] = w]
  <2>1. v = ArrayValue(u) /\ AllValued(u, r) /\ i \in DOMAIN u
    BY <1>1, PartsValued
  <2>2. Changed(v, s, w) = [v EXCEPT !.values = q]
    BY <1>1 DEF Changed
  <2>3. Changed(v, s, w) = ArrayValue(q)
    <3> HIDE DEF u
    <3>1. [ArrayValue(u) EXCEPT !.values = q] = ArrayValue(q)
      BY DEF ArrayValue
    <3> QED
      BY <2>1, <2>2, <3>1
  <2>4. AllValued(q, r)
    <3> HIDE DEF u, i
    <3>1. IsSequence(u) /\ \A k \in DOMAIN u : Valued(u[k], r)
      BY <2>1 DEF AllValued
    <3>2. IsSequence(q)
      BY <2>1, <3>1, ExceptSequence
    <3>3. DOMAIN q = DOMAIN u /\ \A k \in DOMAIN u : q[k] = IF k = i THEN w ELSE u[k]
      OBVIOUS
    <3> HIDE DEF q
    <3> QED
      BY <3>1, <3>2, <3>3 DEF AllValued
  <2> HIDE DEF q, u, i
  <2> QED
    BY <1>1, <2>3, <2>4, ArrayValued DEF ArrayValue
<1>2. CASE v.type # "array"
  <2> DEFINE f == v.fields
             g == Only(s.text, w)
             q == Merged(g, f)
  <2>1. \A x \in DOMAIN f : Valued(f[x], r)
    BY <1>2, PartsValued
  <2>2. Changed(v, s, w) = [v EXCEPT !.fields = q]
    BY <1>2 DEF Changed
  <2>3. DOMAIN g = {s.text} /\ g[s.text] = w
    BY DEF Only
  <2>4. /\ DOMAIN q = {s.text} \cup DOMAIN f /\ q[s.text] = w
        /\ \A x \in DOMAIN f : x # s.text => q[x] = f[x]
    <3> HIDE DEF f, g
    <3> QED
      BY <2>3 DEF Merged
  <2>5. \A x \in DOMAIN q : Valued(q[x], r)
    BY <2>1, <2>4
  <2>6. CASE v.type = "object"
    <3>1. v = ObjectValue(f)
      BY <2>6, PartsValued
    <3>2. [ObjectValue(f) EXCEPT !.fields = q] = ObjectValue(q)
      <4> HIDE DEF f, q
      <4> QED
        BY DEF ObjectValue
    <3>3. Changed(v, s, w) = ObjectValue(q)
      BY <2>2, <3>1, <3>2
    <3> HIDE DEF q, f
    <3>4. Valued(ObjectValue(q), r)
      BY <2>5, ObjectValued
    <3> QED
      BY <2>6, <3>3, <3>4 DEF ObjectValue
  <2>7. CASE v.type = "record"
    <3> DEFINE name == v.name
    <3>1. v = RecordValue(name, f) /\ IsRecordOf(v, r[name]) /\ name \in DOMAIN r
      BY <2>7, PartsValued
    <3>2. [RecordValue(name, f) EXCEPT !.fields = q] = RecordValue(name, q)
      <4> HIDE DEF f, q, name
      <4> QED
        BY DEF RecordValue
    <3>3. Changed(v, s, w) = RecordValue(name, q)
      BY <2>2, <3>1, <3>2
    <3>4. s.text \in DOMAIN f /\ HasType(FieldType(r[name], s.text), w)
      BY <2>7
    <3>5. /\ DOMAIN f = FieldNames(r[name])
          /\ \A x \in DOMAIN f : HasType(FieldType(r[name], x), f[x])
      BY <3>1 DEF IsRecordOf
    <3> HIDE DEF q, f, name
    <3>6. IsRecordOf(RecordValue(name, q), r[name])
      <4>1. RecordValue(name, q).fields = q
        BY DEF RecordValue
      <4>2. DOMAIN q = FieldNames(r[name])
        BY <2>4, <3>4, <3>5
      <4>3. \A x \in DOMAIN q : HasType(FieldType(r[name], x), q[x])
        BY <2>4, <3>4, <3>5
      <4> QED
        BY <4>1, <4>2, <4>3 DEF IsRecordOf
    <3>7. Valued(RecordValue(name, q), r)
      BY <2>5, <3>1, <3>6, RecordValued
    <3> QED
      BY <2>7, <3>3, <3>7 DEF RecordValue, name
  <2> QED
    BY <1>2, <2>6, <2>7
<1> QED
  BY <1>1, <1>2

\* The recursions of Replaced: down the selectors and back.
Downward(g, n, v, s) ==
    g = [k \in 0 .. n |-> IF k = 0 THEN v ELSE Part(g[k - 1], s[k])]
LEMMA DownwardExists ==
    ASSUME NEW n \in Nat, NEW v, NEW s
    PROVE  \E g : Downward(g, n, v, s)
<1> DEFINE S == {m \in 0 .. n : \E g : Downward(g, m, v, s)}
<1>1. 0 \in S
  <2> DEFINE g == [k \in 0 .. 0 |-> v]
  <2>1. g = [k \in 0 .. 0 |-> IF k = 0 THEN v ELSE Part(g[k - 1], s[k])]
    BY SMT
  <2> HIDE DEF g
  <2>2. \E h : Downward(h, 0, v, s)
    BY <2>1 DEF Downward
  <2> QED
    BY <2>2
<1>2. ASSUME NEW m \in 0 .. n - 1, m \in S PROVE m + 1 \in S
  <2>1. PICK g : Downward(g, m, v, s)
    BY <1>2
  <2>2. /\ g[0] = v /\ 0 \in 0 .. m
        /\ \A k \in 1 .. m : g[k] = Part(g[k - 1], s[k])
    BY <2>1 DEF Downward
  <2> DEFINE h == [k \in 0 .. m + 1 |-> IF k = m + 1 THEN Part(g[m], s[m + 1]) ELSE g[k]]
  <2>3. /\ DOMAIN h = 0 .. m + 1 /\ h = [k \in 0 .. m + 1 |-> h[k]]
        /\ h[m + 1] = Part(g[m], s[m + 1])
        /\ \A k \in 0 .. m : h[k] = g[k]
    OBVIOUS
  <2> HIDE DEF h
  <2>4. ASSUME NEW k \in 0 .. m + 1
        PROVE  h[k] = IF k = 0 THEN v ELSE Part(h[k - 1], s[k])
    <3>1. CASE k = m + 1
      <4>1. k - 1 = m /\ m \in 0 .. m /\ k # 0
        BY <3>1
      <4> QED
        BY <2>3, <3>1, <4>1
    <3>2. CASE k = 0
      BY <2>2, <2>3, <3>2
    <3>3. CASE k \in 1 .. m
      <4>1. k - 1 \in 0 .. m /\ k \in 0 .. m /\ k # 0
        BY <3>3
      <4> QED
        BY <2>2, <2>3, <3>3, <4>1
    <3> QED
      BY <3>1, <3>2, <3>3
  <2>5. Downward(h, m + 1, v, s)
    BY <2>3, <2>4 DEF Downward
  <2> QED
    BY <2>5
<1> HIDE DEF S
<1>3. n \in S
  BY <1>1, <1>2, UpTo
<1> QED
  BY <1>3 DEF S

Backward(g, n, new, inside, s) ==
    g = [k \in 0 .. n |-> IF k = 0 THEN new
                          ELSE Changed(inside[n - k], s[n - k + 1], g[k - 1])]
LEMMA BackwardExists ==
    ASSUME NEW n \in Nat, NEW new, NEW inside, NEW s
    PROVE  \E g : Backward(g, n, new, inside, s)
<1> DEFINE F(k, x) == Changed(inside[n - k], s[n - k + 1], x)
           P(g, m) == g = [k \in 0 .. m |-> IF k = 0 THEN new ELSE F(k, g[k - 1])]
           S == {m \in 0 .. n : \E g : P(g, m)}
<1>1. 0 \in S
  <2> HIDE DEF F
  <2> DEFINE g == [k \in 0 .. 0 |-> new]
  <2>1. g = [k \in 0 .. 0 |-> IF k = 0 THEN new ELSE F(k, g[k - 1])]
    BY SMT
  <2> HIDE DEF g
  <2>2. \E h : P(h, 0)
    BY <2>1
  <2> QED
    BY <2>2
<1>2. ASSUME NEW m \in 0 .. n - 1, m \in S PROVE m + 1 \in S
  <2> HIDE DEF F
  <2>1. PICK g : P(g, m)
    BY <1>2
  <2>2. /\ g[0] = new /\ 0 \in 0 .. m
        /\ \A k \in 1 .. m : g[k] = F(k, g[k - 1])
    BY <2>1
  <2> DEFINE h == [k \in 0 .. m + 1 |-> IF k = m + 1 THEN F(m + 1, g[m]) ELSE g[k]]
  <2>3. /\ DOMAIN h = 0 .. m + 1 /\ h = [k \in 0 .. m + 1 |-> h[k]]
        /\ h[m + 1] = F(m + 1, g[m])
        /\ \A k \in 0 .. m : h[k] = g[k]
    OBVIOUS
  <2> HIDE DEF h
  <2>4. ASSUME NEW k \in 0 .. m + 1
        PROVE  h[k] = IF k = 0 THEN new ELSE F(k, h[k - 1])
    <3>1. CASE k = m + 1
      <4>1. k - 1 = m /\ m \in 0 .. m /\ k # 0
        BY <3>1
      <4> QED
        BY <2>3, <3>1, <4>1
    <3>2. CASE k = 0
      BY <2>2, <2>3, <3>2
    <3>3. CASE k \in 1 .. m
      <4>1. k - 1 \in 0 .. m /\ k \in 0 .. m /\ k # 0
        BY <3>3
      <4> QED
        BY <2>2, <2>3, <3>3, <4>1
    <3> QED
      BY <3>1, <3>2, <3>3
  <2>5. P(h, m + 1)
    BY <2>3, <2>4
  <2> QED
    BY <2>5
<1> HIDE DEF S
<1>3. n \in S
  BY <1>1, <1>2, UpTo
<1> QED
  BY <1>3 DEF S, Backward

\* A value with a part replaced that the selectors lead to.
LEMMA ReplacedOutcome ==
    ASSUME IInv, VInv, analysis.errors = {}, NEW e, NEW v, Valued(v, analysis.registry),
           NEW selectors, IsSequence(selectors), selectors # <<>>,
           NEW new, Valued(new, analysis.registry)
    PROVE  Outcomes(Replaced(e, v, selectors, new), analysis.registry)
<1> DEFINE n == Len(selectors)
           inside[k \in 0 .. n] ==
               IF k = 0 THEN v ELSE Part(inside[k - 1], selectors[k])
           outside[k \in 0 .. n] ==
               IF k = 0 THEN new
               ELSE Changed(inside[n - k], selectors[n - k + 1], outside[k - 1])
           parent == inside[n - 1]
           last == selectors[n]
           t == FieldContract(parent.name, last.text)
           r == analysis.registry
           stored == outside[n]
<1>1. Replaced(e, v, selectors, new) =
          IF IsError(parent) THEN parent
          ELSE IF parent.type = "object" /\ last.type = "string" THEN stored
          ELSE IF IsError(inside[n]) THEN inside[n]
          ELSE IF parent.type = "record" /\ ~HasType(t, new)
          THEN TypeError(e, t)
          ELSE stored
  BY DEF Replaced
<1>2. n \in Nat \ {0}
  BY SequenceFacts
<1> HIDE DEF n, outside
<1>3. Downward(inside, n, v, selectors)
  <2>1. \E g : Downward(g, n, v, selectors)
    BY <1>2, DownwardExists
  <2> QED
    BY <2>1 DEF Downward
<1> HIDE DEF inside
<1>4. Backward(outside, n, new, inside, selectors)
  <2>1. \E g : Backward(g, n, new, inside, selectors)
    BY <1>2, BackwardExists
  <2> QED
    BY <2>1 DEF Backward, outside
<1>5. inside[0] = v /\ \A k \in 1 .. n : inside[k] = Part(inside[k - 1], selectors[k])
  BY <1>2, <1>3 DEF Downward
<1>6. /\ outside[0] = new
      /\ \A k \in 1 .. n :
             outside[k] = Changed(inside[n - k], selectors[n - k + 1], outside[k - 1])
  BY <1>2, <1>4 DEF Backward
<1>7. \A k \in 0 .. n : Outcomes(inside[k], r)
  <2> DEFINE S == {k \in 0 .. n : Outcomes(inside[k], r)}
  <2>1. 0 \in S
    BY <1>2, <1>5 DEF Outcomes
  <2>2. ASSUME NEW k \in 0 .. n - 1, k \in S PROVE k + 1 \in S
    <3>1. k + 1 \in 1 .. n /\ k + 1 \in 0 .. n /\ (k + 1) - 1 = k
      BY <1>2
    <3>2. inside[k + 1] = Part(inside[k], selectors[k + 1])
      BY <1>5, <3>1
    <3>3. Outcomes(inside[k], r)
      BY <2>2
    <3>4. Outcomes(inside[k + 1], r)
      <4>1. CASE IsError(inside[k])
        BY <3>2, <3>3, <4>1 DEF Part
      <4>2. CASE ~IsError(inside[k])
        BY <3>2, <3>3, <4>2, PartFacts DEF Outcomes, Harmless
      <4> QED
        BY <4>1, <4>2
    <3> QED
      BY <3>1, <3>4
  <2> HIDE DEF S
  <2>3. \A k \in 0 .. n : k \in S
    BY <1>2, <2>1, <2>2, UpTo
  <2> QED
    BY <2>3 DEF S
<1>8. n - 1 \in 0 .. n /\ n \in 0 .. n /\ n \in 1 .. n /\ 1 \in 1 .. n
      /\ n - 1 + 1 = n /\ n - 0 = n
  BY <1>2
<1>9. SUFFICES ASSUME ~IsError(parent),
                      \/ parent.type = "object"
                      \/ ~IsError(inside[n]) /\ (parent.type = "record" => HasType(t, new))
               PROVE  Valued(stored, r)
  <2>1. Outcomes(parent, r) /\ Outcomes(inside[n], r)
    BY <1>7, <1>8
  <2>2. Harmless(TypeError(e, t))
    BY DEF TypeError, IsError, Harmless, Escapes
  <2> HIDE DEF parent, stored, t
  <2> QED
    BY <1>1, <2>1, <2>2 DEF Outcomes
\* No error on the way.
<1>10. \A k \in 0 .. n - 1 : ~IsError(inside[k])
  <2> DEFINE S == {j \in 0 .. n - 1 : ~IsError(inside[n - 1 - j])}
             l == n - 1
  <2>1. l \in Nat /\ 0 \in S
    <3>1. n - 1 - 0 = n - 1 /\ 0 \in 0 .. n - 1 /\ n - 1 \in Nat
      BY <1>2
    <3> QED
      BY <1>9, <3>1
  <2>2. ASSUME NEW j \in 0 .. l - 1, j \in S PROVE j + 1 \in S
    <3> DEFINE k == l - (j + 1)
    <3>1. /\ k \in 0 .. n - 1 /\ k + 1 \in 1 .. n /\ (k + 1) - 1 = k
          /\ k + 1 = n - 1 - j /\ k = n - 1 - (j + 1) /\ j + 1 \in 0 .. n - 1
      BY <1>2
    <3>2. ~IsError(inside[k + 1])
      <4>1. ~IsError(inside[n - 1 - j])
        BY <2>2
      <4> QED
        BY <3>1, <4>1
    <3>3. inside[k + 1] = Part(inside[k], selectors[k + 1])
      <4> HIDE DEF k
      <4> QED
        BY <1>5, <3>1
    <3> HIDE DEF k
    <3>4. ~IsError(inside[k])
      BY <3>2, <3>3 DEF Part
    <3>5. ~IsError(inside[n - 1 - (j + 1)])
      BY <3>1, <3>4
    <3> QED
      BY <3>1, <3>5
  <2> HIDE DEF S
  <2>3. \A j \in 0 .. l : j \in S
    <3> HIDE DEF l
    <3> QED
      BY <2>1, <2>2, UpTo
  <2>4. ASSUME NEW k \in 0 .. n - 1 PROVE ~IsError(inside[k])
    <3> DEFINE j == n - 1 - k
    <3>1. j \in 0 .. l /\ n - 1 - j = k
      BY <1>2
    <3>2. j \in S
      BY <2>3, <3>1
    <3> HIDE DEF j
    <3>3. ~IsError(inside[n - 1 - j])
      BY <3>2 DEF S
    <3> QED
      BY <3>1, <3>3
  <2> QED
    BY <2>4
\* Every value on the way back is of the type of the one it replaces.
<1> DEFINE Fits(k) == /\ Valued(outside[k], r)
                      /\ outside[k].type = inside[n - k].type
                      /\ inside[n - k].type = "record" =>
                             outside[k].name = inside[n - k].name
<1>11. Fits(1)
  <2>1. outside[1] = Changed(parent, last, new)
    <3>1. n - 1 + 1 = n /\ 1 - 1 = 0 /\ 1 \in 1 .. n
      BY <1>2
    <3>2. outside[1] = Changed(inside[n - 1], selectors[n - 1 + 1], outside[1 - 1])
      BY <1>6, <3>1
    <3> QED
      BY <1>6, <3>1, <3>2
  <2>2. Valued(parent, r) /\ inside[n] = Part(parent, last)
    BY <1>5, <1>7, <1>8, <1>9 DEF Outcomes, Harmless
  <2>3. \/ parent.type = "object"
        \/ /\ parent.type = "record" /\ last.text \in DOMAIN parent.fields
           /\ HasType(FieldType(r[parent.name], last.text), new)
        \/ parent.type = "array" /\ last.int + 1 \in DOMAIN parent.values
    <3>1. CASE parent.type = "object"
      BY <3>1
    <3>2. CASE parent.type # "object"
      <4>1. ~IsError(Part(parent, last)) /\ (parent.type = "record" => HasType(t, new))
        BY <1>9, <2>2, <3>2
      <4> DEFINE w == parent
      <4>2. Valued(w, r) /\ ~IsError(w) /\ ~IsError(Part(w, last))
        BY <1>9, <2>2, <4>1
      <4> HIDE DEF w, last
      <4>3. \/ w.type \in {"record", "object"} /\ last.text \in DOMAIN w.fields
            \/ w.type = "array" /\ last.int + 1 \in DOMAIN w.values
        BY <4>2, PartFacts
      <4>4. w.type = "record" => /\ w.name \in DOMAIN r
                                 /\ DOMAIN w.fields = FieldNames(r[w.name])
        BY <4>2, PartsValued DEF IsRecordOf
      <4>5. ASSUME w.type = "record", last.text \in DOMAIN w.fields
            PROVE  FieldContract(w.name, last.text) = FieldType(r[w.name], last.text)
        BY <4>4, <4>5, ContractFacts
      <4> QED
        BY <3>2, <4>1, <4>3, <4>5 DEF w
    <3> QED
      BY <3>1, <3>2
  <2> HIDE DEF parent, last, r
  <2>4. /\ Valued(Changed(parent, last, new), r)
        /\ Changed(parent, last, new).type = parent.type
        /\ parent.type = "record" => Changed(parent, last, new).name = parent.name
    <3>1. Valued(new, r)
      BY DEF r
    <3> QED
      BY <2>2, <2>3, <3>1, ChangedValued
  <2> QED
    BY <2>1, <2>4 DEF parent
<1>12. ASSUME NEW k \in 1 .. n - 1, Fits(k) PROVE Fits(k + 1)
  <2> DEFINE i == n - (k + 1)
             w == inside[i]
             s == selectors[i + 1]
             x == outside[k]
  <2>1. /\ i \in 0 .. n - 1 /\ i + 1 \in 1 .. n /\ (i + 1) - 1 = i /\ i + 1 = n - k
        /\ k + 1 \in 1 .. n /\ (k + 1) - 1 = k /\ i + 1 \in 0 .. n - 1 /\ i \in 0 .. n
    BY <1>2
  <2>2. outside[k + 1] = Changed(w, s, x)
    BY <1>6, <2>1
  <2>3. inside[i + 1] = Part(w, s) /\ ~IsError(inside[i + 1]) /\ ~IsError(w)
    <3> HIDE DEF i
    <3> QED
      BY <1>5, <1>10, <2>1
  <2>4. Valued(w, r)
    <3> HIDE DEF i
    <3> QED
      BY <1>7, <2>1, <2>3 DEF Outcomes, Harmless
  <2>5. /\ Valued(x, r) /\ x.type = Part(w, s).type
        /\ Part(w, s).type = "record" => x.name = Part(w, s).name
    <3> HIDE DEF i
    <3> QED
      BY <1>12, <2>1, <2>3
  <2> HIDE DEF w, s, x, r, i
  <2>6. \/ w.type \in {"record", "object"} /\ s.text \in DOMAIN w.fields
           /\ Part(w, s) = w.fields[s.text]
        \/ w.type = "array" /\ s.int + 1 \in DOMAIN w.values
    BY <2>3, <2>4, PartFacts
  <2>7. \/ w.type = "object"
        \/ /\ w.type = "record" /\ s.text \in DOMAIN w.fields
           /\ HasType(FieldType(r[w.name], s.text), x)
        \/ w.type = "array" /\ s.int + 1 \in DOMAIN w.values
    <3>1. CASE w.type = "record" /\ s.text \in DOMAIN w.fields
               /\ Part(w, s) = w.fields[s.text]
      <4>1. HasType(FieldType(r[w.name], s.text), Part(w, s))
        BY <2>4, <3>1, PartsValued DEF IsRecordOf
      <4>2. HasType(FieldType(r[w.name], s.text), x)
        BY <2>5, <4>1, SameType
      <4> QED
        BY <3>1, <4>2
    <3> QED
      BY <2>6, <3>1
  <2>8. /\ Valued(Changed(w, s, x), r) /\ Changed(w, s, x).type = w.type
        /\ w.type = "record" => Changed(w, s, x).name = w.name
    BY <2>4, <2>5, <2>7, ChangedValued
  <2> QED
    BY <2>2, <2>8 DEF w, i
<1>13. Fits(n)
  <2> DEFINE S == {j \in 0 .. n - 1 : Fits(j + 1)}
             l == n - 1
  <2>1. l \in Nat /\ 0 \in S
    <3>1. 0 + 1 = 1 /\ 0 \in 0 .. n - 1 /\ n - 1 \in Nat
      BY <1>2
    <3> HIDE DEF Fits
    <3> QED
      BY <1>11, <3>1
  <2>2. ASSUME NEW j \in 0 .. l - 1, j \in S PROVE j + 1 \in S
    <3> HIDE DEF Fits
    <3>1. j + 1 \in 1 .. n - 1 /\ j + 1 \in 0 .. n - 1 /\ Fits(j + 1)
      BY <1>2, <2>2
    <3>2. Fits((j + 1) + 1)
      BY <1>12, <3>1
    <3> QED
      BY <3>1, <3>2
  <2> HIDE DEF S
  <2>3. l \in S
    <3> HIDE DEF l
    <3>1. l \in 0 .. l
      BY <2>1
    <3> QED
      BY <2>1, <2>2, <3>1, UpTo
  <2> HIDE DEF Fits
  <2> QED
    BY <1>8, <2>3 DEF S
<1> QED
  BY <1>13

\* A binding with a new value of its type.
LEMMA BoundGood ==
    ASSUME IInv, VInv, NEW j, GoodNow(j), Shape(j), j.bindings = interp.bindings,
           NEW id \in 1 .. Len(interp.bindings),
           NEW x, Valued(x, analysis.registry),
           HasType(interp.bindings[id].annotation, x)
    PROVE  GoodNow([j EXCEPT !.bindings[id].value = <<x>>])
<1> DEFINE b == interp.bindings
           y == [b[id] EXCEPT !.value = <<x>>]
           c == [b EXCEPT ![id] = y]
           q == [j EXCEPT !.bindings = c]
           r == analysis.registry
<1>1. [j EXCEPT !.bindings[id].value = <<x>>] = q
  BY DEF Shape
<1>2. /\ q.bindings = c /\ q.functions = j.functions /\ q.operands = j.operands
      /\ q.control = j.control
  BY DEF Shape
<1>3. IsSequence(b) /\ DOMAIN b = 1 .. Len(b)
  BY GivenFacts, SequenceFacts DEF Machine, Base
<1>4. \A k \in DOMAIN b : Bound(b[k], r)
  BY DEF VInv, Good
<1>5. AllValued(<<x>>, r)
  <2>1. IsSequence(<<x>>) /\ Len(<<x>>) = 1 /\ <<x>>[1] = x
    BY SingleFacts
  <2>2. DOMAIN <<x>> = {1}
    BY <2>1, SequenceFacts
  <2> QED
    BY <2>1, <2>2 DEF AllValued
<1>6. Bound(y, r)
  <2>1. Bound(b[id], r)
    BY <1>3, <1>4
  <2>2. /\ DOMAIN y = {"value", "annotation", "mutable"} /\ y.value = <<x>>
        /\ y.annotation = b[id].annotation
    BY <2>1 DEF Bound
  <2>3. DOMAIN <<x>> = {1} /\ <<x>>[1] = x
    OBVIOUS
  <2> HIDE DEF y
  <2> QED
    BY <1>5, <2>2, <2>3 DEF Bound
<1> HIDE DEF y
<1>7. /\ DOMAIN c = DOMAIN b /\ IsSequence(c) /\ Len(c) = Len(b)
      /\ \A k \in DOMAIN c : Bound(c[k], r)
  <2>1. IsSequence(c) /\ Len(c) = Len(b)
    BY <1>3, ExceptSequence, SMTT(30)
  <2>2. DOMAIN c = DOMAIN b /\ \A k \in DOMAIN b : c[k] = IF k = id THEN y ELSE b[k]
    OBVIOUS
  <2> HIDE DEF c
  <2> QED
    BY <1>4, <1>6, <2>1, <2>2
<1> HIDE DEF q, c
<1>8. GoodNow(q)
  BY <1>2, <1>7 DEF GoodNow, Good
<1> QED
  BY <1>1, <1>8

LEMMA StoreOutcome ==
    ASSUME IInv, VInv, interp.control # <<>>, Top.task = "store"
    PROVE  Outcomes(IF Top.place.selectors = <<>> THEN Operand
                    ELSE Replaced(Top.expr.value, Top.root, Top.place.selectors, Operand),
                    analysis.registry)
<1> DEFINE selectors == Top.place.selectors
           r == analysis.registry
<1>1. Valued(Operand, r) /\ SaneNow(Top) /\ analysis.errors = {}
  BY UsesFacts, OperandFacts, TopFacts
<1>2. IsSequence(selectors) /\ (selectors = <<>> \/ Valued(Top.root, r))
  BY <1>1 DEF SaneNow, Sane
<1>3. CASE selectors = <<>>
  BY <1>1, <1>3 DEF Outcomes
<1>4. CASE selectors # <<>>
  <2>1. Outcomes(Replaced(Top.expr.value, Top.root, selectors, Operand), r)
    BY <1>1, <1>2, <1>4, ReplacedOutcome
  <2> QED
    BY <1>4, <2>1
<1> QED
  BY <1>3, <1>4

LEMMA StoreGood == ASSUME IInv, VInv, Store PROVE VInv'
<1> DEFINE e == Top.expr
           id == Top.place.slot
           selectors == Top.place.selectors
           t == interp.bindings[id].annotation
           r == analysis.registry
           roots == IF selectors = <<>> THEN Operand
                    ELSE Replaced(e.value, Top.root, selectors, Operand)
           next(root) == IF IsError(root) THEN root
                         ELSE IF ~HasType(t, root) THEN TypeError(e.value, t)
                         ELSE [Close(1, Operand)
                                   EXCEPT !.bindings[id].value = <<root>>]
<1>1. interp.control # <<>> /\ Top.task = "store" /\ Step(0, next(roots))
  BY DEF Store, Doing
<1>2. 1 = Uses(Top) /\ Gives(Top) = 1
  BY <1>1, UsesFacts
<1>3. Valued(Operand, r) /\ SaneNow(Top) /\ analysis.errors = {}
  BY <1>1, <1>2, OperandFacts, TopFacts
<1>4. id \in 1 .. Len(interp.bindings)
  BY <1>1, <1>3 DEF SaneNow, Sane
<1>5. Outcomes(roots, r)
  BY <1>1, StoreOutcome
<1> DEFINE j == Close(1, Operand)
           root == roots
<1>6. GoodNow(j)
  BY <1>1, <1>2, <1>3, CloseGood
<1>7. Shape(j) /\ j.bindings = interp.bindings
  BY GivenFacts DEF Close, Shape
<1> HIDE DEF j, root, id
<1>8. ASSUME ~IsError(root), HasType(t, root)
      PROVE  GoodNow([j EXCEPT !.bindings[id].value = <<root>>])
  <2>1. Valued(root, r)
    BY <1>5, <1>8 DEF root, Outcomes, Harmless
  <2> QED
    BY <1>4, <1>6, <1>7, <1>8, <2>1, BoundGood
<1>9. ~IsError(next(root)) => GoodNow(next(root))
  <2>1. IsError(TypeError(e.value, t))
    BY DEF TypeError, IsError
  <2> QED
    BY <1>8, <2>1 DEF j
<1>10. Step(0, next(root))
  BY <1>1 DEF root
<1> HIDE DEF next
<1> QED
  BY <1>1, <1>9, <1>10, TaskGood

----------------------------------------------------------------------------
(* Bodies *)

\* The slots of what a body declares are those that follow.
LEMMA DeclaredRange ==
    ASSUME NEW body, IsSequence(body), NEW declared \in SUBSET DOMAIN body,
           NEW n \in Nat, NEW k \in declared
    PROVE  n + Cardinality({j \in declared : j <= k}) \in 1 .. n + Cardinality(declared)
<1> DEFINE S == {j \in declared : j <= k}
<1>1. DOMAIN body = 1 .. Len(body) /\ Len(body) \in Nat
  BY SequenceFacts
<1>2. IsFiniteSet(1 .. Len(body)) /\ declared \subseteq 1 .. Len(body)
  BY <1>1, FS_Interval
<1>3. IsFiniteSet(declared)
  BY <1>2, FS_Subset
<1>4. Cardinality(declared) \in Nat
  BY <1>3, FS_CardinalityType
<1>5. Cardinality(S) \in Nat /\ Cardinality(S) <= Cardinality(declared)
  <2>1. S \subseteq declared
    OBVIOUS
  <2> HIDE DEF S
  <2> QED
    BY <1>3, <2>1, FS_Subset, FS_CardinalityType
<1>6. n + Cardinality(S) \in Nat /\ n + Cardinality(S) > n
  BY <1>1, DeclaredSlots
<1> HIDE DEF S
<1>7. n + Cardinality(S) \in 1 .. n + Cardinality(declared)
  BY <1>4, <1>5, <1>6
<1> QED
  BY <1>7 DEF S

\* A body may begin in front of a body, a loop or a frame.
LEMMA BeginGood ==
    ASSUME IInv, NEW r, NEW i, Shape(i), IsSequence(i.bindings),
           \A k \in DOMAIN i.bindings : Bound(i.bindings[k], r),
           AllValued(i.operands, r),
           \A id \in DOMAIN i.functions :
               /\ Scoped(i.functions[id].closure, Len(i.bindings))
               /\ IsSequence(i.functions[id].parameters),
           NEW body \in Setting.parts.bodies, NEW env, Scoped(env, Len(i.bindings)),
           NEW rest, Runs(rest, Len(i.operands), Len(i.bindings), r),
           rest # <<>>, rest[1].task \in Bodies \cup Frames
    PROVE  Good(Begin(i, body, env, rest), r)
<1> DEFINE lets == {k \in DOMAIN body : body[k].kind = "Let"}
           functions == {k \in DOMAIN body : body[k].kind = "Function"}
           declared == lets \cup functions
           slot(k) == Len(i.bindings) + Cardinality({j \in declared : j <= k})
           scope(ks) == [x \in {body[k].name : k \in ks} |->
                            slot(Max({k \in ks : body[k].name = x}))]
           visible == Extend(env, scope(functions))
           closure(k) == Extend(visible, scope(Earlier(body, k)))
           binding(k) ==
               IF k \in lets
               THEN Binding(<<>>, TypeOf(analysis, body[k].annotation), TRUE)
               ELSE Binding(<<FunctionValue(slot(k))>>, NoType, FALSE)
           function(k) ==
               [name |-> body[k].name, parameters |-> body[k].parameters,
                returns |-> TypeOf(analysis, body[k].annotation),
                body |-> body[k].body, closure |-> closure(k)]
           at(ks, id) == CHOOSE k \in ks : slot(k) = id
           bs == [n \in 1 .. Cardinality(declared) |->
                     binding(at(declared, Len(i.bindings) + n))]
           fs == [id \in {slot(k) : k \in functions} |-> function(at(functions, id))]
           todo == [k \in DOMAIN body |-> [statement |-> body[k], slot |-> slot(k)]]
           t == [task |-> "statements", env |-> visible, todo |-> todo]
           j == Begin(i, body, env, rest)
           n0 == Len(i.bindings)
           m == n0 + Cardinality(declared)
<1>1. j = [i EXCEPT !.bindings = @ \o bs, !.functions = Merged(@, fs),
                    !.control = <<t>> \o rest]
  BY DEF Begin
<1>2. /\ IsSequence(body) /\ DOMAIN body = 1 .. Len(body) /\ Len(body) \in Nat
      /\ \A k \in DOMAIN body : IsStatement(body[k], Setting.parts)
  BY TreeFacts, SequenceFacts
<1>3. n0 \in Nat
  BY SequenceFacts
<1>4. Cardinality(declared) \in Nat
  <2>1. declared \subseteq DOMAIN body
    OBVIOUS
  <2> HIDE DEF declared
  <2>2. declared \subseteq 1 .. Len(body)
    BY <1>2, <2>1
  <2>3. IsFiniteSet(1 .. Len(body))
    BY <1>2, FS_Interval
  <2> QED
    BY <2>2, <2>3, FS_Subset, FS_CardinalityType
<1>5. m \in Nat /\ n0 <= m
  BY <1>3, <1>4
<1>6. \A k \in declared : slot(k) \in 1 .. m
  <2>1. declared \in SUBSET DOMAIN body
    OBVIOUS
  <2> HIDE DEF declared
  <2> QED
    BY <1>2, <1>3, <2>1, DeclaredRange
<1>7. ASSUME NEW ks, ks \subseteq declared
      PROVE  \A x \in DOMAIN scope(ks) : scope(ks)[x] \in 1 .. m
  <2>1. ASSUME NEW x \in DOMAIN scope(ks) PROVE scope(ks)[x] \in 1 .. m
    <3> DEFINE K == {k \in ks : body[k].name = x}
    <3>1. K # {} /\ scope(ks)[x] = slot(Max(K))
      <4> HIDE DEF slot
      <4> QED
        BY <2>1
    <3>2. K \in SUBSET (0 .. Len(body)) /\ Len(body) \in Nat
      BY <1>2, <1>7
    <3>3. Max(K) \in K
      <4> HIDE DEF K
      <4> QED
        BY <3>1, <3>2, MaxFacts
    <3>4. Max(K) \in declared
      BY <1>7, <3>3
    <3> HIDE DEF slot, scope, declared, K
    <3> QED
      BY <1>6, <3>1, <3>4
  <2> QED
    BY <2>1
<1>8. Scoped(visible, m)
  <2> DEFINE s == scope(functions)
  <2>1. \A x \in DOMAIN s : s[x] \in 1 .. m
    BY <1>7
  <2> HIDE DEF s, scope
  <2>2. Scoped(env, m)
    BY <1>3, <1>5, ScopedWider
  <2> HIDE DEF m
  <2>3. Scoped(Extend(env, s), m)
    BY <2>1, <2>2, ScopedMore
  <2> QED
    BY <2>3 DEF s
<1>9. ASSUME NEW k \in DOMAIN body PROVE Scoped(closure(k), m)
  <2> DEFINE s == scope(Earlier(body, k))
  <2>1. Earlier(body, k) \subseteq declared
    BY <1>2, SMTT(30) DEF Earlier
  <2>2. \A x \in DOMAIN s : s[x] \in 1 .. m
    BY <1>7, <2>1
  <2> HIDE DEF s, scope, visible, m
  <2>3. Scoped(Extend(visible, s), m)
    BY <1>8, <2>2, ScopedMore
  <2> QED
    BY <2>3 DEF s
<1>10. /\ IsSequence(bs) /\ Len(bs) = Cardinality(declared)
       /\ \A k \in DOMAIN bs : Bound(bs[k], r)
  <2> DEFINE n == Cardinality(declared)
  <2>1. \A k : Bound(binding(k), r)
    <3>1. AllValued(<<>>, r) /\ DOMAIN <<>> = {}
      BY EmptyFacts DEF AllValued
    <3>2. \A id : AllValued(<<FunctionValue(id)>>, r)
      <4>1. ASSUME NEW id PROVE AllValued(<<FunctionValue(id)>>, r)
        <5> DEFINE x == FunctionValue(id)
        <5>1. Valued(x, r)
          BY GivenValued
        <5> HIDE DEF x
        <5>2. IsSequence(<<x>>) /\ DOMAIN <<x>> = {1} /\ <<x>>[1] = x
          BY SingleFacts
        <5>3. AllValued(<<x>>, r)
          BY <5>1, <5>2 DEF AllValued
        <5> QED
          BY <5>3 DEF x
      <4> QED
        BY <4>1
    <3>3. ASSUME NEW k PROVE Bound(binding(k), r)
      <4>1. Bound(Binding(<<>>, TypeOf(analysis, body[k].annotation), TRUE), r)
        BY <3>1 DEF Bound, Binding
      <4> DEFINE s == <<FunctionValue(slot(k))>>
      <4>2. AllValued(s, r)
        BY <3>2
      <4> HIDE DEF slot, s
      <4>3. \A v : HasType(NoType, v)
        BY DEF HasType, NoType, PrimitiveTypes
      <4>4. Bound(Binding(s, NoType, FALSE), r)
        <5> DEFINE b == Binding(s, NoType, FALSE)
        <5>1. /\ DOMAIN b = {"value", "annotation", "mutable"} /\ b.value = s
              /\ b.annotation = NoType
          BY DEF Binding
        <5> HIDE DEF b
        <5> QED
          BY <4>2, <4>3, <5>1 DEF Bound, b
      <4> HIDE DEF lets
      <4> QED
        BY <4>1, <4>4 DEF s
    <3> QED
      BY <3>3
  <2> HIDE DEF binding, at, declared
  <2>2. DOMAIN bs = 1 .. n /\ bs = [k \in DOMAIN bs |-> bs[k]]
        /\ \A k \in DOMAIN bs : bs[k] = binding(at(declared, Len(i.bindings) + k))
    OBVIOUS
  <2> HIDE DEF bs, n
  <2>3. IsSequence(bs) /\ Len(bs) = n
    BY <1>4, <2>2, FunctionSequence DEF n
  <2> QED
    BY <2>1, <2>2, <2>3 DEF n
<1>11. \A id \in DOMAIN fs : /\ Scoped(fs[id].closure, m)
                             /\ IsSequence(fs[id].parameters)
  <2>1. ASSUME NEW id \in DOMAIN fs
        PROVE  Scoped(fs[id].closure, m) /\ IsSequence(fs[id].parameters)
    <3> DEFINE k == at(functions, id)
    <3>1. k \in functions
      <4> HIDE DEF slot
      <4> QED
        BY <2>1
    <3>2. fs[id] = function(k)
      <4> HIDE DEF slot, k, function
      <4> QED
        BY <2>1, SMTT(30) DEF k
    <3> HIDE DEF k, closure
    <3>3. fs[id].closure = closure(k) /\ fs[id].parameters = body[k].parameters
      BY <3>2
    <3>4. body[k].kind = "Function" /\ k \in DOMAIN body
      BY <3>1
    <3>5. IsSequence(body[k].parameters)
      BY <1>2, <3>4 DEF IsStatement
    <3> HIDE DEF fs, m
    <3> QED
      BY <1>9, <3>3, <3>4, <3>5
  <2> QED
    BY <2>1
<1>12. Sane(t, m, r) /\ t.task = "statements"
  <2>1. t.task = "statements" /\ t.todo = todo /\ t.env = visible
    <3> HIDE DEF todo, visible
    <3> QED
      OBVIOUS
  <2>2. DOMAIN todo = DOMAIN body
        /\ \A k \in DOMAIN body : /\ todo[k].statement = body[k]
                                  /\ todo[k].slot = slot(k)
    <3> HIDE DEF slot
    <3> QED
      OBVIOUS
  <2>3. \A k \in DOMAIN body : body[k].kind = "Let" => k \in declared
    OBVIOUS
  <2> HIDE DEF todo, t, slot, declared, visible, m
  <2>4. \A k \in DOMAIN t.todo :
            t.todo[k].statement.kind = "Let" => t.todo[k].slot \in 1 .. m
    BY <1>6, <2>1, <2>2, <2>3
  <2> QED
    BY <1>8, <2>1, <2>4 DEF Sane
<1> HIDE DEF t, fs, bs, lets, functions, declared, slot, j, m
<1> DEFINE n == Len(i.operands)
           c == <<t>> \o rest
<1>13. Runs(c, n, m, r)
  <2>1. Runs(rest, n, m, r) /\ n \in Nat /\ IsSequence(rest)
    <3>1. n \in Nat /\ n <= n /\ IsSequence(rest)
      BY RunsNext, SequenceFacts DEF AllValued
    <3> HIDE DEF n
    <3> QED
      BY <1>3, <1>5, <3>1, RunsWider DEF n
  <2>2. Uses(t) = 0 /\ Gives(t) = 0 /\ Fit(t, rest)
    BY <1>12, UsesFacts DEF Fit
  <2>3. Uses(t) \in 0 .. n /\ n - Uses(t) + Gives(t) = n
    BY <2>1, <2>2
  <2> HIDE DEF n
  <2> QED
    BY <1>12, <2>1, <2>2, <2>3, RunsMore
<1> HIDE DEF c
<1>14. /\ j.bindings = i.bindings \o bs /\ j.functions = Merged(i.functions, fs)
       /\ j.control = c /\ j.operands = i.operands
  BY <1>1 DEF Shape, c
<1> DEFINE b == i.bindings
<1>15. /\ Len(b \o bs) = m /\ \A k \in DOMAIN (b \o bs) : Bound((b \o bs)[k], r)
  <2> DEFINE d == b \o bs
  <2>1. /\ IsSequence(d) /\ Len(d) = Len(b) + Len(bs)
        /\ \A k \in 1 .. Len(b) : d[k] = b[k]
        /\ \A k \in 1 .. Len(bs) : d[Len(b) + k] = bs[k]
    <3> HIDE DEF b
    <3>1. IsSequence(b) /\ IsSequence(bs)
      BY <1>10 DEF b
    <3>2. /\ IsSequence(b \o bs) /\ Len(b \o bs) = Len(b) + Len(bs)
          /\ \A k \in 1 .. Len(b) : (b \o bs)[k] = b[k]
          /\ \A k \in 1 .. Len(bs) : (b \o bs)[Len(b) + k] = bs[k]
      BY <3>1, ConcatFacts
    <3> QED
      BY <3>2
  <2>2. /\ DOMAIN d = 1 .. Len(b) + Len(bs) /\ Len(b) \in Nat /\ Len(bs) \in Nat
        /\ DOMAIN b = 1 .. Len(b) /\ DOMAIN bs = 1 .. Len(bs)
    BY <1>10, <2>1, SequenceFacts
  <2> HIDE DEF d, b
  <2>3. ASSUME NEW k \in DOMAIN d PROVE Bound(d[k], r)
    <3>1. CASE k \in 1 .. Len(b)
      BY <2>1, <2>2, <3>1 DEF b
    <3>2. CASE k \notin 1 .. Len(b)
      <4>1. k - Len(b) \in 1 .. Len(bs) /\ Len(b) + (k - Len(b)) = k
        BY <2>2, <3>2
      <4>2. d[k] = bs[k - Len(b)] /\ k - Len(b) \in DOMAIN bs
        BY <2>1, <2>2, <4>1
      <4> QED
        BY <1>10, <4>2
    <3> QED
      BY <3>1, <3>2
  <2>4. Len(d) = m
    BY <1>10, <2>1 DEF m, b
  <2> QED
    BY <2>3, <2>4 DEF d
<1> DEFINE f == i.functions
<1>16. \A id \in DOMAIN Merged(f, fs) :
           /\ Scoped(Merged(f, fs)[id].closure, m)
           /\ IsSequence(Merged(f, fs)[id].parameters)
  <2>1. \A id \in DOMAIN f : Scoped(f[id].closure, m) /\ IsSequence(f[id].parameters)
    BY <1>3, <1>5, ScopedWider
  <2> HIDE DEF f
  <2>2. /\ DOMAIN Merged(f, fs) = DOMAIN f \cup DOMAIN fs
        /\ \A id \in DOMAIN f : Merged(f, fs)[id] = f[id]
        /\ \A id \in DOMAIN fs \ DOMAIN f : Merged(f, fs)[id] = fs[id]
    BY DEF Merged
  <2> QED
    BY <1>11, <2>1, <2>2
<1> HIDE DEF b, f, n
<1>17. Good(j, r)
  BY <1>13, <1>14, <1>15, <1>16 DEF Good, b, f, n
<1> QED
  BY <1>17 DEF j

----------------------------------------------------------------------------
(* Statements *)

\* A statement's tasks stand in front of a body, a loop or a frame.
Behind(c) == c # <<>> /\ c[1].task \in Bodies \cup Frames
LEMMA StatementFit ==
    ASSUME NEW t, NEW c, Behind(c)
    PROVE  Fit(t, c)
  BY DEF Fit, Behind

\* The statements that follow the current one.
LEMMA ContinuingGood ==
    ASSUME IInv, VInv, interp.control # <<>>, Top.task = "statements", Top.todo # <<>>
    PROVE  LET c == Continuing \o Rest
           IN  /\ analysis.errors = {} /\ Left \in Nat /\ ScopedNow(Top.env)
               /\ Now(c, Left) /\ IsSequence(c) /\ Behind(c)
               /\ IsSequence(Continuing) /\ IsSequence(Rest)
               /\ IsStatement(Current, Setting.parts)
               /\ Current.kind = "Let" =>
                      Head(Top.todo).slot \in 1 .. Len(interp.bindings)
<1> DEFINE todo == Top.todo
           t == [Top EXCEPT !.todo = Tail(@)]
           c == Continuing \o Rest
           m == Len(interp.bindings)
<1>1. /\ analysis.errors = {} /\ Left \in Nat /\ ScopedNow(Top.env) /\ SaneNow(Top)
      /\ Fit(Top, Rest) /\ IsSequence(Rest) /\ Now(Rest, Left - 0 + 0)
  <2>1. Uses(Top) = 0 /\ Gives(Top) = 0 /\ Top.task \in Seeing
    BY UsesFacts DEF Seeing
  <2> QED
    BY <2>1, TopFacts
<1>2. /\ IsSequence(Continuing) /\ IsSequence(c) /\ Follows(c, "statements")
      /\ IsStatement(Current, Setting.parts)
  BY ContinuingFacts
<1>3. /\ DOMAIN Top = {"task", "env", "todo"} /\ IsSequence(todo)
  BY NextTask DEF HeldBy, Holds
<1>4. /\ \A k \in DOMAIN todo :
             todo[k].statement.kind = "Let" => todo[k].slot \in 1 .. m
  BY <1>1 DEF SaneNow, Sane
<1>5. /\ t.task = "statements" /\ t.env = Top.env /\ t.todo = Tail(todo)
      /\ Continuing = <<t>>
  BY <1>3 DEF Continuing
<1>6. /\ Head(todo) = todo[1] /\ 1 \in DOMAIN todo
      /\ \A k \in DOMAIN Tail(todo) :
             /\ k + 1 \in DOMAIN todo /\ Tail(todo)[k] = todo[k + 1]
  <2> HIDE DEF todo
  <2>1. todo # <<>>
    BY DEF todo
  <2>2. /\ Head(todo) = todo[1] /\ Len(todo) \in Nat \ {0}
        /\ DOMAIN todo = 1 .. Len(todo)
    BY <1>3, <2>1, SequenceFacts
  <2>3. /\ IsSequence(Tail(todo)) /\ Len(Tail(todo)) = Len(todo) - 1
        /\ \A k \in 1 .. Len(todo) - 1 : Tail(todo)[k] = todo[k + 1]
    BY <1>3, <2>1, TailFacts
  <2>4. DOMAIN Tail(todo) = 1 .. Len(todo) - 1
    BY <2>3, SequenceFacts
  <2> QED
    BY <2>2, <2>3, <2>4
<1> HIDE DEF t
<1>7. SaneNow(t)
  BY <1>1, <1>4, <1>5, <1>6 DEF SaneNow, Sane, ScopedNow
<1>8. Fit(t, Rest) /\ Uses(t) = 0 /\ Gives(t) = 0
  BY <1>1, <1>5, UsesFacts DEF Fit
<1>9. Now(<<t>> \o Rest, Left)
  <2>1. Uses(t) \in 0 .. Left /\ Left - Uses(t) + Gives(t) = Left - 0 + 0
    BY <1>1, <1>8
  <2> QED
    BY <1>1, <1>7, <1>8, <2>1, NowMore
<1>10. Now(c, Left)
  BY <1>5, <1>9
<1>11. Behind(c)
  BY <1>2 DEF Follows, Behind, Bodies
<1>12. Current.kind = "Let" => Head(todo).slot \in 1 .. m
  BY <1>4, <1>6 DEF Current
<1> QED
  BY <1>1, <1>2, <1>10, <1>11, <1>12

LEMMA Regroup ==
    ASSUME NEW a, IsSequence(a), NEW b, IsSequence(b), NEW c, IsSequence(c)
    PROVE  a \o (b \o c) = (a \o b) \o c
BY ConcatAssociative3

LEMMA RegroupTask ==
    ASSUME NEW t, NEW b, IsSequence(b), NEW c, IsSequence(c)
    PROVE  <<t>> \o (b \o c) = (<<t>> \o b) \o c
<1> DEFINE a == <<t>>
<1>1. IsSequence(a)
  BY SingleFacts
<1> HIDE DEF a
<1>2. a \o (b \o c) = (a \o b) \o c
  BY <1>1, Regroup
<1> QED
  BY <1>2 DEF a

LEMMA SubjectGood == ASSUME IInv, VInv, ExecuteStatement PROVE VInv'
<1> DEFINE s == Current
           env == Top.env
           e == Subject(s)
           x == Head(Top.todo).slot
           t == [task |-> s.kind, statement |-> s, env |-> env, slot |-> x]
           c == Continuing \o Rest
           p == <<Evaluate(e, env), t>>
           tasks == p \o Continuing
           next == Push(tasks)
<1>1. /\ Step(1, next) /\ interp.control # <<>> /\ Top.task = "statements"
      /\ Top.todo # <<>>
      /\ s.kind \in {"Let", "Expression", "Match", "If", "For", "Parallel"}
  BY DEF ExecuteStatement, NextStatement, Doing
<1>2. /\ Left \in Nat /\ ScopedNow(env) /\ Now(c, Left) /\ IsSequence(c)
      /\ Behind(c) /\ IsSequence(Continuing) /\ IsSequence(Rest)
      /\ s.kind = "Let" => x \in 1 .. Len(interp.bindings)
  BY <1>1, ContinuingGood
<1>3. t.task = s.kind /\ t.env = env /\ t.slot = x
  OBVIOUS
<1> HIDE DEF t, env, x, s
<1>4. SaneNow(t) /\ Fit(t, c) /\ Uses(t) = 1 /\ Gives(t) = 0
  <2>1. SaneNow(t)
    BY <1>1, <1>2, <1>3 DEF SaneNow, Sane, ScopedNow
  <2> QED
    BY <1>1, <1>2, <1>3, <2>1, UsesFacts, StatementFit
<1>5. Left + Gives(t) = Left
  BY <1>2, <1>4
<1>6. Now(p \o c, Left)
  <2> HIDE DEF c
  <2> QED
    BY <1>2, <1>4, <1>5, ThenNow
<1>7. p \o c = tasks \o Rest
  <2>1. IsSequence(p)
    <3> DEFINE a == Evaluate(e, env)
    <3> HIDE DEF a
    <3>1. IsSequence(<<t>>) /\ IsSequence(<<a>> \o <<t>>)
      BY SingleFacts, ConsFacts
    <3>2. <<a, t>> = <<a>> \o <<t>>
      OBVIOUS
    <3> QED
      BY <3>1, <3>2 DEF a
  <2> DEFINE k == Continuing
  <2>2. IsSequence(k)
    BY <1>2
  <2> HIDE DEF p, k
  <2>3. p \o (k \o Rest) = (p \o k) \o Rest
    BY <1>2, <2>1, <2>2, Regroup, SMTT(30)
  <2> QED
    BY <2>3 DEF k
<1> HIDE DEF tasks
<1>8. GoodNow(next)
  BY <1>6, <1>7, PushGood
<1> HIDE DEF next
<1> QED
  BY <1>1, <1>8, TaskGood

LEMMA ReturnGood == ASSUME IInv, VInv, ExecuteReturn PROVE VInv'
<1> DEFINE s == Current
           env == Top.env
           e == Subject(s)
           t == [task |-> "Return", statement |-> s]
           c == Continuing \o Rest
           bare == <<t>> \o Continuing
           p == <<Evaluate(e, env)>>
           vs == <<NullValue>> \o interp.operands
           first == [Push(bare) EXCEPT !.operands = <<NullValue>> \o @]
           q == (p \o <<t>>) \o Continuing
           next == IF s.result = <<>> THEN first ELSE Push(q)
           r == analysis.registry
<1>1. /\ Step(1, next) /\ interp.control # <<>> /\ Top.task = "statements"
      /\ Top.todo # <<>>
  BY DEF ExecuteReturn, NextStatement, Doing
<1>2. /\ Left \in Nat /\ ScopedNow(env) /\ Now(c, Left) /\ IsSequence(c)
      /\ Behind(c) /\ IsSequence(Continuing) /\ IsSequence(Rest)
  BY <1>1, ContinuingGood
<1>3. t.task = "Return"
  OBVIOUS
<1> HIDE DEF t, env
<1>4. SaneNow(t) /\ Fit(t, c) /\ Uses(t) = 1 /\ Gives(t) = 0
  <2>1. SaneNow(t)
    BY <1>3 DEF SaneNow, Sane, Seeing, Composite
  <2> QED
    BY <1>2, <1>3, <2>1, UsesFacts, StatementFit
<1>5. Now(<<t>> \o c, Left + 1)
  <2> DEFINE n == Left + 1
  <2>1. n \in Nat /\ Uses(t) \in 0 .. n /\ n - Uses(t) + Gives(t) = Left
    BY <1>2, <1>4
  <2> HIDE DEF n, c
  <2>2. Now(<<t>> \o c, n)
    BY <1>2, <1>4, <2>1, NowMore
  <2> QED
    BY <2>2 DEF n
<1>6. <<t>> \o c = bare \o Rest
  <2> DEFINE k == Continuing
  <2>1. IsSequence(k)
    BY <1>2
  <2> HIDE DEF k
  <2>2. <<t>> \o (k \o Rest) = (<<t>> \o k) \o Rest
    BY <1>2, <2>1, RegroupTask
  <2> QED
    BY <2>2 DEF k
<1>7. GoodNow(first)
  <2>1. /\ first.bindings = interp.bindings /\ first.functions = interp.functions
        /\ first.operands = vs /\ first.control = bare \o Rest
    <3> HIDE DEF bare
    <3> QED
      BY GivenFacts DEF Push, Shape
  <2>2. AllValued(interp.operands, r) /\ Valued(NullValue, r)
    BY GivenValued DEF VInv, Good
  <2>3. AllValued(vs, r) /\ Len(vs) = 1 + Left
    <3> HIDE DEF r
    <3> QED
      BY <2>2, ValuedSequences DEF Left
  <2>4. 1 + Left = Left + 1
    BY <1>2
  <2>5. Now(first.control, Len(first.operands))
    BY <1>5, <1>6, <2>1, <2>3, <2>4
  <2> HIDE DEF first
  <2> QED
    BY <2>1, <2>3, <2>5, GoodMoved
<1>8. GoodNow(Push(q))
  <2> DEFINE d == <<t>> \o c
  <2>1. Now(p \o d, Left)
    <3> HIDE DEF d
    <3>1. Now(d, Left + 1)
      BY <1>5 DEF d
    <3> QED
      BY <1>2, <3>1, EvaluateNow
  <2>2. p \o d = q \o Rest
    <3> DEFINE u == <<t>>
    <3>1. IsSequence(p) /\ IsSequence(u)
      BY SingleFacts
    <3>2. p \o d = p \o (u \o c) /\ q = (p \o u) \o Continuing
      OBVIOUS
    <3> DEFINE k == Continuing
               pu == p \o u
    <3>0. IsSequence(k) /\ c = k \o Rest /\ q = pu \o k
      BY <1>2
    <3> HIDE DEF p, u, d, q, k, c
    <3>3. IsSequence(pu)
      BY <3>1, ConcatFacts
    <3>4. p \o (u \o c) = pu \o c
      BY <1>2, <3>1, Regroup, SMTT(30)
    <3> HIDE DEF pu
    <3>5. pu \o (k \o Rest) = (pu \o k) \o Rest
      BY <1>2, <3>0, <3>3, Regroup, SMTT(30)
    <3> QED
      BY <3>0, <3>2, <3>4, <3>5
  <2> HIDE DEF p, d, q
  <2> QED
    BY <2>1, <2>2, PushGood
<1> HIDE DEF first, q
<1>9. GoodNow(next)
  BY <1>7, <1>8
<1> HIDE DEF next
<1> QED
  BY <1>1, <1>9, TaskGood

\* A body that begins without other changes than operands taken away.
LEMMA ScopeGood ==
    ASSUME IInv, VInv, NEW i, Shape(i), i.bindings = interp.bindings,
           i.functions = interp.functions, AllValued(i.operands, analysis.registry),
           NEW body \in Setting.parts.bodies, NEW env, ScopedNow(env),
           NEW rest, Now(rest, Len(i.operands)), Behind(rest)
    PROVE  GoodNow(Scope(i, body, env, rest))
<1> DEFINE r == analysis.registry
           w == Append(env, NoScope)
<1>1. /\ IsSequence(i.bindings)
      /\ \A k \in DOMAIN i.bindings : Bound(i.bindings[k], r)
      /\ \A id \in DOMAIN i.functions :
             /\ Scoped(i.functions[id].closure, Len(i.bindings))
             /\ IsSequence(i.functions[id].parameters)
  BY GivenFacts DEF Machine, Base, VInv, Good
<1>2. Scoped(w, Len(i.bindings))
  <2>1. DOMAIN NoScope = {}
    BY DEF NoScope
  <2>2. \A x \in DOMAIN NoScope : NoScope[x] \in 1 .. Len(interp.bindings)
    BY <2>1
  <2> QED
    BY <2>2, ScopedMore DEF ScopedNow
<1>3. Runs(rest, Len(i.operands), Len(i.bindings), r)
  BY DEF Now
<1>4. rest # <<>> /\ rest[1].task \in Bodies \cup Frames
  BY DEF Behind
<1>5. AllValued(i.operands, r)
  OBVIOUS
<1> HIDE DEF w, r
<1>6. Good(Begin(i, body, w, rest), r)
  BY <1>1, <1>2, <1>3, <1>4, <1>5, BeginGood
<1> QED
  BY <1>6 DEF Scope, GoodNow, w, r

LEMMA BlockGood == ASSUME IInv, VInv, ExecuteBlock PROVE VInv'
<1> DEFINE c == Continuing \o Rest
           body == Current.body
           env == Top.env
           next == Scope(interp, body, env, c)
<1>1. /\ Step(1, next) /\ interp.control # <<>> /\ Top.task = "statements"
      /\ Top.todo # <<>> /\ Current.kind = "Block"
  BY DEF ExecuteBlock, NextStatement, Doing
<1>2. /\ ScopedNow(env) /\ Now(c, Left) /\ Behind(c)
      /\ IsStatement(Current, Setting.parts)
  BY <1>1, ContinuingGood
<1>3. body \in Setting.parts.bodies
  BY <1>1, <1>2 DEF IsStatement
<1>4. Shape(interp) /\ AllValued(interp.operands, analysis.registry)
  BY GivenFacts DEF VInv, Good
<1> HIDE DEF c, body, env
<1>5. GoodNow(next)
  BY <1>2, <1>3, <1>4, ScopeGood DEF Left
<1> HIDE DEF next
<1> QED
  BY <1>1, <1>5, TaskGood

LEMMA WhileGood == ASSUME IInv, VInv, ExecuteWhile PROVE VInv'
<1> DEFINE s == Current
           t == [task |-> "while", statement |-> s, env |-> Top.env]
           c == Continuing \o Rest
           tasks == <<t>> \o Continuing
           next == Push(tasks)
<1>1. /\ Step(1, next) /\ interp.control # <<>> /\ Top.task = "statements"
      /\ Top.todo # <<>>
  BY DEF ExecuteWhile, NextStatement, Doing
<1>2. /\ Left \in Nat /\ ScopedNow(Top.env) /\ Now(c, Left) /\ IsSequence(c)
      /\ Behind(c) /\ IsSequence(Continuing) /\ IsSequence(Rest)
  BY <1>1, ContinuingGood
<1>3. t.task = "while" /\ t.env = Top.env
  OBVIOUS
<1> HIDE DEF t
<1>4. SaneNow(t) /\ Fit(t, c) /\ Uses(t) = 0 /\ Gives(t) = 0
  BY <1>2, <1>3, UsesFacts, StatementFit DEF SaneNow, Sane, ScopedNow
<1>5. Now(<<t>> \o c, Left)
  <2>1. Uses(t) \in 0 .. Left /\ Left - Uses(t) + Gives(t) = Left
    BY <1>2, <1>4
  <2> HIDE DEF c
  <2> QED
    BY <1>2, <1>4, <2>1, NowMore
<1>6. <<t>> \o c = tasks \o Rest
  <2> DEFINE k == Continuing
  <2>1. IsSequence(k)
    BY <1>2
  <2> HIDE DEF k
  <2>2. <<t>> \o (k \o Rest) = (<<t>> \o k) \o Rest
    BY <1>2, <2>1, RegroupTask
  <2> QED
    BY <2>2 DEF k
<1> HIDE DEF tasks
<1>7. GoodNow(next)
  BY <1>5, <1>6, PushGood
<1> HIDE DEF next
<1> QED
  BY <1>1, <1>7, TaskGood

LEMMA DeclarationGood == ASSUME IInv, VInv, ExecuteDeclaration PROVE VInv'
<1> DEFINE next == Push(Continuing)
<1>1. /\ Step(1, next) /\ interp.control # <<>> /\ Top.task = "statements"
      /\ Top.todo # <<>>
  BY DEF ExecuteDeclaration, NextStatement, Doing
<1>2. Now(Continuing \o Rest, Left)
  BY <1>1, ContinuingGood
<1>3. GoodNow(next)
  BY <1>2, PushGood
<1> HIDE DEF next
<1> QED
  BY <1>1, <1>3, TaskGood

LEMMA PopGood ==
    ASSUME IInv, VInv, interp.control # <<>>, Gives(Top) = 0
    PROVE  /\ Uses(Top) = 0 => GoodNow(Push(<<>>))
           /\ Uses(Top) = 1 => GoodNow(Take(1, <<>>))
<1>1. IsSequence(Rest) /\ <<>> \o Rest = Rest
  BY TopFacts, WithoutFront
<1>2. ASSUME Uses(Top) = 0 PROVE GoodNow(Push(<<>>))
  <2>1. Left \in Nat /\ Now(Rest, Left - 0 + 0)
    BY <1>2, TopFacts
  <2>2. Now(<<>> \o Rest, Left)
    BY <1>1, <2>1
  <2> QED
    BY <2>2, PushGood
<1>3. ASSUME Uses(Top) = 1 PROVE GoodNow(Take(1, <<>>))
  <2>1. 1 \in 0 .. Left /\ Now(Rest, Left - 1)
    BY <1>3, OperandFacts
  <2>2. Now(<<>> \o Rest, Left - 1)
    BY <1>1, <2>1
  <2> QED
    BY <2>1, <2>2, TakeGood
<1> QED
  BY <1>2, <1>3

LEMMA EndStatementsGood == ASSUME IInv, VInv, EndStatements PROVE VInv'
<1> DEFINE next == Push(<<>>)
<1>1. Step(0, next) /\ interp.control # <<>> /\ Top.task = "statements"
  BY DEF EndStatements, Doing
<1>2. GoodNow(next)
  BY <1>1, UsesFacts, PopGood
<1> HIDE DEF next
<1> QED
  BY <1>1, <1>2, TaskGood

LEMMA FinishExpressionGood == ASSUME IInv, VInv, FinishExpression PROVE VInv'
<1> DEFINE next == Take(1, <<>>)
<1>1. Step(0, next) /\ interp.control # <<>> /\ Top.task = "Expression"
  BY DEF FinishExpression, Doing
<1>2. GoodNow(next)
  BY <1>1, UsesFacts, PopGood
<1> HIDE DEF next
<1> QED
  BY <1>1, <1>2, TaskGood

----------------------------------------------------------------------------
(* Statements that take their operand *)

LEMMA StatementTop ==
    ASSUME IInv, VInv, interp.control # <<>>,
           Top.task \in StatementTasks \ (Frames \cup {"exit"})
    PROVE  Behind(Rest)
<1>1. Fit(Top, Rest)
  BY TopFacts
<1> QED
  BY <1>1 DEF Fit, Behind

LEMMA TakenFacts ==
    ASSUME IInv, VInv, NEW n \in 0 .. Left, NEW tasks
    PROVE  /\ Shape(Take(n, tasks)) /\ Take(n, tasks).bindings = interp.bindings
           /\ Take(n, tasks).functions = interp.functions
           /\ Take(n, tasks).control = tasks \o Rest
           /\ AllValued(Take(n, tasks).operands, analysis.registry)
           /\ Len(Take(n, tasks).operands) = Left - n
<1>1. /\ Shape(Take(n, tasks)) /\ Take(n, tasks).bindings = interp.bindings
      /\ Take(n, tasks).functions = interp.functions
      /\ Take(n, tasks).control = tasks \o Rest
      /\ Take(n, tasks).operands = Drop(interp.operands, n)
  BY GivenFacts DEF Take, Shape
<1>2. /\ AllValued(Drop(interp.operands, n), analysis.registry)
      /\ Len(Drop(interp.operands, n)) = Left - n
  BY ValuedSequences DEF VInv, Good, Left
<1> QED
  BY <1>1, <1>2

\* A body that begins where a statement took its operand.
LEMMA TakenScope ==
    ASSUME IInv, VInv, interp.control # <<>>, Uses(Top) = 1, Gives(Top) = 0,
           Top.task \in StatementTasks \ (Frames \cup {"exit"}),
           NEW body \in Setting.parts.bodies, NEW env, ScopedNow(env)
    PROVE  GoodNow(Scope(Take(1, <<>>), body, env, Rest))
<1> DEFINE i == Take(1, <<>>)
<1>1. 1 \in 0 .. Left /\ Now(Rest, Left - 1) /\ Behind(Rest)
  BY OperandFacts, StatementTop
<1>2. /\ Shape(i) /\ i.bindings = interp.bindings /\ i.functions = interp.functions
      /\ AllValued(i.operands, analysis.registry) /\ Len(i.operands) = Left - 1
  BY <1>1, TakenFacts
<1> HIDE DEF i
<1>3. Now(Rest, Len(i.operands))
  BY <1>1, <1>2
<1>4. GoodNow(Scope(i, body, env, Rest))
  BY <1>1, <1>2, <1>3, ScopeGood
<1> QED
  BY <1>4 DEF i

LEMMA LetGood == ASSUME IInv, VInv, FinishLet PROVE VInv'
<1> DEFINE slot == Top.slot
           t == interp.bindings[Top.slot].annotation
           i == Take(1, <<>>)
           v == Operand
           visible == Only(Top.statement.name, Top.slot)
           x == Rest[1]
           u == [x EXCEPT !.env = Extend(@, visible)]
           d == [Rest EXCEPT ![1] = u]
           j == [i EXCEPT !.control[1].env = Extend(@, visible)]
           bound == [i EXCEPT !.bindings[slot].value = <<v>>,
                              !.control[1].env = Extend(@, visible)]
           next == IF ~HasType(t, v) THEN TypeError(Top.statement.value, t)
                   ELSE bound
           m == Len(interp.bindings)
           r == analysis.registry
<1>1. Step(0, next) /\ interp.control # <<>> /\ Top.task = "Let"
  BY DEF FinishLet, Doing
<1>2. Uses(Top) = 1 /\ Gives(Top) = 0
  BY <1>1, UsesFacts
<1>3. /\ Valued(v, r) /\ 1 \in 0 .. Left /\ Now(Rest, Left - 1) /\ SaneNow(Top)
  BY <1>1, <1>2, OperandFacts, TopFacts
<1>4. slot \in 1 .. m
  BY <1>1, <1>3 DEF SaneNow, Sane
<1>5. Follows(Rest, "statements") /\ IsSequence(Rest)
      /\ Ready(Rest, interp.captured_bindings, interp.in_parallel_worker, Setting)
  BY <1>1, NextTask DEF Placed
<1>6. Rest # <<>> /\ x.task = "statements" /\ 1 \in DOMAIN Rest /\ Head(Rest) = x
  BY <1>5, SequenceFacts DEF Follows
<1>7. DOMAIN x = {"task", "env", "todo"}
  BY <1>5, <1>6 DEF Ready, Holds
<1>8. u.task = "statements" /\ u.env = Extend(x.env, visible) /\ u.todo = x.todo
  BY <1>6, <1>7
<1>9. Sane(x, m, r)
  <2> DEFINE c == Rest
             n == Left - 1
  <2>1. Runs(c, n, m, r) /\ c # <<>>
    BY <1>3, <1>6 DEF Now
  <2> HIDE DEF c, n, m, r
  <2>2. Sane(Head(c), m, r)
    BY <2>1, RunsNext
  <2> QED
    BY <1>6, <2>2 DEF c
<1>10. Scoped(u.env, m)
  <2>1. Scoped(x.env, m)
    BY <1>6, <1>9 DEF Sane, Seeing
  <2>2. \A y \in DOMAIN visible : visible[y] \in 1 .. m
    BY <1>4 DEF Only
  <2> HIDE DEF visible, m
  <2>3. Scoped(Extend(x.env, visible), m)
    BY <2>1, <2>2, ScopedMore
  <2> QED
    BY <1>8, <2>3
<1> HIDE DEF u
<1>11. Sane(u, m, r)
  BY <1>6, <1>8, <1>9, <1>10 DEF Sane, Composite
<1>12. Now(d, Left - 1)
  <2> DEFINE c == Rest
             n == Left - 1
  <2>1. Runs(c, n, m, r) /\ c # <<>> /\ u.task = c[1].task
        /\ u.task \notin Composite \cup {"request"}
    BY <1>3, <1>6, <1>8 DEF Now, Composite
  <2> HIDE DEF c, n, m, r
  <2>2. Runs([c EXCEPT ![1] = u], n, m, r)
    BY <1>11, <2>1, RunsReplaced
  <2> QED
    BY <2>2 DEF c, n, m, r, Now
<1>13. /\ Shape(j) /\ j.bindings = interp.bindings
       /\ j.functions = interp.functions
       /\ j.control = d
       /\ j.operands = Drop(interp.operands, 1)
       /\ bound = [j EXCEPT !.bindings[slot].value = <<v>>]
  <2>1. <<>> \o Rest = Rest
    BY <1>5, WithoutFront
  <2> HIDE DEF visible, slot, v
  <2>2. /\ Shape(j) /\ j.bindings = interp.bindings
        /\ j.functions = interp.functions
        /\ j.operands = Drop(interp.operands, 1)
        /\ bound = [j EXCEPT !.bindings[slot].value = <<v>>]
    BY GivenFacts DEF Take, Shape
  <2>3. j.control = d
    BY <2>1, GivenFacts DEF Take, Shape, u
  <2> QED
    BY <2>2, <2>3
<1>14. /\ AllValued(Drop(interp.operands, 1), r)
       /\ Len(Drop(interp.operands, 1)) = Left - 1
  BY <1>3, ValuedSequences DEF VInv, Good, Left
<1> HIDE DEF j, bound, d
<1>15. GoodNow(j)
  BY <1>12, <1>13, <1>14, GoodMoved
<1>16. ASSUME HasType(t, v) PROVE GoodNow(bound)
  <2>1. HasType(interp.bindings[slot].annotation, v)
    BY <1>16
  <2> HIDE DEF slot, v
  <2> QED
    BY <1>3, <1>4, <1>13, <1>15, <2>1, BoundGood
<1>17. ~IsError(next) => GoodNow(next)
  BY <1>16 DEF TypeError, IsError
<1> HIDE DEF next
<1> QED
  BY <1>1, <1>17, TaskGood

LEMMA BranchGood == ASSUME IInv, VInv, Branch PROVE VInv'
<1> DEFINE s == Top.statement
           env == Top.env
           v == Operand
           i == Take(1, <<>>)
           next == IF v.type # "bool" THEN Error("Not a boolean")
                   ELSE IF v.bool THEN Scope(i, s.body, env, Rest)
                   ELSE IF s.else # <<>> THEN Scope(i, Head(s.else), env, Rest)
                   ELSE i
<1>1. Step(0, next) /\ interp.control # <<>> /\ Top.task = "If"
  BY DEF Branch, Doing
<1>2. /\ Uses(Top) = 1 /\ Gives(Top) = 0
      /\ Top.task \in StatementTasks \ (Frames \cup {"exit"})
      /\ Top.task \in Seeing
  BY <1>1, UsesFacts DEF StatementTasks, Frames, Seeing
<1>3. HeldBy(Top) /\ ScopedNow(env) /\ GoodNow(i)
  BY <1>1, <1>2, NextTask, TopFacts, PopGood
<1>4. IsStatement(s, Setting.parts) /\ s.kind = "If"
  BY <1>1, <1>3 DEF HeldBy, Holds
<1>5. /\ s.body \in Setting.parts.bodies
      /\ s.else # <<>> => Head(s.else) \in Setting.parts.bodies
  BY <1>4 DEF IsStatement
<1> HIDE DEF s, env, v
<1>6. \A body \in Setting.parts.bodies : GoodNow(Scope(i, body, env, Rest))
  BY <1>1, <1>2, <1>3, TakenScope
<1> HIDE DEF i
<1>7. ~IsError(next) => GoodNow(next)
  BY <1>3, <1>5, <1>6, ErrorFacts
<1> HIDE DEF next
<1> QED
  BY <1>1, <1>7, TaskGood

LEMMA ArmGood == ASSUME IInv, VInv, SelectArm PROVE VInv'
<1> DEFINE arms == Top.statement.arms
           env == Top.env
           v == Operand
           taken == {k \in DOMAIN arms : Matches(arms[k].pattern, v)}
           i == Take(1, <<>>)
           next == IF taken = {} THEN i
                   ELSE Scope(i, arms[Min(taken)].body, env, Rest)
<1>1. Step(0, next) /\ interp.control # <<>> /\ Top.task = "Match"
  BY DEF SelectArm, Doing
<1>2. /\ Uses(Top) = 1 /\ Gives(Top) = 0
      /\ Top.task \in StatementTasks \ (Frames \cup {"exit"})
      /\ Top.task \in Seeing
  BY <1>1, UsesFacts DEF StatementTasks, Frames, Seeing
<1>3. HeldBy(Top) /\ ScopedNow(env) /\ GoodNow(i)
  BY <1>1, <1>2, NextTask, TopFacts, PopGood
<1>4. /\ IsSequence(arms)
      /\ \A k \in DOMAIN arms : arms[k].body \in Setting.parts.bodies
  BY <1>1, <1>3 DEF HeldBy, Holds, IsStatement
<1> HIDE DEF arms, env, v
<1>5. taken # {} => arms[Min(taken)].body \in Setting.parts.bodies
  <2>1. taken \in SUBSET DOMAIN arms
    OBVIOUS
  <2> HIDE DEF taken
  <2>2. taken \in SUBSET Nat
    BY <1>4, <2>1, SequenceFacts
  <2>3. taken # {} => Min(taken) \in taken
    BY <2>2, MinFacts
  <2> QED
    BY <1>4, <2>1, <2>3
<1>6. \A body \in Setting.parts.bodies : GoodNow(Scope(i, body, env, Rest))
  BY <1>1, <1>2, <1>3, TakenScope
<1> HIDE DEF i, taken
<1>7. GoodNow(next)
  BY <1>3, <1>5, <1>6
<1> HIDE DEF next
<1> QED
  BY <1>1, <1>7, TaskGood

LEMMA TestGood == ASSUME IInv, VInv, TestLoop PROVE VInv'
<1> DEFINE e == Top.statement.condition
           env == Top.env
           t == [task |-> "test"]
           c == interp.control
           p == <<Evaluate(e, env), t>>
           next == [interp EXCEPT !.control = p \o @]
<1>1. Step(0, next) /\ c # <<>> /\ Top.task = "while"
  BY DEF TestLoop, Doing
<1>2. /\ ScopedNow(env) /\ Now(c, Left) /\ Left \in Nat /\ IsSequence(c)
      /\ c[1] = Top
  BY <1>1, TopFacts, ControlGood, NextTask, RunsNext DEF Seeing, Now
<1>3. t.task = "test"
  OBVIOUS
<1> HIDE DEF t, env
<1>4. Uses(t) = 1 /\ Gives(t) = 0 /\ SaneNow(t) /\ Fit(t, c)
  BY <1>1, <1>2, <1>3, UsesFacts, StatementFit
     DEF SaneNow, Sane, Seeing, Composite, Behind, Bodies
<1>5. Left + Gives(t) = Left
  BY <1>2, <1>4
<1> HIDE DEF e, c
<1>6. Now(p \o c, Left)
  BY <1>2, <1>4, <1>5, ThenNow
<1> HIDE DEF p
<1>7. GoodNow(next)
  BY <1>6, ControlGood DEF c
<1> HIDE DEF next
<1> QED
  BY <1>1, <1>7, TaskGood DEF c

LEMMA LoopGood == ASSUME IInv, VInv, EnterLoop PROVE VInv'
<1> DEFINE v == Operand
           i == Take(1, <<>>)
           loop == Head(Rest)
           d == Tail(Rest)
           left == [i EXCEPT !.control = d]
           next == IF v.type # "bool" THEN Error("Not a boolean")
                   ELSE IF v.bool THEN Scope(i, loop.statement.body, loop.env, Rest)
                   ELSE left
           m == Len(interp.bindings)
           r == analysis.registry
<1>1. Step(0, next) /\ interp.control # <<>> /\ Top.task = "test"
  BY DEF EnterLoop, Doing
<1>2. /\ Uses(Top) = 1 /\ Gives(Top) = 0
      /\ Top.task \in StatementTasks \ (Frames \cup {"exit"})
  BY <1>1, UsesFacts DEF StatementTasks, Frames
<1>3. /\ Follows(Rest, "while") /\ IsSequence(Rest) /\ 1 \in 0 .. Left
      /\ Now(Rest, Left - 1) /\ Left - 1 \in Nat
      /\ Ready(Rest, interp.captured_bindings, interp.in_parallel_worker, Setting)
  BY <1>1, <1>2, NextTask, OperandFacts DEF Placed
<1>4. Rest # <<>> /\ loop = Rest[1] /\ loop.task = "while" /\ 1 \in DOMAIN Rest
  BY <1>3, SequenceFacts DEF Follows
<1>5. loop.statement.body \in Setting.parts.bodies
  BY <1>3, <1>4 DEF Ready, Holds
<1>6. Sane(loop, m, r) /\ Now(d, Left - 1)
  <2> DEFINE c == Rest
             n == Left - 1
  <2>1. Runs(c, n, m, r) /\ c # <<>> /\ n \in Nat
    BY <1>3, <1>4 DEF Now
  <2> HIDE DEF c, n, m, r
  <2>2. Sane(Head(c), m, r) /\ Runs(Tail(c), n - Uses(Head(c)) + Gives(Head(c)), m, r)
    BY <2>1, RunsNext
  <2>3. Uses(loop) = 0 /\ Gives(loop) = 0
    BY <1>4, UsesFacts
  <2>4. n - 0 + 0 = n
    BY <2>1
  <2> QED
    BY <2>2, <2>3, <2>4 DEF c, n, m, r, Now
<1>7. ScopedNow(loop.env)
  BY <1>4, <1>6 DEF Sane, ScopedNow, Seeing
<1> HIDE DEF loop
<1>8. GoodNow(Scope(i, loop.statement.body, loop.env, Rest))
  BY <1>1, <1>2, <1>5, <1>7, TakenScope
<1>9. GoodNow(left)
  <2>1. /\ Shape(i) /\ i.bindings = interp.bindings
        /\ i.functions = interp.functions
        /\ AllValued(i.operands, r) /\ Len(i.operands) = Left - 1
    BY <1>3, TakenFacts
  <2> HIDE DEF i, d
  <2>2. /\ left.bindings = interp.bindings /\ left.functions = interp.functions
        /\ left.operands = i.operands /\ left.control = d
    BY <2>1 DEF Shape
  <2> HIDE DEF left
  <2> QED
    BY <1>6, <2>1, <2>2, GoodMoved
<1> HIDE DEF left, i, v
<1>10. ~IsError(next) => GoodNow(next)
  BY <1>8, <1>9, ErrorFacts
<1> HIDE DEF next
<1> QED
  BY <1>1, <1>10, TaskGood

\* A task in the place of one that took its operand.
LEMMA TakenTask ==
    ASSUME IInv, VInv, interp.control # <<>>, Uses(Top) = 1, Gives(Top) = 0,
           Top.task \in StatementTasks \ (Frames \cup {"exit"}),
           NEW t, SaneNow(t), Uses(t) = 0, Gives(t) = 0
    PROVE  GoodNow(Take(1, <<t>>))
<1> DEFINE p == <<t>>
           n == Left - 1
<1>1. 1 \in 0 .. Left /\ Now(Rest, n) /\ n \in Nat /\ Behind(Rest)
  BY OperandFacts, StatementTop
<1>2. Fit(t, Rest) /\ Uses(t) \in 0 .. n /\ n - Uses(t) + Gives(t) = n
  BY <1>1, StatementFit
<1> HIDE DEF n
<1>3. Now(p \o Rest, n)
  BY <1>1, <1>2, NowMore
<1> HIDE DEF p
<1>4. GoodNow(Take(1, p))
  BY <1>1, <1>3, TakeGood DEF n
<1> QED
  BY <1>4 DEF p

LEMMA ForGood == ASSUME IInv, VInv, StartFor PROVE VInv'
<1> DEFINE v == Operand
           t == [task |-> "for", statement |-> Top.statement, env |-> Top.env,
                 values |-> v.values]
           next == IF v.type # "array" THEN Error("Not an array") ELSE Take(1, <<t>>)
<1>1. Step(0, next) /\ interp.control # <<>> /\ Top.task = "For"
  BY DEF StartFor, Doing
<1>2. /\ Uses(Top) = 1 /\ Gives(Top) = 0 /\ Top.task \in Seeing
      /\ Top.task \in StatementTasks \ (Frames \cup {"exit"})
  BY <1>1, UsesFacts DEF StatementTasks, Frames, Seeing
<1>3. Valued(v, analysis.registry) /\ ScopedNow(Top.env)
  BY <1>1, <1>2, OperandFacts, TopFacts
<1>4. t.task = "for" /\ t.env = Top.env /\ t.values = v.values
  OBVIOUS
<1> HIDE DEF t, v
<1>5. ASSUME v.type = "array" PROVE GoodNow(Take(1, <<t>>))
  <2>1. AllValued(t.values, analysis.registry)
    BY <1>3, <1>4, <1>5, PartsValued
  <2>2. SaneNow(t) /\ Uses(t) = 0 /\ Gives(t) = 0
    BY <1>3, <1>4, <2>1, UsesFacts DEF SaneNow, Sane, ScopedNow
  <2> QED
    BY <1>1, <1>2, <2>2, TakenTask
<1>6. ~IsError(next) => GoodNow(next)
  BY <1>5, ErrorFacts
<1> HIDE DEF next
<1> QED
  BY <1>1, <1>6, TaskGood

\* One more binding, without a type.
LEMMA AllocatedFacts ==
    ASSUME IInv, VInv, NEW i, Shape(i), i.bindings = interp.bindings,
           i.functions = interp.functions, NEW v, Valued(v, analysis.registry)
    PROVE  LET j == Allocate(i, v, NoType)
               m == Len(interp.bindings)
           IN  /\ Shape(j) /\ IsSequence(j.bindings) /\ Len(j.bindings) = m + 1
               /\ m \in Nat /\ m + 1 \in Nat /\ m <= m + 1 /\ m + 1 \in 1 .. m + 1
               /\ \A k \in DOMAIN j.bindings : Bound(j.bindings[k], analysis.registry)
               /\ \A id \in DOMAIN j.functions :
                      /\ Scoped(j.functions[id].closure, m + 1)
                      /\ IsSequence(j.functions[id].parameters)
               /\ j.operands = i.operands
<1> DEFINE x == Binding(<<v>>, NoType, TRUE)
           b == interp.bindings
           s == Append(b, x)
           m == Len(b)
           j == Allocate(i, v, NoType)
           r == analysis.registry
<1>1. IsSequence(b) /\ m \in Nat /\ DOMAIN b = 1 .. m
      /\ \A k \in DOMAIN b : Bound(b[k], r)
      /\ \A id \in DOMAIN interp.functions :
             /\ Scoped(interp.functions[id].closure, m)
             /\ IsSequence(interp.functions[id].parameters)
  BY GivenFacts, SequenceFacts DEF Machine, Base, VInv, Good
<1>2. Bound(x, r)
  <2>1. AllValued(<<v>>, r)
    <3>1. IsSequence(<<v>>) /\ Len(<<v>>) = 1 /\ <<v>>[1] = v
      BY SingleFacts
    <3>2. DOMAIN <<v>> = {1}
      BY <3>1, SequenceFacts
    <3> QED
      BY <3>1, <3>2 DEF AllValued
  <2>2. \A y : HasType(NoType, y)
    BY DEF HasType, NoType, PrimitiveTypes
  <2>3. /\ DOMAIN x = {"value", "annotation", "mutable"} /\ x.value = <<v>>
        /\ x.annotation = NoType
    BY DEF Binding
  <2> HIDE DEF x
  <2> QED
    BY <2>1, <2>2, <2>3 DEF Bound
<1> HIDE DEF x
<1>3. /\ IsSequence(s) /\ Len(s) = m + 1
      /\ \A k \in 1 .. m : s[k] = b[k]
      /\ s[m + 1] = x
  BY <1>1, Appended
<1>4. /\ Shape(j) /\ j.bindings = s /\ j.functions = interp.functions
      /\ j.operands = i.operands
  BY DEF Allocate, Shape, x
<1> HIDE DEF b, s, j, m
<1>5. DOMAIN s = 1 .. m + 1
  BY <1>3, SequenceFacts
<1>6. \A k \in DOMAIN s : Bound(s[k], r)
  <2> HIDE DEF r
  <2>1. \A k \in 1 .. m + 1 : k \in 1 .. m \/ k = m + 1
    BY <1>1
  <2> QED
    BY <1>1, <1>2, <1>3, <1>5, <2>1
<1>7. m + 1 \in Nat /\ m <= m + 1 /\ m + 1 \in 1 .. m + 1
  BY <1>1
<1>8. ASSUME NEW id \in DOMAIN j.functions
      PROVE  /\ Scoped(j.functions[id].closure, m + 1)
             /\ IsSequence(j.functions[id].parameters)
  <2> DEFINE env == interp.functions[id].closure
  <2>3. id \in DOMAIN interp.functions
    BY <1>4
  <2>1. Scoped(env, m) /\ IsSequence(interp.functions[id].parameters)
    BY <2>3 DEF VInv, Good, m, b
  <2> HIDE DEF env
  <2>2. Scoped(env, m + 1)
    BY <1>1, <1>7, <2>1, ScopedWider
  <2> QED
    BY <1>4, <2>1, <2>2 DEF env
<1>9. /\ Shape(j) /\ IsSequence(j.bindings) /\ Len(j.bindings) = m + 1
      /\ \A k \in DOMAIN j.bindings : Bound(j.bindings[k], r)
      /\ j.operands = i.operands
  BY <1>3, <1>4, <1>6
<1> QED
  BY <1>1, <1>7, <1>8, <1>9 DEF m, b, j

LEMMA IterationGood == ASSUME IInv, VInv, NextIteration PROVE VInv'
<1> DEFINE s == Top.statement
           vs == Top.values
           i == Allocate(interp, Head(vs), NoType)
           t == [Top EXCEPT !.values = Tail(@)]
           c == <<t>> \o Rest
           env == Append(Top.env, Only(s.variable, Len(i.bindings)))
           begun == Begin(i, s.body, env, c)
           empty == Push(<<>>)
           m == Len(interp.bindings)
           r == analysis.registry
<1>1. /\ Step(0, empty) \/ (vs # <<>> /\ Step(1, begun))
      /\ interp.control # <<>> /\ Top.task = "for"
  BY DEF NextIteration, Doing
<1>2. Uses(Top) = 0 /\ Gives(Top) = 0 /\ Top.task \in Seeing
  BY <1>1, UsesFacts DEF Seeing
<1>3. CASE Step(0, empty)
  <2>1. GoodNow(empty)
    BY <1>1, <1>2, PopGood
  <2> HIDE DEF empty
  <2> QED
    BY <1>1, <1>3, <2>1, TaskGood
<1>4. CASE vs # <<>> /\ Step(1, begun)
  <2>1. /\ ScopedNow(Top.env) /\ SaneNow(Top) /\ Fit(Top, Rest) /\ IsSequence(Rest)
        /\ Left \in Nat /\ HeldBy(Top) /\ AllValued(interp.operands, r)
    BY <1>1, <1>2, TopFacts, NextTask
  <2>2. AllValued(vs, r)
    BY <1>1, <2>1 DEF SaneNow, Sane
  <2>3. Valued(Head(vs), r) /\ AllValued(Tail(vs), r)
    <3> HIDE DEF vs, r
    <3> QED
      BY <1>4, <2>2, ValuedSequences
  <2>4. /\ DOMAIN Top = {"task", "statement", "env", "values"}
        /\ s.body \in Setting.parts.bodies
    BY <1>1, <2>1 DEF HeldBy, Holds
  <2>5. t.task = "for" /\ t.env = Top.env /\ t.values = Tail(vs)
    BY <1>1, <2>4
  <2> HIDE DEF t
  <2>6. SaneNow(t) /\ Uses(t) = 0 /\ Gives(t) = 0
    BY <2>1, <2>3, <2>5, UsesFacts DEF SaneNow, Sane, ScopedNow
  <2>7. Fit(t, Rest)
    <3>1. Behind(Rest)
      BY <1>1, StatementTop DEF StatementTasks, Frames
    <3> QED
      BY <3>1, StatementFit
  <2>8. Now(c, Left) /\ IsSequence(c)
    <3>1. Now(<<t>> \o Rest, Left)
      BY <1>1, <1>2, <2>6, <2>7, SameTask
    <3> QED
      BY <3>1, RunsNext DEF Now
  <2>9. c # <<>> /\ c[1].task \in Bodies \cup Frames
    <3>1. Len(c) = 1 + Len(Rest) /\ c[1] = t /\ Len(Rest) \in Nat
      BY <2>1, ConsFacts, SequenceFacts
    <3> HIDE DEF c
    <3> QED
      BY <2>5, <2>8, <3>1, SequenceFacts DEF Bodies
  <2> HIDE DEF c
  <2>10. Shape(interp)
    BY GivenFacts
  <2>11. /\ Shape(i) /\ IsSequence(i.bindings) /\ Len(i.bindings) = m + 1
         /\ m \in Nat /\ m + 1 \in Nat /\ m <= m + 1 /\ m + 1 \in 1 .. m + 1
         /\ \A k \in DOMAIN i.bindings : Bound(i.bindings[k], r)
         /\ \A id \in DOMAIN i.functions :
                /\ Scoped(i.functions[id].closure, m + 1)
                /\ IsSequence(i.functions[id].parameters)
         /\ i.operands = interp.operands
    <3> DEFINE v == Head(vs)
               j == Allocate(interp, v, NoType)
    <3>1. Valued(v, r)
      BY <2>3
    <3> HIDE DEF v
    <3>2. /\ Shape(j) /\ IsSequence(j.bindings) /\ Len(j.bindings) = m + 1
          /\ m \in Nat /\ m + 1 \in Nat /\ m <= m + 1 /\ m + 1 \in 1 .. m + 1
          /\ \A k \in DOMAIN j.bindings : Bound(j.bindings[k], r)
          /\ \A id \in DOMAIN j.functions :
                 /\ Scoped(j.functions[id].closure, m + 1)
                 /\ IsSequence(j.functions[id].parameters)
          /\ j.operands = interp.operands
      BY <2>10, <3>1, AllocatedFacts
    <3> HIDE DEF j
    <3>3. j = i
      BY DEF v, j
    <3> QED
      BY <3>2, <3>3
  <2> HIDE DEF i
  <2>12. Scoped(env, Len(i.bindings))
    <3> DEFINE scope == Only(s.variable, Len(i.bindings))
    <3>1. \A x \in DOMAIN scope : scope[x] \in 1 .. m + 1
      BY <2>11 DEF Only
    <3>2. Scoped(Top.env, m + 1)
      BY <2>1, <2>11, ScopedWider DEF ScopedNow
    <3> HIDE DEF scope, m
    <3>3. Scoped(Append(Top.env, scope), m + 1)
      BY <3>1, <3>2, ScopedMore
    <3> QED
      BY <2>11, <3>3 DEF scope
  <2> HIDE DEF env
  <2>13. Runs(c, Len(i.operands), Len(i.bindings), r)
    <3>1. Runs(c, Left, m, r) /\ Left <= Left
      BY <2>1, <2>8 DEF Now
    <3> HIDE DEF m, r
    <3>2. Runs(c, Left, m + 1, r)
      BY <2>1, <2>11, <3>1, RunsWider
    <3> QED
      BY <2>11, <3>2 DEF Left
  <2>14. AllValued(i.operands, r)
    BY <2>1, <2>11
  <2>15. \A id \in DOMAIN i.functions :
             /\ Scoped(i.functions[id].closure, Len(i.bindings))
             /\ IsSequence(i.functions[id].parameters)
    BY <2>11
  <2> DEFINE body == s.body
  <2>16. body \in Setting.parts.bodies
    BY <2>4
  <2> HIDE DEF body, r
  <2>17. Good(Begin(i, body, env, c), r)
    BY <2>9, <2>11, <2>12, <2>13, <2>14, <2>15, <2>16, BeginGood
  <2>18. GoodNow(begun)
    BY <2>17 DEF body, r, GoodNow
  <2> HIDE DEF begun
  <2> QED
    BY <1>1, <1>4, <2>18, TaskGood
<1> QED
  BY <1>1, <1>3, <1>4

----------------------------------------------------------------------------
(* The parallel statement *)

LEMMA ParallelGood == ASSUME IInv, VInv, StartParallel PROVE VInv'
<1> DEFINE v == Operand
           t == [task |-> "batch", statement |-> Top.statement, env |-> Top.env,
                 values |-> v.values, jobs |-> <<>>, outcomes |-> <<>>,
                 faults |-> <<>>]
           next == IF v.type # "array" THEN Error("Not an array") ELSE Take(1, <<t>>)
<1>1. Step(0, next) /\ interp.control # <<>> /\ Top.task = "Parallel"
  BY DEF StartParallel, Doing
<1>2. /\ Uses(Top) = 1 /\ Gives(Top) = 0 /\ Top.task \in Seeing
      /\ Top.task \in StatementTasks \ (Frames \cup {"exit"})
  BY <1>1, UsesFacts DEF StatementTasks, Frames, Seeing
<1>3. Valued(v, analysis.registry) /\ ScopedNow(Top.env)
  BY <1>1, <1>2, OperandFacts, TopFacts
<1>4. t.task = "batch" /\ t.env = Top.env /\ t.values = v.values /\ t.jobs = <<>>
  OBVIOUS
<1> HIDE DEF t, v
<1>5. ASSUME v.type = "array" PROVE GoodNow(Take(1, <<t>>))
  <2>1. AllValued(t.values, analysis.registry)
    BY <1>3, <1>4, <1>5, PartsValued
  <2>2. AllValued(t.jobs, analysis.registry)
    <3>1. DOMAIN <<>> = {}
      OBVIOUS
    <3> QED
      BY <1>4, <3>1, EmptyFacts DEF AllValued
  <2>3. SaneNow(t) /\ Uses(t) = 0 /\ Gives(t) = 0
    BY <1>3, <1>4, <2>1, <2>2, UsesFacts DEF SaneNow, Sane, ScopedNow
  <2> QED
    BY <1>1, <1>2, <2>3, TakenTask
<1>6. ~IsError(next) => GoodNow(next)
  BY <1>5, ErrorFacts
<1> HIDE DEF next
<1> QED
  BY <1>1, <1>6, TaskGood

\* Another state of a batch.
LEMMA BatchGood ==
    ASSUME IInv, VInv, interp.control # <<>>, Top.task = "batch",
           NEW t, t.task = "batch", t.env = Top.env,
           AllValued(t.values, analysis.registry), AllValued(t.jobs, analysis.registry)
    PROVE  /\ Now(<<t>> \o Rest, Left) /\ GoodNow(Push(<<t>>))
           /\ Runs([interp.control EXCEPT ![1] = t], Left, Len(interp.bindings),
                   analysis.registry)
<1>1. /\ Uses(Top) = 0 /\ Gives(Top) = 0 /\ Uses(t) = 0 /\ Gives(t) = 0
      /\ Top.task \in Seeing
  BY UsesFacts DEF Seeing
<1>2. SaneNow(t)
  <2>1. ScopedNow(t.env)
    BY <1>1, TopFacts
  <2> QED
    BY <2>1 DEF SaneNow, Sane, ScopedNow
<1>3. Fit(t, Rest)
  <2>1. Behind(Rest)
    BY StatementTop DEF StatementTasks, Frames
  <2> QED
    BY <2>1, StatementFit
<1>4. Now(<<t>> \o Rest, Left) /\ GoodNow(Push(<<t>>))
  BY <1>1, <1>2, <1>3, SameTask
<1>5. [interp.control EXCEPT ![1] = t] = <<t>> \o Rest
  <2> DEFINE c == interp.control
  <2>1. IsSequence(c) /\ c # <<>>
    BY GivenFacts DEF Machine, Ready
  <2> HIDE DEF c
  <2>2. [c EXCEPT ![1] = t] = <<t>> \o Tail(c)
    BY <2>1, FirstReplaced
  <2> QED
    BY <2>2 DEF c, Rest
<1> QED
  BY <1>4, <1>5 DEF Now

\* What a batch has to do.
LEMMA BatchValued ==
    ASSUME IInv, VInv, interp.control # <<>>, Top.task = "batch"
    PROVE  /\ AllValued(Top.values, analysis.registry) /\ AllValued(Top.jobs, analysis.registry)
           /\ DOMAIN Top = BatchFields /\ ScopedNow(Top.env)
<1>1. SaneNow(Top) /\ (Top.task \in Seeing => ScopedNow(Top.env))
  BY TopFacts
<1> QED
  BY <1>1, BatchFacts DEF SaneNow, Sane, Seeing

LEMMA PrepareGood == ASSUME IInv, VInv, PrepareBatch PROVE VInv'
<1> DEFINE width == IF interp.in_parallel_worker THEN 1 ELSE limits.parallel_workers
           s == Top.values
           n == Cardinality((1 .. width) \cap DOMAIN s)
           t == [Top EXCEPT !.jobs = SubSeq(Top.values, 1, n), !.values = Drop(@, n)]
           next == Push(<<t>>)
           empty == Push(<<>>)
           r == analysis.registry
<1>1. /\ Step(0, empty) \/ Step(n, next)
      /\ interp.control # <<>> /\ Top.task = "batch"
  BY DEF PrepareBatch, Doing
<1>2. AllValued(s, r) /\ DOMAIN Top = BatchFields
  BY <1>1, BatchValued
<1>3. IsSequence(s) /\ Len(s) \in Nat /\ DOMAIN s = 1 .. Len(s)
  BY <1>2, SequenceFacts DEF AllValued
<1>4. n \in 0 .. Len(s)
  <2> DEFINE D == (1 .. width) \cap DOMAIN s
  <2>1. IsFiniteSet(1 .. Len(s)) /\ Cardinality(1 .. Len(s)) = Len(s)
    <3> HIDE DEF s
    <3>1. IsFiniteSet(1 .. Len(s))
      BY <1>3, FS_Interval
    <3>2. Cardinality(1 .. Len(s)) = Len(s)
      <4> DEFINE L == Len(s)
      <4>1. L \in Nat /\ 1 \in Int /\ L \in Int
        BY <1>3
      <4> HIDE DEF L
      <4>2. Cardinality(1 .. L) = IF 1 > L THEN 0 ELSE L - 1 + 1
        BY <4>1, FS_Interval
      <4>3. Cardinality(1 .. L) = L
        BY <4>1, <4>2
      <4> QED
        BY <4>3 DEF L
    <3> QED
      BY <3>1, <3>2
  <2>2. D \subseteq 1 .. Len(s)
    BY <1>3
  <2> HIDE DEF D, s
  <2>3. IsFiniteSet(D) /\ Cardinality(D) <= Cardinality(1 .. Len(s))
    BY <2>1, <2>2, FS_Subset
  <2>4. Cardinality(D) \in Nat
    BY <2>3, FS_CardinalityType
  <2>5. Cardinality(D) \in 0 .. Len(s)
    BY <1>3, <2>1, <2>3, <2>4
  <2> QED
    BY <2>5 DEF D
<1> HIDE DEF n
<1>5. AllValued(SubSeq(s, 1, n), r) /\ AllValued(Drop(s, n), r)
  <2> DEFINE p == SubSeq(s, 1, n)
  <2> HIDE DEF s, r
  <2>1. IsSequence(p) /\ Len(p) = n /\ \A k \in 1 .. n : p[k] = s[k]
    BY <1>3, <1>4, PrefixFacts
  <2> HIDE DEF p
  <2>2. DOMAIN p = 1 .. n /\ 1 .. n \subseteq DOMAIN s
    BY <1>3, <1>4, <2>1, SequenceFacts
  <2>3. AllValued(p, r)
    BY <1>2, <2>1, <2>2 DEF AllValued
  <2>4. AllValued(Drop(s, n), r)
    BY <1>2, <1>4, ValuedSequences
  <2> QED
    BY <2>3, <2>4 DEF p
<1>6. /\ t.task = "batch" /\ t.env = Top.env /\ t.jobs = SubSeq(s, 1, n)
      /\ t.values = Drop(s, n)
  BY <1>1, <1>2 DEF BatchFields
<1> HIDE DEF t, s
<1>7. GoodNow(next)
  <2>1. AllValued(t.values, r) /\ AllValued(t.jobs, r)
    BY <1>5, <1>6
  <2> QED
    BY <1>1, <1>6, <2>1, BatchGood
<1>8. GoodNow(empty)
  BY <1>1, UsesFacts, PopGood
<1> HIDE DEF next, empty
<1> QED
  BY <1>1, <1>7, <1>8, TaskGood

LEMMA ReplayGood == ASSUME IInv, VInv, ReplayOutcome PROVE VInv'
<1> DEFINE outcome == Head(Top.outcomes)
           batch == Replay([output |-> interp.output, faults |-> Top.faults], outcome)
           t == [Top EXCEPT !.outcomes = Tail(@), !.faults = batch.faults]
           j == Push(<<t>>)
           next == [j EXCEPT !.output = batch.output]
<1>1. Step(0, next) /\ interp.control # <<>> /\ Top.task = "batch"
  BY DEF ReplayOutcome, Doing
<1>2. /\ AllValued(Top.values, analysis.registry)
      /\ AllValued(Top.jobs, analysis.registry) /\ DOMAIN Top = BatchFields
  BY <1>1, BatchValued
<1> HIDE DEF batch
<1>3. /\ t.task = "batch" /\ t.env = Top.env /\ t.values = Top.values
      /\ t.jobs = Top.jobs
  BY <1>1, <1>2 DEF BatchFields
<1> HIDE DEF t
<1>4. GoodNow(j)
  BY <1>1, <1>2, <1>3, BatchGood
<1>5. Shape(j)
  BY GivenFacts DEF Push, Shape
<1> HIDE DEF j
<1>6. /\ next.bindings = j.bindings /\ next.functions = j.functions
      /\ next.operands = j.operands /\ next.control = j.control
  BY <1>5 DEF Shape
<1> HIDE DEF next
<1>7. GoodNow(next)
  BY <1>4, <1>6 DEF GoodNow, Good
<1> QED
  BY <1>1, <1>7, TaskGood

LEMMA EndBatchGood == ASSUME IInv, VInv, EndBatch PROVE VInv'
<1>1. Fail(Head(Top.faults), interp.output) /\ UNCHANGED Given
  BY DEF EndBatch, Given
<1> DEFINE fault == Head(Top.faults)
<1> HIDE DEF fault
<1> QED
  BY <1>1, FailGood DEF fault

LEMMA EndWorkerGood == ASSUME IInv, VInv, EndWorker PROVE VInv'
<1>1. /\ Outcome(interp.output, <<>>) /\ UNCHANGED Given
      /\ interp.control # <<>> /\ Top.task = "worker"
  BY DEF EndWorker, Doing, Given
<1>2. interp.in_parallel_worker
  BY <1>1, NextTask DEF HeldBy, Holds
<1>3. outer # <<>>
  BY <1>2 DEF IInv, Above
<1> DEFINE outcome == [output |-> interp.output, faults |-> <<>>]
<1>4. /\ interp' = [Head(outer) EXCEPT !.control[1].outcomes = Append(@, outcome)]
      /\ outer' = Tail(outer)
  BY <1>1 DEF Outcome
<1> HIDE DEF outcome
<1> QED
  BY <1>1, <1>3, <1>4, OutcomeGood

\* A worker starts with a copy of the bindings, and its batch waits.
LEMMA WorkerGood == ASSUME IInv, VInv, StartWorker PROVE VInv'
<1> DEFINE copy == [interp EXCEPT !.captured_bindings = Len(interp.bindings),
                                  !.in_parallel_worker = TRUE,
                                  !.expression_depth = 0,
                                  !.return_type = NoType, !.output = <<>>,
                                  !.operands = <<>>]
           job == Head(Top.jobs)
           i == Allocate(copy, job, NoType)
           body == Top.statement.body
           scope == Only(Top.statement.variable, Len(i.bindings))
           env == Append(Top.env, scope)
           w == [task |-> "worker"]
           c == <<w>>
           o == [interp EXCEPT !.control[1].jobs = Tail(@)]
           t == [Top EXCEPT !.jobs = Tail(@)]
           m == Len(interp.bindings)
           r == analysis.registry
<1>1. /\ interp.control # <<>> /\ Top.task = "batch" /\ Top.jobs # <<>>
      /\ interp' = Begin(i, body, env, c)
      /\ outer' = <<o>> \o outer
      /\ UNCHANGED <<Given, remaining_steps, result>>
  BY DEF StartWorker, Doing
<1>2. /\ AllValued(Top.values, r) /\ AllValued(Top.jobs, r)
      /\ DOMAIN Top = BatchFields /\ ScopedNow(Top.env)
  BY <1>1, BatchValued
<1>3. Valued(job, r) /\ AllValued(Tail(Top.jobs), r)
  <2> DEFINE jobs == Top.jobs
  <2>1. AllValued(jobs, r) /\ jobs # <<>>
    BY <1>1, <1>2
  <2> HIDE DEF jobs, r
  <2> QED
    BY <2>1, ValuedSequences DEF jobs
<1>4. Good(o, r)
  <2>1. /\ t.task = "batch" /\ t.env = Top.env /\ t.values = Top.values
        /\ t.jobs = Tail(Top.jobs)
    BY <1>1, <1>2 DEF BatchFields
  <2> HIDE DEF t
  <2>2. Runs([interp.control EXCEPT ![1] = t], Left, m, r)
    BY <1>1, <1>2, <1>3, <2>1, BatchGood
  <2>3. /\ o.bindings = interp.bindings /\ o.functions = interp.functions
        /\ o.operands = interp.operands
        /\ o.control = [interp.control EXCEPT ![1] = t]
    <3>1. Shape(interp) /\ interp.control[1] = Top
      BY <1>1, NextTask, GivenFacts
    <3> QED
      BY <3>1 DEF Shape, t
  <2> HIDE DEF o
  <2> QED
    BY <2>2, <2>3 DEF VInv, Good, Left
<1>5. /\ Shape(copy) /\ copy.bindings = interp.bindings
      /\ copy.functions = interp.functions /\ copy.operands = <<>>
  BY GivenFacts DEF Shape
<1> HIDE DEF copy, job
<1>6. /\ Shape(i) /\ IsSequence(i.bindings) /\ Len(i.bindings) = m + 1
      /\ m \in Nat /\ m + 1 \in Nat /\ m <= m + 1 /\ m + 1 \in 1 .. m + 1
      /\ \A k \in DOMAIN i.bindings : Bound(i.bindings[k], r)
      /\ \A id \in DOMAIN i.functions :
             /\ Scoped(i.functions[id].closure, m + 1)
             /\ IsSequence(i.functions[id].parameters)
      /\ i.operands = copy.operands
  BY <1>3, <1>5, AllocatedFacts
<1> HIDE DEF i
<1>7. Scoped(env, Len(i.bindings))
  <2>1. \A x \in DOMAIN scope : scope[x] \in 1 .. m + 1
    BY <1>6 DEF Only
  <2>2. Scoped(Top.env, m + 1)
    BY <1>2, <1>6, ScopedWider DEF ScopedNow
  <2> HIDE DEF scope, m
  <2>3. Scoped(Append(Top.env, scope), m + 1)
    BY <2>1, <2>2, ScopedMore
  <2> QED
    BY <1>6, <2>3
<1> HIDE DEF env
<1>8. AllValued(i.operands, r) /\ Len(i.operands) = 0
  <2>1. DOMAIN <<>> = {} /\ Len(<<>>) = 0
    OBVIOUS
  <2> QED
    BY <1>5, <1>6, <2>1, EmptyFacts DEF AllValued
<1>9. /\ Runs(c, 0, m + 1, r) /\ c # <<>> /\ c[1].task \in Bodies \cup Frames
  <2>1. w.task = "worker" /\ c # <<>> /\ c[1] = w
    OBVIOUS
  <2>2. c = <<w>> \o <<>>
    OBVIOUS
  <2> HIDE DEF w, c
  <2>3. Uses(w) = 0 /\ Gives(w) = 0 /\ Fit(w, <<>>) /\ Sane(w, m + 1, r)
    BY <2>1, UsesFacts DEF Fit, Frames, Sane, Seeing, Composite
  <2>4. 0 \in 0 .. 0 /\ 0 - 0 + 0 = 0 /\ 0 \in Nat
    OBVIOUS
  <2> DEFINE k == m + 1
             d == <<>>
  <2>5. Runs(d, 0 - Uses(w) + Gives(w), k, r) /\ IsSequence(d)
    BY <2>3, <2>4, RunsEmpty, EmptyFacts
  <2>6. Fit(w, d) /\ Sane(w, k, r) /\ Uses(w) \in 0 .. 0
    BY <2>3, <2>4
  <2> HIDE DEF k, d, r
  <2>7. Runs(<<w>> \o d, 0, k, r)
    BY <2>4, <2>5, <2>6, RunsMore
  <2> QED
    BY <2>1, <2>2, <2>7 DEF k, d, Frames
<1>10. Good(interp', r)
  <2>1. body \in Setting.parts.bodies
    BY <1>1, BatchFacts
  <2>2. Runs(c, Len(i.operands), Len(i.bindings), r)
    BY <1>6, <1>8, <1>9
  <2>3. \A id \in DOMAIN i.functions :
            /\ Scoped(i.functions[id].closure, Len(i.bindings))
            /\ IsSequence(i.functions[id].parameters)
    BY <1>6
  <2>4. AllValued(i.operands, r)
    BY <1>8
  <2> HIDE DEF body, c, r
  <2>5. Good(Begin(i, body, env, c), r)
    BY <1>6, <1>7, <1>9, <2>1, <2>2, <2>3, <2>4, BeginGood
  <2> QED
    BY <1>1, <2>5 DEF c
<1>11. UNCHANGED Given /\ analysis' = analysis /\ program' = program
  BY <1>1 DEF Given
<1>12. ASSUME NEW k \in DOMAIN outer' PROVE Good(outer'[k], r)
  <2>1. /\ IsSequence(outer') /\ Len(outer') = 1 + Len(outer) /\ outer'[1] = o
        /\ \A n \in 1 .. Len(outer) : outer'[1 + n] = outer[n]
        /\ DOMAIN outer = 1 .. Len(outer) /\ Len(outer) \in Nat
    <3> HIDE DEF o
    <3> QED
      BY <1>1, ConsFacts, SequenceFacts DEF IInv
  <2>2. DOMAIN outer' = 1 .. 1 + Len(outer)
    BY <2>1, SequenceFacts
  <2> HIDE DEF o
  <2>3. k = 1 \/ \E n \in 1 .. Len(outer) : k = 1 + n
    <3>1. k = 1 \/ (k - 1 \in 1 .. Len(outer) /\ k = 1 + (k - 1))
      BY <2>1, <2>2
    <3> QED
      BY <3>1
  <2> QED
    BY <1>4, <2>1, <2>3 DEF VInv
<1>13. analysis.errors = {}
  BY <1>1, TopFacts
<1> HIDE DEF o
<1> QED
  BY <1>10, <1>11, <1>12, <1>13 DEF VInv

----------------------------------------------------------------------------
(* Calls *)

\* The bindings of an interpreter, and as many more with values that fit.
LEMMA WidenedFacts ==
    ASSUME NEW r, NEW b, IsSequence(b), \A k \in DOMAIN b : Bound(b[k], r),
           NEW vs, AllValued(vs, r), NEW bs, DOMAIN bs = DOMAIN vs,
           bs = [k \in DOMAIN bs |-> bs[k]],
           \A k \in DOMAIN vs :
               \E t : bs[k] = Binding(<<vs[k]>>, t, TRUE) /\ HasType(t, vs[k])
    PROVE  /\ IsSequence(b \o bs) /\ Len(b \o bs) = Len(b) + Len(vs)
           /\ Len(b) \in Nat /\ Len(vs) \in Nat /\ DOMAIN vs = 1 .. Len(vs)
           /\ \A k \in DOMAIN (b \o bs) : Bound((b \o bs)[k], r)
<1> DEFINE m == Len(b)
           l == Len(vs)
           s == b \o bs
<1>1. /\ m \in Nat /\ DOMAIN b = 1 .. m /\ l \in Nat /\ DOMAIN vs = 1 .. l
      /\ IsSequence(vs)
  BY SequenceFacts DEF AllValued
<1>2. IsSequence(bs) /\ Len(bs) = l
  BY <1>1, FunctionSequence
<1>3. /\ IsSequence(s) /\ Len(s) = m + l
      /\ \A k \in 1 .. m : s[k] = b[k]
      /\ \A k \in 1 .. l : s[m + k] = bs[k]
  BY <1>2, ConcatFacts
<1>4. ASSUME NEW k \in DOMAIN vs PROVE Bound(bs[k], r)
  <2>1. PICK t : bs[k] = Binding(<<vs[k]>>, t, TRUE) /\ HasType(t, vs[k])
    OBVIOUS
  <2> DEFINE v == vs[k]
             x == bs[k]
  <2>2. Valued(v, r)
    BY DEF AllValued
  <2>3. x = Binding(<<v>>, t, TRUE) /\ HasType(t, v)
    BY <2>1
  <2> HIDE DEF v, x
  <2>4. IsSequence(<<v>>) /\ DOMAIN <<v>> = {1} /\ <<v>>[1] = v
    <3>1. IsSequence(<<v>>) /\ Len(<<v>>) = 1 /\ <<v>>[1] = v
      BY SingleFacts
    <3> QED
      BY <3>1, SequenceFacts
  <2>5. AllValued(<<v>>, r)
    BY <2>2, <2>4 DEF AllValued
  <2>6. /\ DOMAIN x = {"value", "annotation", "mutable"} /\ x.value = <<v>>
        /\ x.annotation = t
    BY <2>3 DEF Binding
  <2>7. Bound(x, r)
    BY <2>3, <2>4, <2>5, <2>6 DEF Bound
  <2> QED
    BY <2>7 DEF x
<1> HIDE DEF s, m, l
<1>5. DOMAIN s = 1 .. m + l
  BY <1>3, SequenceFacts
<1>6. ASSUME NEW k \in DOMAIN s PROVE Bound(s[k], r)
  <2>1. k \in 1 .. m \/ (k - m \in 1 .. l /\ k = m + (k - m))
    BY <1>1, <1>5
  <2>2. CASE k \in 1 .. m
    BY <1>1, <1>3, <2>2
  <2>3. CASE k - m \in 1 .. l /\ k = m + (k - m)
    <3>1. s[k] = bs[k - m]
      BY <1>3, <2>3
    <3> QED
      BY <1>1, <1>4, <2>3, <3>1
  <2> QED
    BY <2>1, <2>2, <2>3
<1> QED
  BY <1>1, <1>3, <1>6 DEF s, m, l

\* A function begins with sound arguments of the types of its parameters.
LEMMA EnterGood ==
    ASSUME IInv, VInv, NEW i, Shape(i), i.bindings = interp.bindings,
           i.functions = interp.functions, AllValued(i.operands, analysis.registry),
           NEW e, NEW id, NEW vs, AllValued(vs, analysis.registry),
           NEW rest, Now(rest, Len(i.operands) + 1),
           ~IsError(EnterFunction(i, e, id, vs, rest))
    PROVE  GoodNow(EnterFunction(i, e, id, vs, rest))
<1> DEFINE f == i.functions[id]
           t(k) == TypeOf(analysis, f.parameters[k].annotation)
           wrong == {k \in DOMAIN vs : ~HasType(t(k), vs[k])}
           slots == [k \in DOMAIN vs |-> Len(i.bindings) + k]
           scope == [x \in FieldNames(f.parameters) |->
               slots[Max({k \in DOMAIN vs : f.parameters[k].name = x})]]
           frame == [task |-> "call", depth |-> i.expression_depth,
                     return_type |-> i.return_type]
           bs == [k \in DOMAIN vs |-> Binding(<<vs[k]>>, t(k), TRUE)]
           entered == [i EXCEPT !.bindings = @ \o bs,
                                !.call_stack = Append(@, f.name),
                                !.expression_depth = 0,
                                !.return_type = f.returns]
           c == <<frame>> \o rest
           env == Append(f.closure, scope)
           j == Begin(entered, f.body, env, c)
           next == EnterFunction(i, e, id, vs, rest)
           r == analysis.registry
           m == Len(i.bindings)
           n == Len(vs)
           ps == f.parameters
<1>1. /\ next = j /\ id \in DOMAIN i.functions
      /\ n = Len(ps) /\ wrong = {}
  <2>1. next = IF Len(i.call_stack) >= limits.call_depth THEN Error("Call depth")
               ELSE IF id \notin DOMAIN i.functions THEN Error("Invalid handle")
               ELSE IF n # Len(ps) THEN ArgumentCount(e)
               ELSE IF wrong # {}
               THEN TypeError(e.arguments[Min(wrong)], t(Min(wrong)))
               ELSE j
    BY DEF EnterFunction
  <2>2. ~IsError(next)
    OBVIOUS
  <2> HIDE DEF next, j, wrong, t, n, ps
  <2> QED
    BY <2>1, <2>2 DEF Error, ArgumentCount, TypeError, IsError
<1>2. /\ IsSequence(i.bindings) /\ m \in Nat
      /\ \A k \in DOMAIN i.bindings : Bound(i.bindings[k], r)
      /\ \A x \in DOMAIN i.functions :
             /\ Scoped(i.functions[x].closure, m)
             /\ IsSequence(i.functions[x].parameters)
  BY GivenFacts, SequenceFacts DEF Machine, Base, VInv, Good
<1>3. Scoped(f.closure, m) /\ IsSequence(ps)
  BY <1>1, <1>2
<1>4. f.body \in Setting.parts.bodies
  BY <1>1, GivenFacts DEF Machine, Base
<1>5. \A k \in DOMAIN vs : HasType(t(k), vs[k])
  BY <1>1
<1> HIDE DEF wrong, next, r
<1>6. /\ IsSequence(i.bindings \o bs) /\ Len(i.bindings \o bs) = m + n
      /\ n \in Nat /\ DOMAIN vs = 1 .. n
      /\ \A k \in DOMAIN (i.bindings \o bs) : Bound((i.bindings \o bs)[k], r)
  <2> DEFINE b == i.bindings
  <2>1. \A k \in DOMAIN vs : bs[k] = Binding(<<vs[k]>>, t(k), TRUE)
    OBVIOUS
  <2>2. DOMAIN bs = DOMAIN vs /\ bs = [k \in DOMAIN bs |-> bs[k]]
    OBVIOUS
  <2>3. IsSequence(b) /\ \A k \in DOMAIN b : Bound(b[k], r)
    BY <1>2
  <2>4. AllValued(vs, r)
    BY DEF r
  <2> HIDE DEF bs, t, b
  <2>5. \A k \in DOMAIN vs :
            \E u : bs[k] = Binding(<<vs[k]>>, u, TRUE) /\ HasType(u, vs[k])
    BY <1>5, <2>1
  <2>6. /\ IsSequence(b \o bs) /\ Len(b \o bs) = Len(b) + Len(vs)
        /\ Len(b) \in Nat /\ Len(vs) \in Nat /\ DOMAIN vs = 1 .. Len(vs)
        /\ \A k \in DOMAIN (b \o bs) : Bound((b \o bs)[k], r)
    BY <2>2, <2>3, <2>4, <2>5, WidenedFacts
  <2> QED
    BY <2>6 DEF b
<1>7. \A x \in DOMAIN scope : scope[x] \in 1 .. m + n
  <2> DEFINE D(x) == {k \in DOMAIN vs : f.parameters[k].name = x}
  <2>1. DOMAIN ps = DOMAIN vs
    BY <1>1, <1>3, <1>6, SequenceFacts
  <2>2. ASSUME NEW x \in DOMAIN scope PROVE scope[x] \in 1 .. m + n
    <3>1. x \in FieldNames(ps) /\ scope[x] = slots[Max(D(x))]
      OBVIOUS
    <3>2. \E k \in DOMAIN ps : ps[k].name = x
      BY <3>1 DEF FieldNames
    <3>3. D(x) # {} /\ D(x) \subseteq 1 .. n
      BY <1>6, <2>1, <3>2, SMTT(30)
    <3>4. D(x) \in SUBSET (0 .. n)
      BY <1>6, <3>3
    <3> HIDE DEF D, scope
    <3>5. Max(D(x)) \in D(x)
      BY <1>6, <3>3, <3>4, MaxFacts
    <3>6. Max(D(x)) \in 1 .. n
      BY <3>3, <3>5
    <3>7. scope[x] = m + Max(D(x))
      BY <1>6, <3>1, <3>6
    <3> QED
      BY <1>2, <1>6, <3>6, <3>7
  <2> QED
    BY <2>2
<1>8. m + n \in Nat /\ m <= m + n
  BY <1>2, <1>6
<1> HIDE DEF bs
<1>9. /\ Shape(entered) /\ entered.bindings = i.bindings \o bs
      /\ entered.functions = i.functions /\ entered.operands = i.operands
  BY DEF Shape
<1> HIDE DEF entered, scope
<1>10. Len(entered.bindings) = m + n
  BY <1>6, <1>9
<1> HIDE DEF m, n, ps
<1>11. Scoped(env, m + n)
  <2>1. Scoped(f.closure, m + n)
    BY <1>2, <1>3, <1>8, ScopedWider
  <2> DEFINE closure == f.closure
             l == m + n
  <2>2. Scoped(closure, l) /\ \A x \in DOMAIN scope : scope[x] \in 1 .. l
    BY <1>7, <2>1
  <2> HIDE DEF closure, l
  <2>3. Scoped(Append(closure, scope), l)
    BY <2>2, ScopedMore
  <2> QED
    BY <2>3 DEF closure, l
<1>12. ASSUME NEW x \in DOMAIN entered.functions
       PROVE  /\ Scoped(entered.functions[x].closure, m + n)
              /\ IsSequence(entered.functions[x].parameters)
  <2> DEFINE g == i.functions[x]
  <2>1. entered.functions[x] = g /\ Scoped(g.closure, m) /\ IsSequence(g.parameters)
    BY <1>2, <1>9
  <2> HIDE DEF g
  <2> QED
    BY <1>2, <1>8, <2>1, ScopedWider
<1>13. Now(c, Len(i.operands)) /\ IsSequence(c) /\ c # <<>>
       /\ c[1].task \in Bodies \cup Frames
  <2>1. frame.task = "call"
    OBVIOUS
  <2> HIDE DEF frame
  <2>2. Uses(frame) = 0 /\ Gives(frame) = 1
    BY <2>1, UsesFacts
  <2>3. Fit(frame, rest) /\ SaneNow(frame)
    BY <2>1 DEF Fit, Frames, SaneNow, Sane, Seeing, Composite
  <2> DEFINE l == Len(i.operands)
  <2>4. l \in Nat
    BY ValuedSequences
  <2> HIDE DEF l
  <2>5. Uses(frame) \in 0 .. l /\ l - Uses(frame) + Gives(frame) = l + 1
    BY <2>2, <2>4
  <2>6. Now(rest, l + 1)
    BY DEF l
  <2>7. Now(c, l) /\ IsSequence(c) /\ IsSequence(rest)
    BY <2>3, <2>4, <2>5, <2>6, NowMore
  <2>8. Len(c) = 1 + Len(rest) /\ c[1] = frame /\ Len(rest) \in Nat
    BY <2>7, ConsFacts, SequenceFacts
  <2> HIDE DEF c
  <2>9. c # <<>>
    BY <2>7, <2>8, SequenceFacts
  <2> QED
    BY <2>1, <2>7, <2>8, <2>9 DEF l, Frames
<1> HIDE DEF c
<1>14. Runs(c, Len(entered.operands), m + n, r)
  <2> DEFINE l == Len(i.operands)
  <2>1. Runs(c, l, m, r) /\ l \in Nat /\ l <= l
    <3>1. Runs(c, l, m, r) /\ l \in Nat
      BY <1>13, ValuedSequences DEF Now, r, m
    <3> QED
      BY <3>1
  <2> HIDE DEF l
  <2>2. Runs(c, l, m + n, r)
    BY <1>2, <1>8, <2>1, RunsWider
  <2> QED
    BY <1>9, <2>2 DEF l
<1>15. Good(j, r)
  <2> DEFINE body == f.body
             l == m + n
  <2>1. body \in Setting.parts.bodies
    BY <1>4
  <2>2. /\ IsSequence(entered.bindings)
        /\ \A k \in DOMAIN entered.bindings : Bound(entered.bindings[k], r)
    BY <1>6, <1>9
  <2>3. AllValued(entered.operands, r)
    BY <1>9 DEF r
  <2>4. Len(entered.bindings) = l /\ Scoped(env, l) /\ Runs(c, Len(entered.operands), l, r)
        /\ \A x \in DOMAIN entered.functions :
              /\ Scoped(entered.functions[x].closure, l)
              /\ IsSequence(entered.functions[x].parameters)
    BY <1>10, <1>11, <1>12, <1>14
  <2> HIDE DEF body, l, env, f
  <2>5. /\ Scoped(env, Len(entered.bindings))
        /\ Runs(c, Len(entered.operands), Len(entered.bindings), r)
        /\ \A x \in DOMAIN entered.functions :
              /\ Scoped(entered.functions[x].closure, Len(entered.bindings))
              /\ IsSequence(entered.functions[x].parameters)
    BY <2>4
  <2>6. Good(Begin(entered, body, env, c), r)
    BY <1>9, <1>13, <2>1, <2>2, <2>3, <2>5, BeginGood
  <2> QED
    BY <2>6 DEF body
<1> HIDE DEF j
<1>16. GoodNow(next)
  BY <1>1, <1>15 DEF GoodNow, r
<1> QED
  BY <1>16 DEF next

\* A function is entered; a builtin answers at once.
LEMMA CallGood == ASSUME IInv, VInv, ApplyCall PROVE VInv'
<1> DEFINE e == Top.expr
           n == Len(e.arguments)
           vs == Arguments(n)
           callee == interp.operands[n + 1]
           t == Then("called", e, Top.env)
           i == [interp EXCEPT !.operands = Drop(@, n + 1)]
           rest == <<t>> \o Rest
           entered == EnterFunction(i, e, callee.function, vs, rest)
           printed == PrintLine(interp, vs)
           line == printed.output
           closed == [Close(n + 1, NullValue) EXCEPT !.output = line]
           r == analysis.registry
<1>1. /\ interp.control # <<>> /\ Top.task = "Call"
      /\ \/ Step(0, entered)
         \/ Step(0, IF IsError(printed) THEN printed ELSE closed)
         \/ Step(0, ArgumentCount(e))
         \/ /\ callee.type = "builtin" /\ callee.name # "print"
            /\ \E v \in BuiltinResults(callee.name, vs) : Step(0, Complete(n + 1, v))
         \/ Step(0, Error("Not callable"))
  BY DEF ApplyCall, Doing
<1>2. Uses(Top) = n + 1 /\ Gives(Top) = 1 /\ n \in Nat
  <2>1. Top.expr.kind = "Call" /\ IsSequence(e.arguments)
    BY <1>1, TopExpression DEF Composite, IsExpression
  <2>2. Uses(Top) = Len(First(e)) /\ Gives(Top) = 1
    BY <1>1, UsesFacts DEF Composite
  <2>3. First(e) = <<e.callee>> \o e.arguments
    BY <2>1 DEF First, Operands
  <2>4. Len(<<e.callee>> \o e.arguments) = 1 + Len(e.arguments)
        /\ Len(e.arguments) \in Nat
    BY <2>1, ConsFacts, SequenceFacts
  <2>5. Uses(Top) = 1 + n
    BY <2>2, <2>3, <2>4
  <2> QED
    BY <2>2, <2>4, <2>5
<1>3. /\ Left \in Nat /\ n + 1 \in 0 .. Left /\ IsSequence(Rest)
      /\ Now(Rest, Left - (n + 1) + 1) /\ AllValued(interp.operands, r)
  <2>1. Uses(Top) \in 0 .. Left /\ Now(Rest, Left - Uses(Top) + Gives(Top))
    BY <1>1, TopFacts
  <2> QED
    BY <1>1, <1>2, <2>1, TopFacts
<1>4. n \in 0 .. Left /\ n + 1 \in 1 .. Left
  BY <1>2, <1>3
<1>5. AllValued(vs, r)
  BY <1>4, ArgumentsValued
<1>6. Valued(callee, r)
  BY <1>3, <1>4, ValuedSequences DEF Left
<1>7. CASE Step(0, entered)
  <2>1. t.task = "called"
    BY DEF Then
  <2> HIDE DEF t
  <2> DEFINE l == Left - (n + 1)
  <2>2. l \in Nat
    BY <1>2, <1>3
  <2>3. Now(Rest, l + 1)
    BY <1>3
  <2>4. /\ Shape(i) /\ i.bindings = interp.bindings
        /\ i.functions = interp.functions
        /\ i.operands = Drop(interp.operands, n + 1)
    BY GivenFacts DEF Shape
  <2>5. AllValued(i.operands, r) /\ Len(i.operands) = l
    <3> DEFINE k == n + 1
    <3>1. k \in 0 .. Left
      BY <1>3
    <3> HIDE DEF k, r
    <3>2. AllValued(Drop(interp.operands, k), r)
          /\ Len(Drop(interp.operands, k)) = Left - k
      BY <1>3, <3>1, ValuedSequences DEF Left
    <3> QED
      BY <2>4, <3>2 DEF k
  <2> HIDE DEF l
  <2>6. SaneNow(t) /\ Fit(t, Rest) /\ Uses(t) = 1 /\ Gives(t) = 1
    BY <2>1, UsesFacts DEF SaneNow, Sane, Seeing, Composite, Fit, StatementTasks
  <2>7. l + 1 \in Nat /\ Uses(t) \in 0 .. (l + 1)
        /\ (l + 1) - Uses(t) + Gives(t) = l + 1
    BY <2>2, <2>6
  <2>8. Now(rest, l + 1)
    BY <2>3, <2>6, <2>7, NowMore
  <2>9. Now(rest, Len(i.operands) + 1)
    BY <2>5, <2>8
  <2> DEFINE id == callee.function
  <2>10. AllValued(i.operands, analysis.registry) /\ AllValued(vs, analysis.registry)
    BY <1>5, <2>5
  <2> HIDE DEF i, rest, id, vs, e
  <2>11. ~IsError(EnterFunction(i, e, id, vs, rest))
             => GoodNow(EnterFunction(i, e, id, vs, rest))
    BY <2>4, <2>9, <2>10, EnterGood
  <2>12. ~IsError(entered) => GoodNow(entered)
    BY <2>11 DEF id
  <2> HIDE DEF entered
  <2> QED
    BY <1>1, <1>7, <2>12, TaskGood
<1>8. CASE Step(0, IF IsError(printed) THEN printed ELSE closed)
  <2> DEFINE j == Close(n + 1, NullValue)
             next == IF IsError(printed) THEN printed ELSE closed
  <2>1. GoodNow(j) /\ Shape(j)
    <3>1. Valued(NullValue, r)
      BY GivenValued
    <3> DEFINE k == n + 1
               v == NullValue
    <3>2. k = Uses(Top) /\ Valued(v, analysis.registry)
      BY <1>2, <3>1
    <3> HIDE DEF k, v
    <3>3. GoodNow(Close(k, v))
      BY <1>1, <1>2, <3>2, CloseGood
    <3>4. Shape(j)
      BY GivenFacts DEF Shape, Close
    <3> QED
      BY <3>3, <3>4 DEF k, v
  <2> HIDE DEF j, line
  <2>2. /\ closed.bindings = j.bindings /\ closed.functions = j.functions
        /\ closed.operands = j.operands /\ closed.control = j.control
    BY <2>1 DEF Shape, j
  <2> HIDE DEF closed, printed
  <2>3. GoodNow(closed)
    BY <2>1, <2>2 DEF GoodNow, Good
  <2>4. ~IsError(next) => GoodNow(next)
    BY <2>3
  <2> HIDE DEF next
  <2> QED
    BY <1>1, <1>8, <2>4, TaskGood DEF next
<1>9. CASE Step(0, ArgumentCount(e))
  <2> DEFINE next == ArgumentCount(e)
  <2>1. IsError(next)
    BY DEF ArgumentCount, IsError
  <2> HIDE DEF next
  <2> QED
    BY <1>1, <1>9, <2>1, TaskGood DEF next
<1>10. ASSUME callee.type = "builtin", callee.name # "print",
              NEW v \in BuiltinResults(callee.name, vs), Step(0, Complete(n + 1, v))
       PROVE  VInv'
  <2>1. callee.name \in DOMAIN Builtins
    BY <1>6, <1>10, PartsValued
  <2>2. Outcomes(v, r)
    <3> DEFINE name == callee.name
    <3>1. name \in DOMAIN Builtins /\ v \in BuiltinResults(name, vs)
      BY <1>10, <2>1
    <3> HIDE DEF name, vs
    <3>2. Simple(v)
      BY <3>1, BuiltinSimple
    <3> QED
      BY <3>2, SimpleOutcome
  <2> DEFINE k == n + 1
  <2>3. k = Uses(Top) /\ Step(0, Complete(k, v)) /\ Outcomes(v, analysis.registry)
    BY <1>2, <1>10, <2>2
  <2> HIDE DEF k
  <2>4. ~IsError(Complete(k, v)) => GoodNow(Complete(k, v))
    BY <1>1, <1>2, <2>3, CompleteGood
  <2> QED
    BY <1>1, <2>3, <2>4, TaskGood
<1>11. CASE Step(0, Error("Not callable"))
  <2> DEFINE next == Error("Not callable")
  <2>1. IsError(next)
    BY ErrorFacts
  <2> HIDE DEF next
  <2> QED
    BY <1>1, <1>11, <2>1, TaskGood DEF next
<1> HIDE DEF entered, closed, printed, callee
<1> QED
  BY <1>1, <1>7, <1>8, <1>9, <1>10, <1>11

----------------------------------------------------------------------------
(* Leaving functions, loops, workers and the program *)

\* A flow goes on behind its catcher with all operands that are left.
LEMMA CaughtGood ==
    ASSUME IInv, VInv, NEW c, NEW n, Now(c, n), n <= Left
    PROVE  GoodNow([interp EXCEPT !.control = c])
<1>1. n \in Nat /\ Left \in Nat
  BY ControlGood, RunsNext DEF Now
<1>2. Len(interp.bindings) \in Nat /\ Len(interp.bindings) <= Len(interp.bindings)
  <2>1. Len(interp.bindings) \in Nat
    BY GivenFacts, SequenceFacts DEF Machine, Base
  <2> QED
    BY <2>1
<1>3. Now(c, Left)
  BY <1>1, <1>2, RunsWider DEF Now
<1> QED
  BY <1>3, ControlGood

\* The value of a function is what its caller waits for.
LEMMA LeaveGood ==
    ASSUME IInv, VInv, NEW c, NEW n, Now(c, n), c # <<>>, Head(c).task = "call",
           NEW vs, AllValued(vs, analysis.registry), n + 1 <= Len(vs)
    PROVE  GoodNow(LeaveFunction(c, vs))
<1> DEFINE j == LeaveFunction(c, vs)
           m == Len(interp.bindings)
           l == Len(vs)
<1>1. /\ j.bindings = interp.bindings /\ j.functions = interp.functions
      /\ j.operands = vs /\ j.control = Tail(c)
  BY GivenFacts DEF LeaveFunction, Shape
<1> HIDE DEF j
<1>2. Uses(Head(c)) = 0 /\ Gives(Head(c)) = 1
  BY UsesFacts
<1>3. n \in Nat /\ Now(Tail(c), n - Uses(Head(c)) + Gives(Head(c)))
  BY RunsNext DEF Now
<1>4. n - Uses(Head(c)) + Gives(Head(c)) = n + 1 /\ n + 1 \in Nat
  BY <1>2, <1>3
<1>5. m \in Nat /\ m <= m /\ l \in Nat /\ n + 1 <= l
  <2>1. m \in Nat /\ l \in Nat
    BY GivenFacts, SequenceFacts, ValuedSequences DEF Machine, Base
  <2> QED
    BY <2>1
<1>6. Runs(Tail(c), n + 1, m, analysis.registry)
  BY <1>3, <1>4 DEF Now
<1> HIDE DEF m, l
<1>7. Runs(Tail(c), l, m, analysis.registry)
  BY <1>4, <1>5, <1>6, RunsWider
<1>8. Now(j.control, Len(j.operands))
  BY <1>1, <1>7 DEF Now, m, l
<1>9. GoodNow(j)
  BY <1>1, <1>8, GoodMoved
<1> QED
  BY <1>9 DEF j

\* A flow finds behind every task that could catch it what this task needs.
LEMMA JumpedGood ==
    ASSUME IInv, VInv, Enclosed(interp.control), NEW flow, NEW n \in Nat, n <= Left,
           flow = "Return" => n + 1 <= Left,
           LET k == CatcherOf(flow)
           IN  /\ \A j \in 1 .. (k - 1) : interp.control[j].task \notin Frames
               /\ k \in DOMAIN interp.control
               => Now(Drop(interp.control, k - 1), n),
           ~IsError(Jump(flow))
    PROVE  GoodNow(Jump(flow))
<1> DEFINE c == interp.control
           k == CatcherOf(flow)
           d == Drop(c, k - 1)
<1>1. /\ k \in DOMAIN c /\ c[k].task \in Catchers(flow)
      /\ \A j \in 1 .. (k - 1) : c[j].task \notin Catchers(flow)
  BY CatcherFacts
<1>2. /\ IsSequence(c) /\ Len(c) \in Nat /\ DOMAIN c = 1 .. Len(c)
      /\ AllValued(interp.operands, analysis.registry)
  BY GivenFacts, SequenceFacts DEF Machine, Ready, VInv, Good
<1>3. \A j \in 1 .. (k - 1) : c[j].task \notin Frames
  BY <1>1 DEF Catchers, Frames
<1>4. Now(d, n)
  BY <1>1, <1>3
<1>5. d # <<>> /\ Head(d) = c[k]
  <2>1. k \in 1 .. Len(c) /\ \A j \in 1 .. (k - 1) : c[j].task # "call"
    BY <1>1, <1>2, <1>3 DEF Frames
  <2> HIDE DEF c, k
  <2> QED
    BY <1>2, <2>1, SplitFacts
<1>6. Jump(flow) =
          CASE Head(d).task = "call" -> IF flow # "Return" THEN Error("Loop control")
                                        ELSE LeaveFunction(d, interp.operands)
            [] Head(d).task = "worker" ->
                   IF flow = "Continue" THEN [interp EXCEPT !.control = d]
                   ELSE Error("Exit from worker")
            [] Head(d).task = "program" -> [interp EXCEPT !.control = d]
            [] OTHER -> [interp EXCEPT !.control = IF flow = "Break" THEN Tail(d) ELSE d]
  BY DEF Jump
<1>7. Head(d).task \in {"call", "worker", "program", "while", "for"}
  BY <1>1, <1>5 DEF Catchers
<1> HIDE DEF d, c, k
<1>8. GoodNow([interp EXCEPT !.control = d])
  BY <1>4, CaughtGood
<1>9. CASE Head(d).task = "call"
  <2> DEFINE vs == interp.operands
             left == LeaveFunction(d, vs)
  <2>1. Jump(flow) = IF flow # "Return" THEN Error("Loop control") ELSE left
    BY <1>6, <1>9
  <2>2. flow = "Return" /\ Jump(flow) = left
    <3> HIDE DEF left
    <3> QED
      BY <2>1, ErrorFacts
  <2>3. n + 1 <= Len(vs) /\ AllValued(vs, analysis.registry)
    BY <1>2, <2>2 DEF Left
  <2> HIDE DEF vs
  <2>4. GoodNow(left)
    BY <1>4, <1>5, <1>9, <2>3, LeaveGood
  <2> QED
    BY <2>2, <2>4
<1>10. CASE Head(d).task \in {"worker", "program"}
  <2> DEFINE caught == [interp EXCEPT !.control = d]
  <2>1. CASE Head(d).task = "worker"
    <3>1. Jump(flow) = IF flow = "Continue" THEN caught ELSE Error("Exit from worker")
      BY <1>6, <2>1
    <3> HIDE DEF caught
    <3>2. Jump(flow) = caught
      BY <3>1, ErrorFacts
    <3> QED
      BY <1>8, <3>2 DEF caught
  <2>2. CASE Head(d).task = "program"
    BY <1>6, <1>8, <2>2
  <2> QED
    BY <1>10, <2>1, <2>2
<1>11. CASE Head(d).task \in {"while", "for"}
  <2> DEFINE t == Head(d)
  <2>1. Jump(flow) = [interp EXCEPT !.control = IF flow = "Break" THEN Tail(d) ELSE d]
    BY <1>6, <1>11
  <2>2. Uses(t) = 0 /\ Gives(t) = 0
    BY <1>11, UsesFacts
  <2>3. Now(Tail(d), n - Uses(t) + Gives(t))
    BY <1>4, <1>5, RunsNext DEF Now
  <2>4. n - Uses(t) + Gives(t) = n
    BY <2>2
  <2>5. GoodNow([interp EXCEPT !.control = Tail(d)])
    BY <2>3, <2>4, CaughtGood
  <2> QED
    BY <1>8, <2>1, <2>5
<1> QED
  BY <1>7, <1>9, <1>10, <1>11

LEMMA JumpGood == ASSUME IInv, VInv, ExecuteJump PROVE VInv'
<1> DEFINE flow == Current.kind
           next == Jump(flow)
           c == interp.control
           n == Left
           k == CatcherOf(flow)
<1>1. /\ Step(1, next) /\ interp.control # <<>> /\ Top.task = "statements"
      /\ flow \in {"Break", "Continue"}
  BY DEF ExecuteJump, NextStatement, Doing
<1>2. Enclosed(c)
  BY <1>1, StatementFacts DEF StatementTasks, Frames
<1>3. /\ IsSequence(c) /\ DOMAIN c = 1 .. Len(c) /\ n \in Nat /\ Now(c, n)
      /\ c[1] = Top
  <2>1. IsSequence(c)
    BY GivenFacts DEF Machine, Ready
  <2> QED
    BY <1>1, <2>1, SequenceFacts, ControlGood DEF Top
<1> HIDE DEF flow
<1>4. ASSUME \A j \in 1 .. (k - 1) : c[j].task \notin Frames, k \in DOMAIN c
      PROVE  Now(Drop(c, k - 1), n)
  <2>1. c # <<>> /\ c[1].task \in Bodies \cup Frames /\ k \in 1 .. Len(c)
    BY <1>1, <1>3, <1>4 DEF Bodies
  <2> HIDE DEF c, k, n
  <2> QED
    BY <1>3, <1>4, <2>1, RunsBehind DEF Now
<1>5. n <= Left /\ flow # "Return"
  BY <1>1, <1>3
<1> HIDE DEF n
<1>6. ~IsError(next) => GoodNow(next)
  BY <1>2, <1>3, <1>4, <1>5, JumpedGood
<1> HIDE DEF next
<1> QED
  BY <1>1, <1>6, TaskGood

\* The value of a return is its operand, which a call takes over.
LEMMA FinishReturnGood == ASSUME IInv, VInv, FinishReturn PROVE VInv'
<1> DEFINE value == Top.statement.result
           e == IF value = <<>> THEN Null ELSE Head(value)
           wrong == ~HasType(interp.return_type, Operand)
           flow == "Return"
           jumped == Jump(flow)
           next == IF wrong THEN TypeError(e, interp.return_type) ELSE jumped
           c == interp.control
           n == Left - 1
           k == CatcherOf(flow)
<1>1. Step(0, next) /\ interp.control # <<>> /\ Top.task = "Return"
  BY DEF FinishReturn, Doing
<1>2. Enclosed(c)
  BY <1>1, StatementFacts DEF StatementTasks, Frames
<1>3. /\ IsSequence(c) /\ DOMAIN c = 1 .. Len(c) /\ Len(c) \in Nat
      /\ c[1] = Top /\ Rest = Drop(c, 1) /\ IsSequence(Rest)
      /\ Len(Rest) = Len(c) - 1
      /\ \A l \in 1 .. Len(c) - 1 : Rest[l] = c[l + 1]
  <2>1. IsSequence(c)
    BY GivenFacts DEF Machine, Ready
  <2> QED
    BY <1>1, <2>1, SequenceFacts, TailFacts DEF Top, Rest
<1>4. Uses(Top) = 1 /\ Gives(Top) = 0
  BY <1>1, UsesFacts
<1>5. Left \in Nat /\ 1 \in 0 .. Left /\ n \in Nat /\ Now(Rest, n)
  BY <1>1, <1>4, OperandFacts
<1>6. Behind(Rest)
  BY <1>1, StatementTop DEF StatementTasks, Frames
<1>7. k # 1
  <2>1. c[k].task \in Catchers(flow)
    BY <1>2, CatcherFacts
  <2> HIDE DEF k
  <2> QED
    BY <1>1, <1>3, <2>1 DEF Catchers
<1> HIDE DEF flow, wrong, e
<1>8. ASSUME \A j \in 1 .. (k - 1) : c[j].task \notin Frames, k \in DOMAIN c
      PROVE  Now(Drop(c, k - 1), n)
  <2> DEFINE l == k - 1
  <2>1. l \in 1 .. Len(Rest) /\ l - 1 \in 0 .. Len(c) - 1 /\ k - 1 = 1 + (l - 1)
        /\ 1 \in 0 .. Len(c) /\ l \in Nat
    BY <1>3, <1>7, <1>8
  <2>2. \A j \in 1 .. (l - 1) : j + 1 \in 1 .. (k - 1) /\ j \in 1 .. Len(c) - 1
    BY <1>3, <2>1
  <2>3. \A j \in 1 .. (l - 1) : Rest[j].task \notin Frames
    BY <1>3, <1>8, <2>2
  <2> DEFINE rest == Rest
             d == k - 1
  <2>4. d = 1 + (l - 1) /\ Now(rest, n) /\ Behind(rest) /\ rest = Drop(c, 1)
    BY <1>3, <1>5, <1>6, <2>1
  <2>5. l \in 1 .. Len(rest) /\ \A j \in 1 .. (l - 1) : rest[j].task \notin Frames
    BY <2>1, <2>3
  <2> HIDE DEF c, n, l, rest, d
  <2>6. Now(Drop(rest, l - 1), n)
    BY <2>4, <2>5, RunsBehind DEF Now, Behind
  <2>7. Drop(rest, l - 1) = Drop(c, 1 + (l - 1))
    BY <1>3, <2>1, <2>4, DropDrop
  <2> QED
    BY <2>4, <2>6, <2>7 DEF d
<1>9. n <= Left /\ n + 1 <= Left
  BY <1>5
<1> HIDE DEF n
<1>10. ~IsError(jumped) => GoodNow(jumped)
  BY <1>2, <1>5, <1>8, <1>9, JumpedGood
<1> HIDE DEF jumped
<1>11. IsError(TypeError(e, interp.return_type))
  BY DEF TypeError, IsError
<1>12. ~IsError(next) => GoodNow(next)
  BY <1>10, <1>11
<1> HIDE DEF next
<1> QED
  BY <1>1, <1>12, TaskGood

\* A function whose body ends leaves null.
LEMMA EndFunctionGood == ASSUME IInv, VInv, EndFunction PROVE VInv'
<1> DEFINE c == interp.control
           vs == <<NullValue>> \o interp.operands
           left == LeaveFunction(c, vs)
           next == IF HasType(interp.return_type, NullValue) THEN left
                   ELSE Error("Type")
           n == Left
<1>1. Step(0, next) /\ interp.control # <<>> /\ Top.task = "call"
  BY DEF EndFunction, Doing
<1>2. Now(c, n) /\ n \in Nat /\ c # <<>> /\ Head(c).task = "call"
  BY <1>1, ControlGood DEF Top
<1>3. AllValued(vs, analysis.registry) /\ Len(vs) = 1 + n
  <2>1. Valued(NullValue, analysis.registry)
    BY GivenValued
  <2> QED
    BY <2>1, ValuedSequences DEF VInv, Good, Left
<1>4. n + 1 <= Len(vs)
  BY <1>2, <1>3
<1> HIDE DEF c, vs, n
<1>5. GoodNow(left)
  BY <1>2, <1>3, <1>4, LeaveGood
<1> HIDE DEF left
<1>6. ~IsError(next) => GoodNow(next)
  BY <1>5, ErrorFacts
<1> HIDE DEF next
<1> QED
  BY <1>1, <1>6, TaskGood

\* Main is entered with nothing left to do but to exit.
LEMMA EndProgramGood == ASSUME IInv, VInv, EndProgram PROVE VInv'
<1> DEFINE slot == Len(Idle.bindings) + Cardinality(
               {k \in 1 .. Max(Mains) : program[k].kind \in {"Let", "Function"}})
           t == [task |-> "exit"]
           c == <<t>>
           entered == EnterFunction(interp, Null, slot, <<>>, c)
           bare == [Push(c) EXCEPT !.operands = <<NullValue>>]
           next == IF Mains # {} THEN entered ELSE bare
<1>1. Step(0, next) /\ interp.control # <<>> /\ Top.task = "program"
  BY DEF EndProgram, Doing
<1>2. Rest = <<>>
  BY <1>1, StatementFacts DEF StatementTasks, Placed
<1>3. t.task = "exit"
  OBVIOUS
<1> HIDE DEF slot, t
<1>4. ASSUME NEW n \in Nat PROVE Now(c, n)
  <2>1. Uses(t) = 0 /\ Gives(t) = 0 /\ SaneNow(t) /\ Fit(t, <<>>)
    BY <1>3, UsesFacts DEF Fit, SaneNow, Sane, Seeing, Composite
  <2> DEFINE d == <<>>
  <2>2. Now(d, n) /\ Fit(t, d)
    BY <2>1, RunsEmpty DEF Now
  <2>3. c = c \o d
    BY SingleFacts, EmptyFacts
  <2>4. Uses(t) \in 0 .. n /\ n - Uses(t) + Gives(t) = n
    BY <2>1
  <2> HIDE DEF d
  <2>5. Now(<<t>> \o d, n)
    BY <2>1, <2>2, <2>4, NowMore
  <2> QED
    BY <2>3, <2>5
<1>5. /\ Left \in Nat /\ Left + 1 \in Nat
      /\ AllValued(interp.operands, analysis.registry)
  <2>1. Left \in Nat
    BY ControlGood
  <2> QED
    BY <2>1 DEF VInv, Good
<1>6. ~IsError(entered) => GoodNow(entered)
  <2> DEFINE vs == <<>>
             e == Null
  <2>1. AllValued(vs, analysis.registry)
    <3>1. DOMAIN vs = {}
      OBVIOUS
    <3> QED
      BY <3>1, EmptyFacts DEF AllValued
  <2>2. Now(c, Len(interp.operands) + 1) /\ Shape(interp)
    BY <1>4, <1>5, GivenFacts DEF Left
  <2> HIDE DEF vs, e, c
  <2>3. ~IsError(EnterFunction(interp, e, slot, vs, c))
            => GoodNow(EnterFunction(interp, e, slot, vs, c))
    BY <1>5, <2>1, <2>2, EnterGood
  <2> QED
    BY <2>3 DEF vs, e
<1>7. GoodNow(bare)
  <2> DEFINE vs == <<NullValue>>
  <2>1. AllValued(vs, analysis.registry) /\ Len(vs) = 1
    <3>1. Valued(NullValue, analysis.registry)
      BY GivenValued
    <3> DEFINE v == NullValue
    <3>2. Valued(v, analysis.registry)
      BY <3>1
    <3> HIDE DEF v
    <3>3. IsSequence(<<v>>) /\ Len(<<v>>) = 1 /\ <<v>>[1] = v
      BY SingleFacts
    <3>4. DOMAIN <<v>> = {1}
      BY <3>3, SequenceFacts
    <3>5. AllValued(<<v>>, analysis.registry) /\ Len(<<v>>) = 1
      BY <3>2, <3>3, <3>4 DEF AllValued
    <3> QED
      BY <3>5 DEF v
  <2>2. /\ bare.bindings = interp.bindings /\ bare.functions = interp.functions
        /\ bare.operands = vs /\ bare.control = c \o Rest
    BY GivenFacts DEF Push, Shape
  <2>3. c \o Rest = c
    BY <1>2, SingleFacts, EmptyFacts
  <2>4. Now(c, 1)
    BY <1>4
  <2> HIDE DEF bare, vs, c
  <2>5. Now(bare.control, Len(bare.operands))
    BY <2>1, <2>2, <2>3, <2>4
  <2>6. AllValued(bare.operands, analysis.registry)
    BY <2>1, <2>2
  <2> QED
    BY <2>2, <2>5, <2>6, GoodMoved
<1> HIDE DEF entered, bare
<1>8. ~IsError(next) => GoodNow(next)
  BY <1>6, <1>7
<1> HIDE DEF next
<1> QED
  BY <1>1, <1>8, TaskGood

\* Nothing that the values depend on changes.
LEMMA ExitGood == ASSUME IInv, VInv, Exit PROVE VInv'
  BY DEF Exit, VInv, Given

LEMMA StutterGood == ASSUME VInv, UNCHANGED vars PROVE VInv'
  BY DEF VInv, vars

----------------------------------------------------------------------------
(* The program *)

\* A program begins with its builtins in scope.
LEMMA ExecuteGood == ASSUME IInv, VInv, Execute PROVE VInv'
<1> DEFINE t == [task |-> "program"]
           c == <<t>>
           env == <<BuiltinEnv, NoScope>>
           begun == Begin(interp, program, env, c)
           wrong == \E k \in Mains : program[k].parameters # <<>>
           next == IF wrong THEN Error("Main with parameters") ELSE begun
           m == Len(interp.bindings)
           r == analysis.registry
<1>1. interp = Idle
  BY DEF Execute
<1>2. CASE UNCHANGED <<Given, interp, outer>>
  BY <1>2 DEF VInv, Given
<1>3. CASE analysis.errors = {} /\ Step(0, next)
  <2>1. m \in Nat /\ m = Len(BuiltinNames) /\ DOMAIN BuiltinNames = 1 .. m
    <3> DEFINE b == Idle.bindings
    <3>1. DOMAIN b = DOMAIN BuiltinNames
      BY DEF Idle
    <3>2. IsSequence(b) /\ b = interp.bindings
      BY <1>1, GivenFacts DEF Machine, Base
    <3> HIDE DEF b
    <3>3. DOMAIN b = 1 .. m /\ m \in Nat
      BY <3>2, SequenceFacts
    <3>4. DOMAIN BuiltinNames = 1 .. Len(BuiltinNames) /\ Len(BuiltinNames) \in Nat
      BY BuiltinFacts, SequenceFacts
    <3> DEFINE l == Len(BuiltinNames)
    <3>5. 1 .. l = 1 .. m /\ l \in Nat
      BY <3>1, <3>3, <3>4
    <3> HIDE DEF l, m
    <3>6. l = m
      <4>1. l \in 1 .. l \/ l = 0
        BY <3>5
      <4>2. m \in 1 .. m \/ m = 0
        BY <3>3
      <4>3. l <= m
        BY <3>3, <3>5, <4>1
      <4>4. m <= l
        BY <3>3, <3>5, <4>2
      <4> QED
        BY <3>3, <3>5, <4>3, <4>4
    <3> QED
      BY <3>3, <3>4, <3>6 DEF l
  <2>2. Scoped(env, m)
    <3>1. ASSUME NEW x \in DOMAIN BuiltinEnv PROVE BuiltinEnv[x] \in 1 .. m
      <4>1. x \in Range(BuiltinNames)
        BY DEF BuiltinEnv
      <4>2. \E k \in DOMAIN BuiltinNames : BuiltinNames[k] = x
        BY <4>1 DEF Range
      <4>3. BuiltinEnv[x] \in DOMAIN BuiltinNames
        BY <4>1, <4>2 DEF BuiltinEnv
      <4> QED
        BY <2>1, <4>3
    <3> DEFINE a == BuiltinEnv
               b == NoScope
    <3>2. \A x \in DOMAIN a : a[x] \in 1 .. m
      BY <3>1
    <3>3. DOMAIN b = {}
      BY DEF NoScope
    <3> HIDE DEF a, b, m
    <3>4. <<a, b>> \in Seq({a, b}) /\ DOMAIN <<a, b>> = {1, 2}
          /\ <<a, b>>[1] = a /\ <<a, b>>[2] = b
      OBVIOUS
    <3>5. IsSequence(<<a, b>>)
      BY <3>4, SequenceOver
    <3> DEFINE s == <<a, b>>
    <3> HIDE DEF s
    <3>6. Scoped(s, m)
      BY <3>2, <3>3, <3>4, <3>5 DEF Scoped, s
    <3> QED
      BY <3>6 DEF s, a, b
  <2> HIDE DEF env
  <2>3. ASSUME NEW n \in Nat PROVE Runs(c, n, m, r)
    <3>1. t.task = "program" /\ c = <<t>> \o <<>>
      OBVIOUS
    <3> HIDE DEF t, c, r, m
    <3>2. Uses(t) = 0 /\ Gives(t) = 0 /\ Sane(t, m, r) /\ Fit(t, <<>>)
      BY <3>1, UsesFacts DEF Fit, Frames, Sane, Seeing, Composite
    <3> DEFINE d == <<>>
    <3>3. Runs(d, n, m, r) /\ IsSequence(d) /\ Fit(t, d)
      BY <3>2, RunsEmpty, EmptyFacts
    <3>4. Uses(t) \in 0 .. n /\ n - Uses(t) + Gives(t) = n
      BY <3>2
    <3> HIDE DEF d
    <3>5. Runs(<<t>> \o d, n, m, r)
      BY <3>2, <3>3, <3>4, RunsMore
    <3> QED
      BY <3>1, <3>5 DEF d
  <2>4. c # <<>> /\ c[1].task \in Bodies \cup Frames
    BY DEF Frames
  <2>5. /\ Shape(interp) /\ IsSequence(interp.bindings)
        /\ \A k \in DOMAIN interp.bindings : Bound(interp.bindings[k], r)
        /\ AllValued(interp.operands, r)
        /\ \A id \in DOMAIN interp.functions :
               /\ Scoped(interp.functions[id].closure, m)
               /\ IsSequence(interp.functions[id].parameters)
    BY GivenFacts DEF Machine, Base, VInv, Good
  <2>6. program \in Setting.parts.bodies
    BY GivenFacts DEF IInv, IsTree
  <2>7. Runs(c, Len(interp.operands), m, r)
    BY <2>3, <2>5, ValuedSequences
  <2> HIDE DEF c, r
  <2>8. Good(begun, r)
    BY <2>2, <2>4, <2>5, <2>6, <2>7, BeginGood
  <2> HIDE DEF begun, wrong
  <2>9. ~IsError(next) => Good(next, analysis.registry)
    BY <2>8, ErrorFacts DEF r
  <2> HIDE DEF next
  <2> QED
    BY <1>3, <2>9, StepGood
<1>4. Begin(Idle, program, env, c) = begun
  BY <1>1
<1> QED
  <2> HIDE DEF begun
  <2> QED
    BY <1>2, <1>3, <1>4 DEF Execute

\* The builtins are values, and there is nothing else at first.
LEMMA InitGood == ASSUME Init PROVE VInv
<1> DEFINE r == analysis.registry
<1>1. /\ \E c \in Cases : program = c.program /\ analysis = Analyser(c.program)
      /\ interp = Idle /\ outer = <<>>
  BY DEF Init
<1>2. /\ Idle.functions = <<>> /\ Idle.operands = <<>> /\ Idle.control = <<>>
      /\ DOMAIN Idle.bindings = DOMAIN BuiltinNames
      /\ \A k \in DOMAIN BuiltinNames : Idle.bindings[k] =
             Binding(<<BuiltinValue(BuiltinNames[k])>>, NoType, FALSE)
  BY DEF Idle
<1>3. ASSUME NEW k \in DOMAIN Idle.bindings PROVE Bound(Idle.bindings[k], r)
  <2> DEFINE v == BuiltinValue(BuiltinNames[k])
             x == Binding(<<v>>, NoType, FALSE)
  <2>1. Idle.bindings[k] = x
    BY <1>2, <1>3
  <2>2. Valued(v, r)
    <3>1. /\ v.type = "builtin" /\ v.name \in {"print"} \cup DOMAIN Builtins
          /\ ~IsError(v)
      BY <1>2, <1>3, BuiltinFacts DEF BuiltinValue, IsError
    <3> HIDE DEF v, r
    <3>2. Sound({v}, r)
      BY <3>1 DEF Sound
    <3> QED
      BY <3>2 DEF Valued
  <2> HIDE DEF v, r
  <2>3. AllValued(<<v>>, r)
    <3>1. IsSequence(<<v>>) /\ Len(<<v>>) = 1 /\ <<v>>[1] = v
      BY SingleFacts
    <3>2. DOMAIN <<v>> = {1}
      BY <3>1, SequenceFacts
    <3> QED
      BY <2>2, <3>1, <3>2 DEF AllValued
  <2>4. \A y : HasType(NoType, y)
    BY DEF HasType, NoType, PrimitiveTypes
  <2>5. /\ DOMAIN x = {"value", "annotation", "mutable"} /\ x.value = <<v>>
        /\ x.annotation = NoType
    BY DEF Binding
  <2> HIDE DEF x
  <2>6. Bound(x, r)
    BY <2>3, <2>4, <2>5 DEF Bound
  <2> QED
    BY <2>1, <2>6
<1>4. DOMAIN <<>> = {} /\ IsSequence(<<>>) /\ Len(<<>>) = 0
  BY EmptyFacts
<1>5. Good(Idle, r)
  <2> DEFINE i == Idle
             m == Len(i.bindings)
             n == 0
  <2>1. /\ DOMAIN i.functions = {} /\ i.operands = <<>> /\ i.control = <<>>
        /\ Len(i.operands) = n /\ \A k \in DOMAIN i.bindings : Bound(i.bindings[k], r)
    BY <1>2, <1>3, <1>4
  <2>2. AllValued(i.operands, r)
    BY <1>4, <2>1 DEF AllValued
  <2>3. n \in Nat
    OBVIOUS
  <2> HIDE DEF i, n
  <2>4. Runs(<<>>, n, m, r)
    BY <2>3, RunsEmpty
  <2>5. Good(i, r)
    BY <2>1, <2>2, <2>4 DEF Good
  <2> QED
    BY <2>5 DEF i
<1> HIDE DEF r
<1>6. interp.control = <<>> /\ \A k \in DOMAIN outer : FALSE
  BY <1>1, <1>2, <1>4
<1> QED
  BY <1>1, <1>5, <1>6 DEF VInv, r

----------------------------------------------------------------------------
(* The theorem *)

\* Every step of an expression keeps the values sound.
LEMMA ExpressionGood == ASSUME IInv, VInv, ExpressionStep PROVE VInv'
  BY LiteralGood, IdentifierGood, OperandsGood, ConstructGood, AssignmentGood,
     NextFieldGood, FieldGood, EndConstructGood, OperatorGood, LogicalGood,
     BooleanGood, CallGood, FinishCallGood, TargetGood, SelectGood, SelectIndexGood,
     WritableGood, LoadGood, StoreGood, RequestGood, NetworkGood DEF ExpressionStep

\* Every step of a statement does.
LEMMA StatementGood == ASSUME IInv, VInv, StatementStep PROVE VInv'
  BY SubjectGood, ReturnGood, BlockGood, WhileGood, JumpGood, DeclarationGood,
     EndStatementsGood, LetGood, FinishExpressionGood, FinishReturnGood, BranchGood,
     ArmGood, TestGood, LoopGood, ForGood, IterationGood, EndFunctionGood
     DEF StatementStep

\* Every step of a parallel statement does.
LEMMA ParallelStepGood == ASSUME IInv, VInv, ParallelStep PROVE VInv'
  BY ParallelGood, PrepareGood, WorkerGood, EndWorkerGood, ReplayGood, EndBatchGood
     DEF ParallelStep

\* The values of every interpreter are sound in every state of every execution,
\* whatever the program and whatever the analysis found in it.
THEOREM ValuesSound == Spec => [](IInv /\ VInv)
<1>1. Init => VInv
  BY InitGood
<1>2. IInv /\ VInv /\ [Next]_vars => VInv'
  BY ExecuteGood, ExpressionGood, StatementGood, ParallelStepGood, EndProgramGood,
     ExitGood, StutterGood DEF Next
<1> QED
  BY <1>1, <1>2, Invariance, PTL DEF Spec

\* The values inside a value, level by level.
Levels(g, n, v) ==
    g = [k \in 0 .. n |-> IF k = 0 THEN {v} ELSE UNION {Held(w) : w \in g[k - 1]}]
LEMMA LevelsExist ==
    ASSUME NEW n \in Nat, NEW v
    PROVE  \E g : Levels(g, n, v)
<1> DEFINE F(S) == UNION {Held(w) : w \in S}
           P(g, m) == g = [k \in 0 .. m |-> IF k = 0 THEN {v} ELSE F(g[k - 1])]
           T == {m \in 0 .. n : \E g : P(g, m)}
<1> HIDE DEF F
<1>1. 0 \in T
  <2> DEFINE g == [k \in 0 .. 0 |-> {v}]
  <2>1. g = [k \in 0 .. 0 |-> IF k = 0 THEN {v} ELSE F(g[k - 1])]
    BY SMT
  <2> HIDE DEF g
  <2>2. \E h : P(h, 0)
    BY <2>1
  <2> QED
    BY <2>2
<1>2. ASSUME NEW m \in 0 .. n - 1, m \in T PROVE m + 1 \in T
  <2>1. PICK g : P(g, m)
    BY <1>2
  <2>2. /\ g[0] = {v} /\ 0 \in 0 .. m
        /\ \A k \in 1 .. m : g[k] = F(g[k - 1])
    <3> DEFINE G(k) == IF k = 0 THEN {v} ELSE F(g[k - 1])
    <3>1. \A k \in 0 .. m : g[k] = G(k)
      <4>1. g = [k \in 0 .. m |-> G(k)]
        BY <2>1
      <4> HIDE DEF G
      <4> QED
        BY <4>1
    <3> QED
      BY <3>1
  <2> DEFINE h == [k \in 0 .. m + 1 |-> IF k = m + 1 THEN F(g[m]) ELSE g[k]]
  <2>3. /\ DOMAIN h = 0 .. m + 1 /\ h = [k \in 0 .. m + 1 |-> h[k]]
        /\ h[m + 1] = F(g[m])
        /\ \A k \in 0 .. m : h[k] = g[k]
    OBVIOUS
  <2> HIDE DEF h
  <2>4. ASSUME NEW k \in 0 .. m + 1
        PROVE  h[k] = IF k = 0 THEN {v} ELSE F(h[k - 1])
    <3>1. CASE k = m + 1
      <4>1. k - 1 = m /\ m \in 0 .. m /\ k # 0
        BY <3>1
      <4> QED
        BY <2>3, <3>1, <4>1
    <3>2. CASE k = 0
      BY <2>2, <2>3, <3>2
    <3>3. CASE k \in 1 .. m
      <4>1. k - 1 \in 0 .. m /\ k \in 0 .. m /\ k # 0
        BY <3>3
      <4> QED
        BY <2>2, <2>3, <3>3, <4>1
    <3> QED
      BY <3>1, <3>2, <3>3
  <2>5. P(h, m + 1)
    BY <2>3, <2>4
  <2> QED
    BY <2>5
<1> HIDE DEF T
<1>3. n \in T
  BY <1>1, <1>2, UpTo
<1> QED
  BY <1>3 DEF T, F, Levels

\* Sound values hold sound values, as deep as one looks.
LEMMA InsideSound ==
    ASSUME NEW r, NEW S, Sound(S, r), NEW v \in S, NEW nesting \in Nat
    PROVE  ValuesIn(v, nesting) \subseteq S
<1> DEFINE level[n \in 0 .. nesting] ==
               IF n = 0 THEN {v} ELSE UNION {Held(w) : w \in level[n - 1]}
           T == {n \in 0 .. nesting : level[n] \subseteq S}
<1>1. ValuesIn(v, nesting) = UNION {level[n] : n \in 0 .. nesting}
  BY DEF ValuesIn
<1>2. Levels(level, nesting, v)
  <2>1. \E g : Levels(g, nesting, v)
    BY LevelsExist
  <2> QED
    BY <2>1 DEF Levels
<1> HIDE DEF level
<1>3. level[0] = {v}
  BY <1>2 DEF Levels
<1>4. \A w \in S : Held(w) \subseteq S
  BY DEF Sound, Held, Range
<1>5. 0 \in T
  BY <1>3
<1>6. ASSUME NEW n \in 0 .. nesting - 1, n \in T PROVE n + 1 \in T
  <2>1. n + 1 \in 0 .. nesting /\ n + 1 # 0 /\ (n + 1) - 1 = n
    OBVIOUS
  <2>2. level[n + 1] = UNION {Held(w) : w \in level[n]}
    BY <1>2, <2>1 DEF Levels
  <2>3. level[n] \subseteq S
    BY <1>6
  <2>4. level[n + 1] \subseteq S
    BY <1>4, <2>2, <2>3
  <2> QED
    BY <2>1, <2>4
<1> HIDE DEF T
<1>7. \A n \in 0 .. nesting : n \in T
  BY <1>5, <1>6, UpTo
<1> QED
  BY <1>1, <1>7 DEF T

LEMMA AnnotationsFollow == ASSUME VInv PROVE AnnotationsHold
<1> DEFINE r == analysis.registry
<1>1. ASSUME NEW k \in DOMAIN interp.bindings,
             NEW n \in DOMAIN interp.bindings[k].value
      PROVE  LET b == interp.bindings[k]
             IN  /\ HasType(b.annotation, b.value[n])
                 /\ \A v \in ValuesIn(b.value[n], Nesting) :
                        v.type = "record" => IsRecordOf(v, r[v.name])
  <2> DEFINE b == interp.bindings[k]
             w == b.value[n]
  <2>1. Bound(b, r)
    BY DEF VInv, Good
  <2>2. HasType(b.annotation, w) /\ Valued(w, r)
    BY <2>1 DEF Bound, AllValued
  <2> HIDE DEF b, w, r
  <2>3. PICK S : w \in S /\ Sound(S, r)
    BY <2>2 DEF Valued
  <2>4. ValuesIn(w, Nesting) \subseteq S
    BY <2>3, InsideSound, NestingAssumption
  <2>5. \A v \in ValuesIn(w, Nesting) : v.type = "record" => IsRecordOf(v, r[v.name])
    BY <2>3, <2>4 DEF Sound
  <2> QED
    BY <2>2, <2>5 DEF b, w, r
<1> QED
  BY <1>1 DEF AnnotationsHold

\* A value with a type is what the type says, and keeps to it: no assignment to
\* a field, no matter how deep, no call, no capture by a worker, and no return
\* leaves a binding with a value that its annotation or a record type refuses.
THEOREM AnnotationsStay == Spec => []AnnotationsHold
<1>1. VInv => AnnotationsHold
  BY AnnotationsFollow
<1> QED
  BY <1>1, ValuesSound, PTL

----------------------------------------------------------------------------
(* Flows: the bodies they do not leave, and the tasks they stop at         *)

\* The bodies of the program that a flow does not leave.
Calm == [flow \in Flows |-> CHOOSE S \in SUBSET Parts(program).bodies :
    /\ Without(flow, S) /\ program \in S
    /\ \A b \in Parts(program).bodies : \A k \in DOMAIN b :
           Confined(flow, b[k]) \subseteq S]
\* Such bodies for every flow, those that it may not leave included.
IsCalm(g, bodies) == \A flow \in Flows :
    /\ g[flow] \subseteq bodies /\ Without(flow, g[flow])
    /\ \A b \in bodies : \A k \in DOMAIN b : Confined(flow, b[k]) \subseteq g[flow]

\* The tasks at which a flow may stop; one is the first that stops it.
Stops(flow) == CASE flow = "Break" -> {"while", "for"}
                 [] flow = "Continue" -> {"while", "for", "worker"}
                 [] flow = "Return" -> {"call"}
Caught(flow, rest) == \E k \in DOMAIN rest :
    /\ rest[k].task \in Stops(flow)
    /\ \A j \in 1 .. (k - 1) : rest[j].task \notin Catchers(flow)

\* A flow does not leave the statement, or what is to do after it stops the flow.
Kindly(s, rest, g) == \A flow \in Flows :
    (s.kind # flow /\ Passed(flow, s) \subseteq g[flow]) \/ Caught(flow, rest)
\* Faults of a batch, none of them of a flow that went too far.
Mild(faults) == IsSequence(faults)
    /\ \A k \in DOMAIN faults : faults[k].error \notin Escapes
\* So it is for the statements and bodies of a task.
Safe(t, rest, g) ==
    /\ t.task = "statements" => \A k \in DOMAIN t.todo :
           /\ Kindly(t.todo[k].statement, rest, g)
           /\ \A flow \in Flows : Confined(flow, t.todo[k].statement) \subseteq g[flow]
    /\ t.task \in {"If", "Match"} => Kindly(t.statement, rest, g)
    /\ t.task \in {"while", "For", "for"} =>
           t.statement.body \in g["Return"] \/ Caught("Return", rest)
    /\ t.task \in {"Parallel", "batch"} =>
           t.statement.body \in g["Break"] \cap g["Return"]
    /\ t.task = "Return" => Caught("Return", rest)
    /\ t.task = "batch" =>
           /\ Mild(t.faults)
           /\ \A k \in DOMAIN t.outcomes : Mild(t.outcomes[k].faults)
\* So it is for all tasks; and a function begins behind any tasks.
Secure(c, g) == IsSequence(c) /\ \A k \in DOMAIN c : Safe(c[k], Drop(c, k), g)
Bodied(functions, g) == \A id \in DOMAIN functions :
    functions[id].body \in g["Break"] \cap g["Continue"]
Orderly(i, g) == Secure(i.control, g) /\ Bodied(i.functions, g)

\* Every interpreter is in order, and no flow has gone too far.
CInv ==
    /\ Orderly(interp, Calm)
    /\ \A k \in DOMAIN outer : Orderly(outer[k], Calm)
    /\ result.status = "error" => result.fault.error \notin Escapes

\* What an accepted program's bodies are.
LEMMA CalmFacts ==
    ASSUME IInv, VInv, analysis.errors = {}
    PROVE  /\ IsCalm(Calm, Setting.parts.bodies)
           /\ \A flow \in Flows : program \in Calm[flow]
<1>1. PICK c \in Cases : program = c.program /\ analysis = Analyser(c.program)
  BY DEF VInv
<1>2. \A flow \in Flows : IsConfined(program, Parts(program), flow)
  BY <1>1, AnalyserAssumption
<1> DEFINE bodies == Parts(program).bodies
           P(flow, S) == /\ Without(flow, S) /\ program \in S
                         /\ \A b \in bodies : \A k \in DOMAIN b :
                                Confined(flow, b[k]) \subseteq S
<1>3. ASSUME NEW flow \in Flows
      PROVE  Calm[flow] \in SUBSET bodies /\ P(flow, Calm[flow])
  <2>1. \E S \in SUBSET bodies : P(flow, S)
    BY <1>2 DEF IsConfined
  <2>2. Calm[flow] = CHOOSE S \in SUBSET bodies : P(flow, S)
    BY DEF Calm
  <2> HIDE DEF P, bodies
  <2> QED
    BY <2>1, <2>2
<1>4. Setting.parts.bodies = bodies
  BY GivenFacts
<1> QED
  BY <1>3, <1>4 DEF IsCalm

LEMMA CalmKept == ASSUME UNCHANGED program PROVE Calm' = Calm
  BY DEF Calm, Without, Passed, Confined

\* Tasks without statements.
Carrying == {"statements", "If", "Match", "while", "For", "for", "Parallel",
             "batch", "Return"}
LEMMA PlainSafe ==
    ASSUME NEW t, t.task \notin Carrying, NEW rest, NEW g
    PROVE  Safe(t, rest, g)
  BY DEF Safe, Carrying

\* What is to do after the first m tasks.
LEMMA SuffixSecure ==
    ASSUME NEW c, NEW g, Secure(c, g), NEW m \in 0 .. Len(c)
    PROVE  Secure(Drop(c, m), g)
<1> DEFINE d == Drop(c, m)
<1>1. IsSequence(c)
  BY DEF Secure
<1>2. DOMAIN c = 1 .. Len(c) /\ Len(c) \in Nat
  BY <1>1, SequenceFacts
<1>3. /\ IsSequence(d) /\ Len(d) = Len(c) - m
      /\ \A k \in 1 .. Len(c) - m : d[k] = c[m + k]
  BY <1>1, DropFacts
<1>4. DOMAIN d = 1 .. Len(c) - m
  BY <1>3, SequenceFacts
<1>5. ASSUME NEW j \in DOMAIN d PROVE Safe(d[j], Drop(d, j), g)
  <2>1. j \in 0 .. Len(c) - m /\ m + j \in DOMAIN c /\ d[j] = c[m + j]
    BY <1>2, <1>3, <1>4
  <2>2. Drop(d, j) = Drop(c, m + j)
    BY <1>1, <2>1, DropDrop
  <2> QED
    BY <2>1, <2>2 DEF Secure
<1> HIDE DEF d
<1>6. Secure(d, g)
  BY <1>3, <1>5 DEF Secure
<1> QED
  BY <1>6 DEF d

\* The first task, and what is to do behind it.
LEMMA TopSecure ==
    ASSUME NEW c, NEW g, Secure(c, g), c # <<>>
    PROVE  /\ Secure(Tail(c), g) /\ Safe(Head(c), Tail(c), g) /\ Head(c) = c[1]
           /\ IsSequence(Tail(c)) /\ c = <<c[1]>> \o Tail(c)
<1>1. IsSequence(c)
  BY DEF Secure
<1>2. 1 \in 0 .. Len(c) /\ 1 \in DOMAIN c /\ Head(c) = c[1]
  BY <1>1, SequenceFacts
<1>3. Tail(c) = Drop(c, 1) /\ IsSequence(Tail(c)) /\ c = <<Head(c)>> \o Tail(c)
  BY <1>1, TailFacts
<1>4. Secure(Drop(c, 1), g)
  BY <1>2, SuffixSecure
<1>5. Safe(c[1], Drop(c, 1), g)
  BY <1>2 DEF Secure
<1> QED
  BY <1>2, <1>3, <1>4, <1>5

\* One more task.
LEMMA OneSecure ==
    ASSUME NEW c, NEW g, Secure(c, g), NEW t, Safe(t, c, g)
    PROVE  Secure(<<t>> \o c, g)
<1> DEFINE d == <<t>> \o c
<1>1. IsSequence(c) /\ DOMAIN c = 1 .. Len(c) /\ Len(c) \in Nat
  BY SequenceFacts DEF Secure
<1>2. /\ IsSequence(d) /\ Len(d) = 1 + Len(c) /\ d[1] = t
      /\ \A k \in 1 .. Len(c) : d[1 + k] = c[k]
  BY <1>1, ConsFacts
<1>3. DOMAIN d = 1 .. 1 + Len(c)
  BY <1>2, SequenceFacts
<1>4. Drop(d, 1) = c
  <2>1. c \in Seq(Range(c) \cup {t})
    BY <1>1, Widen
  <2>2. Tail(d) = c
    BY <2>1
  <2>3. d # <<>>
    OBVIOUS
  <2> QED
    BY <1>2, <2>2, <2>3, TailFacts
<1> HIDE DEF d
<1>5. ASSUME NEW j \in DOMAIN d PROVE Safe(d[j], Drop(d, j), g)
  <2>1. CASE j = 1
    BY <1>2, <1>4, <2>1
  <2>2. CASE j # 1
    <3> DEFINE k == j - 1
    <3>1. /\ k \in DOMAIN c /\ k \in 1 .. Len(c) /\ j = 1 + k
          /\ 1 \in 0 .. Len(d) /\ k \in 0 .. Len(d) - 1
      BY <1>1, <1>2, <1>3, <2>2
    <3> HIDE DEF k
    <3>2. Drop(Drop(d, 1), k) = Drop(d, 1 + k)
      BY <1>2, <3>1, DropDrop
    <3>3. d[j] = c[k] /\ Drop(d, j) = Drop(c, k)
      BY <1>2, <1>4, <3>1, <3>2
    <3> QED
      BY <3>1, <3>3 DEF Secure
  <2> QED
    BY <2>1, <2>2
<1>6. Secure(d, g)
  BY <1>2, <1>5 DEF Secure
<1> QED
  BY <1>6 DEF d

\* Tasks without statements may be put before any others.
LEMMA ManySecure ==
    ASSUME NEW c, NEW g, Secure(c, g), NEW p, IsSequence(p),
           \A j \in DOMAIN p : p[j].task \notin Carrying
    PROVE  Secure(p \o c, g)
<1> DEFINE d == p \o c
           m == Len(p)
<1>1. IsSequence(c) /\ DOMAIN c = 1 .. Len(c) /\ Len(c) \in Nat
      /\ DOMAIN p = 1 .. m /\ m \in Nat
  BY SequenceFacts DEF Secure
<1>2. /\ IsSequence(d) /\ Len(d) = m + Len(c)
      /\ \A k \in 1 .. m : d[k] = p[k]
      /\ \A k \in 1 .. Len(c) : d[m + k] = c[k]
  BY <1>1, ConcatFacts
<1>3. DOMAIN d = 1 .. m + Len(c)
  BY <1>2, SequenceFacts
<1>4. \A k \in 0 .. Len(c) : Drop(d, m + k) = Drop(c, k)
  BY <1>1, DropConcat
<1> HIDE DEF d, m
<1>5. ASSUME NEW j \in DOMAIN d PROVE Safe(d[j], Drop(d, j), g)
  <2>1. CASE j \in 1 .. m
    BY <1>1, <1>2, <2>1, PlainSafe
  <2>2. CASE j \notin 1 .. m
    <3> DEFINE k == j - m
    <3>1. k \in 1 .. Len(c) /\ k \in DOMAIN c /\ j = m + k /\ k \in 0 .. Len(c)
      BY <1>1, <1>3, <2>2
    <3> HIDE DEF k
    <3>2. d[j] = c[k] /\ Drop(d, j) = Drop(c, k)
      BY <1>2, <1>4, <3>1
    <3> QED
      BY <3>1, <3>2 DEF Secure
  <2> QED
    BY <2>1, <2>2
<1>6. Secure(d, g)
  BY <1>2, <1>5 DEF Secure
<1> QED
  BY <1>6 DEF d

\* A flow that is stopped is stopped behind one more task, or by it.
LEMMA CaughtMore ==
    ASSUME NEW flow \in Flows, NEW c, IsSequence(c), NEW t,
           \/ t.task \in Stops(flow)
           \/ t.task \notin Catchers(flow) /\ Caught(flow, c)
    PROVE  Caught(flow, <<t>> \o c)
<1> DEFINE d == <<t>> \o c
<1>1. DOMAIN c = 1 .. Len(c) /\ Len(c) \in Nat
  BY SequenceFacts
<1>2. /\ IsSequence(d) /\ Len(d) = 1 + Len(c) /\ d[1] = t
      /\ \A k \in 1 .. Len(c) : d[1 + k] = c[k]
  BY ConsFacts
<1>3. DOMAIN d = 1 .. 1 + Len(c)
  BY <1>2, SequenceFacts
<1> HIDE DEF d
<1>4. CASE t.task \in Stops(flow)
  <2>1. 1 \in DOMAIN d /\ 1 .. (1 - 1) = {}
    BY <1>1, <1>3
  <2> QED
    BY <1>2, <1>4, <2>1 DEF Caught, d
<1>5. CASE t.task \notin Catchers(flow) /\ Caught(flow, c)
  <2>1. PICK k \in DOMAIN c :
            /\ c[k].task \in Stops(flow)
            /\ \A j \in 1 .. (k - 1) : c[j].task \notin Catchers(flow)
    BY <1>5 DEF Caught
  <2>2. 1 + k \in DOMAIN d /\ d[1 + k] = c[k]
    BY <1>1, <1>2, <1>3
  <2>3. ASSUME NEW j \in 1 .. (1 + k - 1) PROVE d[j].task \notin Catchers(flow)
    <3>1. CASE j = 1
      BY <1>2, <1>5, <3>1
    <3>2. CASE j # 1
      <4>1. j - 1 \in 1 .. (k - 1) /\ j - 1 \in 1 .. Len(c) /\ j = 1 + (j - 1)
        BY <1>1, <3>2
      <4> QED
        BY <1>2, <2>1, <4>1
    <3> QED
      BY <3>1, <3>2
  <2> QED
    BY <2>1, <2>2, <2>3 DEF Caught, d
<1> QED
  BY <1>4, <1>5

\* The statements of a body stand before what stops the flows that leave it.
LEMMA KindlyBody ==
    ASSUME NEW g, NEW bodies, IsCalm(g, bodies), NEW body \in bodies, NEW rest,
           \A flow \in Flows : body \in g[flow] \/ Caught(flow, rest),
           NEW k \in DOMAIN body
    PROVE  /\ Kindly(body[k], rest, g)
           /\ \A flow \in Flows : Confined(flow, body[k]) \subseteq g[flow]
<1>1. ASSUME NEW flow \in Flows, body \in g[flow]
      PROVE  body[k].kind # flow /\ Passed(flow, body[k]) \subseteq g[flow]
  BY <1>1 DEF IsCalm, Without
<1>2. Kindly(body[k], rest, g)
  BY <1>1 DEF Kindly
<1> QED
  BY <1>2 DEF IsCalm

LEMMA MergedBodied ==
    ASSUME NEW g, NEW f, Bodied(f, g), NEW h, Bodied(h, g)
    PROVE  Bodied(Merged(f, h), g)
  BY DEF Bodied, Merged

\* A body begins.
LEMMA BeginOrderly ==
    ASSUME IInv, NEW g, IsCalm(g, Setting.parts.bodies), NEW i, Shape(i),
           Bodied(i.functions, g), NEW body \in Setting.parts.bodies, NEW env,
           NEW rest, Secure(rest, g),
           \A flow \in Flows : body \in g[flow] \/ Caught(flow, rest)
    PROVE  Orderly(Begin(i, body, env, rest), g)
<1> DEFINE lets == {k \in DOMAIN body : body[k].kind = "Let"}
           functions == {k \in DOMAIN body : body[k].kind = "Function"}
           declared == lets \cup functions
           slot(k) == Len(i.bindings) + Cardinality({j \in declared : j <= k})
           scope(ks) == [x \in {body[k].name : k \in ks} |->
                            slot(Max({k \in ks : body[k].name = x}))]
           visible == Extend(env, scope(functions))
           closure(k) == Extend(visible, scope(Earlier(body, k)))
           binding(k) ==
               IF k \in lets
               THEN Binding(<<>>, TypeOf(analysis, body[k].annotation), TRUE)
               ELSE Binding(<<FunctionValue(slot(k))>>, NoType, FALSE)
           function(k) ==
               [name |-> body[k].name, parameters |-> body[k].parameters,
                returns |-> TypeOf(analysis, body[k].annotation),
                body |-> body[k].body, closure |-> closure(k)]
           at(ks, id) == CHOOSE k \in ks : slot(k) = id
           bs == [n \in 1 .. Cardinality(declared) |->
                     binding(at(declared, Len(i.bindings) + n))]
           fs == [id \in {slot(k) : k \in functions} |-> function(at(functions, id))]
           todo == [k \in DOMAIN body |-> [statement |-> body[k], slot |-> slot(k)]]
           t == [task |-> "statements", env |-> visible, todo |-> todo]
           j == Begin(i, body, env, rest)
<1>1. j = [i EXCEPT !.bindings = @ \o bs, !.functions = Merged(@, fs),
                    !.control = <<t>> \o rest]
  BY DEF Begin
<1>2. \A k \in DOMAIN body :
          /\ Kindly(body[k], rest, g)
          /\ \A flow \in Flows : Confined(flow, body[k]) \subseteq g[flow]
  BY KindlyBody
<1>3. Bodied(fs, g)
  <2>1. ASSUME NEW id \in DOMAIN fs
        PROVE  fs[id].body \in g["Break"] \cap g["Continue"]
    <3> DEFINE k == at(functions, id)
    <3>1. k \in functions
      <4> HIDE DEF slot
      <4> QED
        BY <2>1
    <3>2. fs[id].body = body[k].body
      <4> HIDE DEF k, closure, slot
      <4> QED
        BY <2>1 DEF k
    <3> HIDE DEF k
    <3>3. body[k].kind = "Function" /\ k \in DOMAIN body
      BY <3>1
    <3>4. Confined("Break", body[k]) = {body[k].body}
          /\ Confined("Continue", body[k]) = {body[k].body}
      BY <3>3 DEF Confined
    <3>5. Confined("Break", body[k]) \subseteq g["Break"]
          /\ Confined("Continue", body[k]) \subseteq g["Continue"]
      BY <1>2, <3>3 DEF Flows
    <3> QED
      BY <3>2, <3>4, <3>5
  <2> HIDE DEF fs
  <2> QED
    BY <2>1 DEF Bodied
<1>4. Safe(t, rest, g)
  <2>1. /\ t.task = "statements" /\ DOMAIN t.todo = DOMAIN body
        /\ \A k \in DOMAIN body : t.todo[k].statement = body[k]
    OBVIOUS
  <2> HIDE DEF t
  <2> QED
    BY <1>2, <2>1 DEF Safe
<1> HIDE DEF t, fs, bs
<1>5. Secure(<<t>> \o rest, g)
  BY <1>4, OneSecure
<1>6. j.control = <<t>> \o rest /\ j.functions = Merged(i.functions, fs)
  BY <1>1 DEF Shape
<1>7. Bodied(Merged(i.functions, fs), g)
  BY <1>3, MergedBodied
<1> HIDE DEF j
<1>8. Orderly(j, g)
  BY <1>5, <1>6, <1>7 DEF Orderly
<1> QED
  BY <1>8 DEF j

----------------------------------------------------------------------------
(* Steps keep flows inside *)

\* The batch that waits takes the outcome of a worker.
LEMMA OutcomeOrderly ==
    ASSUME IInv, CInv, outer # <<>>, NEW faults, Mild(faults), UNCHANGED Given,
           Outcome(interp.output, faults)
    PROVE  CInv'
<1> DEFINE o == outer[1]
           t == o.control[1]
           outcome == [output |-> interp.output, faults |-> faults]
           u == [t EXCEPT !.outcomes = Append(@, outcome)]
           q == [o EXCEPT !.control[1].outcomes = Append(@, outcome)]
           g == Calm
<1>1. /\ Head(outer) = o /\ 1 \in DOMAIN outer
      /\ DOMAIN outer = 1 .. Len(outer) /\ Len(outer) \in Nat
  BY SequenceFacts DEF IInv
<1>2. /\ Machine(o, Setting) /\ Waiting(o) /\ Orderly(o, g)
  BY <1>1 DEF IInv, CInv
<1>3. /\ t.task = "batch" /\ Holds(t, o.captured_bindings, o.in_parallel_worker, Setting)
      /\ Shape(o) /\ IsSequence(o.control) /\ o.control # <<>>
  BY <1>2, TopReady DEF Machine, Waiting, Base, Ready
<1>4. DOMAIN t = BatchFields /\ IsSequence(t.outcomes)
  BY <1>3 DEF Holds, BatchFields
<1>5. /\ u.task = "batch" /\ u.statement = t.statement /\ u.faults = t.faults
      /\ u.outcomes = Append(t.outcomes, outcome)
  BY <1>3, <1>4 DEF BatchFields
<1>6. /\ q.control = [o.control EXCEPT ![1] = u] /\ q.functions = o.functions
  BY <1>3 DEF Shape
<1>7. q = interp'
  BY <1>1 DEF Outcome
<1>8. outcome.faults = faults
  OBVIOUS
<1> HIDE DEF o, u, q, outcome, g
<1>9. Orderly(q, g)
  <2> DEFINE c == o.control
             rest == Tail(c)
  <2>1. Secure(c, g) /\ c # <<>> /\ t = c[1] /\ IsSequence(c)
    BY <1>2, <1>3 DEF Orderly
  <2> HIDE DEF c
  <2>2. Secure(rest, g) /\ Safe(t, rest, g)
    BY <2>1, TopSecure
  <2> HIDE DEF rest, t
  <2>3. \A k \in DOMAIN u.outcomes : Mild(u.outcomes[k].faults)
    <3>1. /\ IsSequence(u.outcomes) /\ Len(u.outcomes) = Len(t.outcomes) + 1
          /\ \A k \in 1 .. Len(t.outcomes) : u.outcomes[k] = t.outcomes[k]
          /\ u.outcomes[Len(t.outcomes) + 1] = outcome
      BY <1>4, <1>5, Appended
    <3>2. /\ DOMAIN u.outcomes = 1 .. Len(u.outcomes) /\ Len(t.outcomes) \in Nat
          /\ DOMAIN t.outcomes = 1 .. Len(t.outcomes)
      BY <1>4, <3>1, SequenceFacts
    <3>3. \A k \in DOMAIN t.outcomes : Mild(t.outcomes[k].faults)
      BY <1>3, <2>2 DEF Safe
    <3>4. ASSUME NEW k \in DOMAIN u.outcomes PROVE Mild(u.outcomes[k].faults)
      <4>1. k \in 1 .. Len(t.outcomes) \/ k = Len(t.outcomes) + 1
        BY <3>1, <3>2
      <4> QED
        BY <1>8, <3>1, <3>2, <3>3, <4>1
    <3> QED
      BY <3>4
  <2>4. Safe(u, rest, g)
    BY <1>3, <1>5, <2>2, <2>3 DEF Safe
  <2>5. Secure(<<u>> \o rest, g)
    BY <2>2, <2>4, OneSecure
  <2>6. [c EXCEPT ![1] = u] = <<u>> \o rest
    BY <2>1, FirstReplaced DEF rest
  <2> QED
    BY <1>2, <1>6, <2>5, <2>6 DEF Orderly, c
<1>10. ASSUME NEW k \in DOMAIN outer' PROVE Orderly(outer'[k], g)
  <2>1. /\ outer' = Tail(outer) /\ IsSequence(outer')
        /\ Len(outer') = Len(outer) - 1
        /\ \A j \in 1 .. Len(outer) - 1 : outer'[j] = outer[j + 1]
    BY TailFacts DEF IInv, Outcome
  <2>2. k \in 1 .. Len(outer) - 1 /\ k + 1 \in DOMAIN outer
    BY <1>1, <2>1, SequenceFacts
  <2> QED
    BY <2>1, <2>2 DEF CInv, g
<1>11. Calm' = g
  BY CalmKept DEF Given, g
<1> QED
  BY <1>7, <1>9, <1>10, <1>11 DEF CInv, Outcome

\* A failure ends the worker or the execution.
LEMMA FailOrderly ==
    ASSUME IInv, CInv, NEW fault, fault.error \notin Escapes, UNCHANGED Given,
           Fail(fault, interp.output)
    PROVE  CInv'
<1>1. CASE outer # <<>>
  <2>1. Mild(<<fault>>)
    BY SingleFacts DEF Mild
  <2> QED
    BY <1>1, <2>1, OutcomeOrderly DEF Fail
<1>2. CASE outer = <<>>
  <2>1. /\ interp' = [interp EXCEPT !.output = interp.output] /\ outer' = outer
        /\ result' = [status |-> "error", fault |-> fault]
    BY <1>2 DEF Fail
  <2>2. interp'.functions = interp.functions /\ interp'.control = interp.control
    BY <2>1, GivenFacts DEF Shape
  <2>3. Calm' = Calm
    BY CalmKept DEF Given
  <2>4. Orderly(interp', Calm)
    BY <2>2 DEF CInv, Orderly
  <2> QED
    BY <2>1, <2>3, <2>4 DEF CInv
<1> QED
  BY <1>1, <1>2

\* What a step leads to: an error, but not of a flow, or an interpreter.
Proper(next) == IF IsError(next) THEN Harmless(next) ELSE Orderly(next, Calm)
LEMMA StepOrderly ==
    ASSUME IInv, CInv, NEW n, NEW next, Step(n, next), Proper(next)
    PROVE  CInv'
<1>1. UNCHANGED Given
  BY DEF Step, Given
<1>2. ASSUME NEW r, Harmless(r), Fail(Fault(r), interp.output) PROVE CInv'
  <2>1. Fault(r).error = r.error
    BY DEF Fault
  <2> QED
    BY <1>1, <1>2, <2>1, FailOrderly DEF Harmless
<1>3. Harmless(Error("Step limit"))
  BY DEF Harmless, Error, IsError, Escapes
<1>4. CASE interp' = next /\ UNCHANGED <<outer, result>> /\ ~IsError(next)
  <2>1. Calm' = Calm
    BY <1>1, CalmKept DEF Given
  <2> QED
    BY <1>4, <2>1 DEF CInv, Proper
<1> QED
  BY <1>2, <1>3, <1>4 DEF Step, Become, Proper, Harmless

\* Errors that are not of a flow.
LEMMA ErrorProper ==
    /\ \A cause : cause \notin Escapes => Proper(Error(cause))
    /\ \A e, t : Proper(TypeError(e, t))
    /\ \A e : Proper(ArgumentCount(e))
  BY DEF Proper, Harmless, Error, TypeError, ArgumentCount, IsError, Escapes

\* An interpreter with the functions there are, and with tasks that are secure.
LEMMA MovedProper ==
    ASSUME IInv, CInv, NEW j, Shape(j), j.functions = interp.functions,
           Secure(j.control, Calm)
    PROVE  Orderly(j, Calm) /\ Proper(j)
<1>1. Orderly(j, Calm)
  BY DEF CInv, Orderly
<1>2. ~IsError(j)
  BY DEF Shape, IsError
<1> QED
  BY <1>1, <1>2 DEF Proper

\* The next task, and those behind it.
LEMMA NextSecure ==
    ASSUME IInv, CInv, interp.control # <<>>
    PROVE  /\ Secure(interp.control, Calm) /\ Secure(Rest, Calm)
           /\ Safe(Top, Rest, Calm) /\ IsSequence(Rest)
           /\ interp.control = <<Top>> \o Rest /\ <<>> \o Rest = Rest
<1> DEFINE c == interp.control
<1>1. Secure(c, Calm) /\ c # <<>>
  BY DEF CInv, Orderly
<1> HIDE DEF c
<1>2. /\ Secure(Tail(c), Calm) /\ Safe(Head(c), Tail(c), Calm) /\ Head(c) = c[1]
      /\ IsSequence(Tail(c)) /\ c = <<c[1]>> \o Tail(c)
  BY <1>1, TopSecure
<1>3. Top = Head(c) /\ Rest = Tail(c) /\ c = interp.control
  BY DEF Top, Rest, c
<1>4. <<>> \o Tail(c) = Tail(c)
  BY <1>2, WithoutFront
<1> QED
  BY <1>1, <1>2, <1>3, <1>4

\* Other tasks in place of the next, and other operands.
LEMMA PushProper ==
    ASSUME IInv, CInv, NEW tasks, Secure(tasks \o Rest, Calm)
    PROVE  /\ Proper(Push(tasks)) /\ Proper(Open(tasks))
           /\ \A n : Proper(Take(n, tasks))
           /\ \A vs : Proper([Push(tasks) EXCEPT !.operands = vs])
           /\ \A out : Proper([Push(tasks) EXCEPT !.output = out])
<1> DEFINE good(j) == Shape(j) /\ j.functions = interp.functions
                          /\ j.control = tasks \o Rest
<1>1. \A j : good(j) => Proper(j)
  BY MovedProper
<1>2. good(Push(tasks))
  BY GivenFacts DEF Push, Shape
<1>3. ASSUME NEW n PROVE good(Take(n, tasks))
  BY GivenFacts DEF Take, Shape
<1>4. ASSUME NEW vs PROVE good([Push(tasks) EXCEPT !.operands = vs])
  BY GivenFacts DEF Push, Shape
<1>5. ASSUME NEW out PROVE good([Push(tasks) EXCEPT !.output = out])
  BY GivenFacts DEF Push, Shape
<1>6. ~Deep => good(Open(tasks))
  BY GivenFacts DEF Open, Push, Shape
<1>7. Deep => Proper(Open(tasks))
  BY ErrorProper DEF Open, TooDeep, Escapes
<1> HIDE DEF good
<1> QED
  BY <1>1, <1>2, <1>3, <1>4, <1>5, <1>6, <1>7

\* Tasks without statements in place of the next.
LEMMA PlainProper ==
    ASSUME IInv, CInv, interp.control # <<>>, NEW tasks, IsSequence(tasks),
           \A k \in DOMAIN tasks : tasks[k].task \notin Carrying
    PROVE  /\ Secure(tasks \o Rest, Calm)
           /\ Proper(Push(tasks)) /\ Proper(Open(tasks))
           /\ \A n : Proper(Take(n, tasks))
<1>1. Secure(tasks \o Rest, Calm)
  BY NextSecure, ManySecure
<1> QED
  BY <1>1, PushProper

\* Nothing in place of the next, one task or two.
LEMMA FewPlain ==
    /\ IsSequence(<<>>) /\ DOMAIN <<>> = {}
    /\ \A a : IsSequence(<<a>>) /\ \A k \in DOMAIN <<a>> : <<a>>[k] = a
    /\ \A a, b : IsSequence(<<a, b>>) /\ \A k \in DOMAIN <<a, b>> :
                                             <<a, b>>[k] \in {a, b}
<1>1. ASSUME NEW a, NEW b
      PROVE  /\ IsSequence(<<a, b>>) /\ IsSequence(<<a>>)
             /\ \A k \in DOMAIN <<a, b>> : <<a, b>>[k] \in {a, b}
             /\ \A k \in DOMAIN <<a>> : <<a>>[k] = a
  <2>1. <<a, b>> \in Seq({a, b}) /\ <<a>> \in Seq({a})
    OBVIOUS
  <2>2. IsSequence(<<a, b>>) /\ IsSequence(<<a>>)
    BY <2>1, SequenceOver
  <2> QED
    BY <2>1, <2>2
<1>2. IsSequence(<<>>) /\ DOMAIN <<>> = {}
  <2>1. <<>> \in Seq({}) /\ DOMAIN <<>> = {}
    OBVIOUS
  <2>2. IsSequence(<<>>)
    BY <2>1, SequenceOver
  <2> QED
    BY <2>1, <2>2
<1> QED
  BY <1>1, <1>2

\* A value that an expression leaves.
LEMMA CompleteProper ==
    ASSUME IInv, VInv, CInv, interp.control # <<>>, NEW v,
           Outcomes(v, analysis.registry)
    PROVE  Proper(Leaf(v)) /\ \A n : Proper(Complete(n, v))
<1>1. IsError(v) => Proper(v)
  BY PartsValued DEF Proper, Outcomes
<1>2. ASSUME NEW n PROVE Proper(Close(n, v))
  <2> DEFINE j == Close(n, v)
  <2>1. Shape(j) /\ j.functions = interp.functions /\ j.control = Rest
    BY GivenFacts DEF Close, Shape
  <2> HIDE DEF j
  <2>2. Proper(j)
    BY <2>1, NextSecure, MovedProper
  <2> QED
    BY <2>2 DEF j
<1>3. Proper(TooDeep)
  BY ErrorProper DEF TooDeep, Escapes
<1>4. \A vs : Proper([Push(<<>>) EXCEPT !.operands = vs])
  BY NextSecure, PushProper
<1>5. Proper([Push(<<>>) EXCEPT !.operands = <<v>> \o @])
  <2> DEFINE vs == <<v>> \o Push(<<>>).operands
  <2>1. [Push(<<>>) EXCEPT !.operands = <<v>> \o @]
            = [Push(<<>>) EXCEPT !.operands = vs]
    OBVIOUS
  <2> HIDE DEF vs
  <2> QED
    BY <1>4, <2>1
<1>6. Proper(Leaf(v))
  BY <1>1, <1>3, <1>5 DEF Leaf
<1>7. ASSUME NEW n PROVE Proper(Complete(n, v))
  BY <1>1, <1>2 DEF Complete
<1> QED
  BY <1>6, <1>7

\* A body that begins is an interpreter again.
LEMMA BeginProper ==
    ASSUME IInv, VInv, CInv, analysis.errors = {}, NEW i, Shape(i),
           Bodied(i.functions, Calm), NEW body \in Setting.parts.bodies, NEW env,
           NEW rest, Secure(rest, Calm),
           \A flow \in Flows : body \in Calm[flow] \/ Caught(flow, rest)
    PROVE  Orderly(Begin(i, body, env, rest), Calm) /\ Proper(Begin(i, body, env, rest))
<1> DEFINE j == Begin(i, body, env, rest)
<1>1. IsCalm(Calm, Setting.parts.bodies)
  BY CalmFacts
<1>2. Orderly(j, Calm)
  <2> DEFINE g == Calm
  <2>1. /\ IsCalm(g, Setting.parts.bodies) /\ Bodied(i.functions, g)
        /\ Secure(rest, g)
        /\ \A flow \in Flows : body \in g[flow] \/ Caught(flow, rest)
    BY <1>1
  <2> HIDE DEF g
  <2>2. Orderly(j, g)
    BY <2>1, BeginOrderly
  <2> QED
    BY <2>2 DEF g
<1>3. DOMAIN j = DOMAIN i
  BY DEF Begin
<1> HIDE DEF j
<1>4. ~IsError(j)
  BY <1>3 DEF Shape, IsError
<1>5. Orderly(j, Calm) /\ Proper(j)
  BY <1>2, <1>4 DEF Proper
<1> QED
  BY <1>5 DEF j

----------------------------------------------------------------------------
(* Expressions put tasks without statements before those there are *)

LEMMA LiteralInside == ASSUME IInv, VInv, CInv, EvaluateLiteral PROVE CInv'
<1> DEFINE v == Literal(Top.expr)
<1>1. interp.control # <<>> /\ Top.expr.kind \in Literals /\ Step(1, Leaf(v))
  BY DEF EvaluateLiteral, Doing
<1>2. Outcomes(v, analysis.registry)
  BY <1>1, LiteralValued DEF Outcomes
<1> HIDE DEF v
<1> QED
  BY <1>1, <1>2, CompleteProper, StepOrderly

LEMMA IdentifierInside == ASSUME IInv, VInv, CInv, EvaluateIdentifier PROVE CInv'
<1> DEFINE v == Lookup(Top.env, Top.expr.name)
<1>1. interp.control # <<>> /\ Top.task = "evaluate" /\ Step(1, Leaf(v))
  BY DEF EvaluateIdentifier, Doing
<1>2. ScopedNow(Top.env)
  BY <1>1, TopFacts DEF Seeing
<1>3. Outcomes(v, analysis.registry)
  BY <1>2, LookupOutcome
<1> HIDE DEF v
<1> QED
  BY <1>1, <1>3, CompleteProper, StepOrderly

\* Expressions to evaluate, and what takes their values.
LEMMA AllPlain ==
    ASSUME NEW es, IsSequence(es), NEW env, NEW t, t.task \notin Carrying
    PROVE  LET p == EvaluateAll(es, env) \o <<t>>
           IN  IsSequence(p) /\ \A k \in DOMAIN p : p[k].task \notin Carrying
<1> DEFINE q == EvaluateAll(es, env)
           w == <<t>>
           p == q \o w
<1>1. IsSequence(q) /\ DOMAIN q = DOMAIN es
      /\ \A k \in DOMAIN es : q[k] = Evaluate(es[k], env)
  BY EvaluateAllFacts
<1>2. \A k \in DOMAIN q : q[k].task \notin Carrying
  BY <1>1 DEF Evaluate, Carrying
<1>3. IsSequence(w) /\ Len(w) = 1 /\ w[1] = t
  BY SingleFacts
<1> HIDE DEF q, w
<1>4. /\ IsSequence(p) /\ Len(p) = Len(q) + Len(w)
      /\ \A k \in 1 .. Len(q) : p[k] = q[k]
      /\ \A k \in 1 .. Len(w) : p[Len(q) + k] = w[k]
  <2>1. IsSequence(q) /\ IsSequence(w)
    BY <1>1, <1>3
  <2> QED
    BY <2>1, ConcatFacts
<1>5. DOMAIN p = 1 .. Len(p) /\ Len(q) \in Nat /\ DOMAIN q = 1 .. Len(q)
  BY <1>1, <1>4, SequenceFacts
<1>6. ASSUME NEW k \in DOMAIN p PROVE p[k].task \notin Carrying
  <2>1. k \in DOMAIN q \/ k = Len(q) + 1
    BY <1>3, <1>4, <1>5
  <2>2. p[Len(q) + 1] = t
    BY <1>3, <1>4
  <2> QED
    BY <1>2, <1>4, <1>5, <2>1, <2>2
<1> QED
  BY <1>4, <1>6 DEF q, w

LEMMA OperandsInside == ASSUME IInv, VInv, CInv, EvaluateOperands PROVE CInv'
<1> DEFINE e == Top.expr
           t == Then(e.kind, e, Top.env)
           p == EvaluateAll(First(e), Top.env) \o <<t>>
<1>1. /\ interp.control # <<>> /\ Top.task = "evaluate" /\ e.kind \in Composite
      /\ Step(1, Open(p))
  BY DEF EvaluateOperands, Doing
<1>2. IsSequence(First(e))
  BY <1>1, TopExpression, FirstFacts
<1>3. t.task \notin Carrying
  BY <1>1 DEF Then, Composite, Carrying
<1> HIDE DEF t
<1>4. IsSequence(p) /\ \A k \in DOMAIN p : p[k].task \notin Carrying
  BY <1>2, <1>3, AllPlain
<1> HIDE DEF p
<1>5. Proper(Open(p))
  BY <1>1, <1>4, PlainProper
<1> QED
  BY <1>1, <1>5, StepOrderly

LEMMA ConstructInside == ASSUME IInv, VInv, CInv, EvaluateConstruct PROVE CInv'
<1> DEFINE t == ConstructTask(Top.expr, Top.env, Top.expr.members, NoScope)
           p == <<t>>
           next == IF ~Deep /\ ~IsNamed(analysis.registry, Top.expr.name)
                   THEN Error("Unknown type") ELSE Open(p)
<1>1. interp.control # <<>> /\ Step(1, next)
  BY DEF EvaluateConstruct, Doing
<1>2. t.task \notin Carrying
  BY DEF ConstructTask, Carrying
<1> HIDE DEF t
<1>3. IsSequence(p) /\ \A k \in DOMAIN p : p[k].task \notin Carrying
  BY <1>2, FewPlain
<1> HIDE DEF p
<1>4. Proper(next)
  BY <1>1, <1>3, PlainProper, ErrorProper DEF Escapes
<1> HIDE DEF next
<1> QED
  BY <1>1, <1>4, StepOrderly

\* A check or a field is evaluated before the task that asked for it.
LEMMA BeforeProper ==
    ASSUME IInv, CInv, interp.control # <<>>, NEW p, IsSequence(p),
           \A k \in DOMAIN p : p[k].task \notin Carrying
    PROVE  Proper([interp EXCEPT !.control = p \o @])
<1> DEFINE j == [interp EXCEPT !.control = p \o @]
<1>1. /\ Shape(j) /\ j.functions = interp.functions
      /\ j.control = p \o interp.control
  BY GivenFacts DEF Shape
<1>2. Secure(p \o interp.control, Calm)
  BY NextSecure, ManySecure
<1> HIDE DEF j
<1>3. Proper(j)
  BY <1>1, <1>2, MovedProper
<1> QED
  BY <1>3 DEF j

LEMMA NextFieldInside == ASSUME IInv, VInv, CInv, NextField PROVE CInv'
<1> DEFINE a == Evaluate(Head(Top.todo).value, Top.env)
           b == [task |-> "field"]
           p == <<a, b>>
           next == [interp EXCEPT !.control = p \o @]
<1>1. interp.control # <<>> /\ Step(0, next)
  BY DEF NextField, Doing
<1>2. a.task \notin Carrying /\ b.task \notin Carrying
  BY DEF Evaluate, Carrying
<1> HIDE DEF a, b
<1>3. IsSequence(p) /\ \A k \in DOMAIN p : p[k].task \notin Carrying
  BY <1>2, FewPlain
<1> HIDE DEF p
<1>4. Proper(next)
  BY <1>1, <1>3, BeforeProper
<1> HIDE DEF next
<1> QED
  BY <1>1, <1>4, StepOrderly

LEMMA FieldInside == ASSUME IInv, VInv, CInv, CheckField PROVE CInv'
<1> DEFINE construct == Head(Rest)
           m == Head(construct.todo)
           u(x) == ConstructTask(x.expr, x.env, Tail(x.todo),
                                 Merged(Only(m.name, Operand), x.fields))
           i == Take(1, <<>>)
           j == [i EXCEPT !.control[1] = u(@)]
           t == FieldContract(construct.expr.name, m.name)
           next == IF ~HasType(t, Operand) THEN TypeError(m.value, t) ELSE j
<1>1. Step(0, next) /\ interp.control # <<>> /\ Top.task = "field"
  BY DEF CheckField, Doing
<1>2. Rest # <<>> /\ IsSequence(Rest) /\ Secure(Rest, Calm) /\ <<>> \o Rest = Rest
  <2>1. Placed(Top, Rest)
    BY <1>1, NextTask
  <2> QED
    BY <1>1, <2>1, NextSecure DEF Placed, Follows
<1> DEFINE q == u(Rest[1])
<1>3. q.task \notin Carrying
  BY DEF ConstructTask, Carrying
<1>4. Shape(j) /\ j.functions = interp.functions /\ j.control = [Rest EXCEPT ![1] = q]
  <2> HIDE DEF u
  <2>1. i.control = Rest /\ Shape(i) /\ i.functions = interp.functions
    BY <1>2, GivenFacts DEF Take, Shape
  <2> HIDE DEF i
  <2>2. 1 \in DOMAIN Rest
    BY <1>2, SequenceFacts
  <2> QED
    BY <2>1, <2>2 DEF Shape
<1> HIDE DEF q, j
<1>5. Secure(<<q>> \o Tail(Rest), Calm)
  <2> DEFINE rest == Tail(Rest)
  <2>1. Secure(rest, Calm)
    BY <1>2, TopSecure
  <2> HIDE DEF rest
  <2>2. Safe(q, rest, Calm)
    BY <1>3, PlainSafe
  <2> QED
    BY <2>1, <2>2, OneSecure DEF rest
<1>6. Proper(j)
  BY <1>2, <1>4, <1>5, FirstReplaced, MovedProper
<1>7. Proper(next)
  BY <1>6, ErrorProper
<1> HIDE DEF next
<1> QED
  BY <1>1, <1>7, StepOrderly

LEMMA EndConstructInside == ASSUME IInv, VInv, CInv, EndConstruct PROVE CInv'
<1> DEFINE v == RecordValue(Top.expr.name, Top.fields)
           j == Close(0, v)
<1>1. Step(0, j) /\ interp.control # <<>>
  BY DEF EndConstruct, Doing
<1>2. Shape(j) /\ j.functions = interp.functions /\ j.control = Rest
  BY GivenFacts DEF Close, Shape
<1> HIDE DEF j
<1>3. Proper(j)
  BY <1>1, <1>2, NextSecure, MovedProper
<1> QED
  BY <1>1, <1>3, StepOrderly

LEMMA OperatorInside == ASSUME IInv, VInv, CInv, ApplyOperator PROVE CInv'
<1> DEFINE n == Len(Operands(Top.expr))
           v == ValueOf(Top.expr, Arguments(n))
<1>1. /\ interp.control # <<>> /\ Step(0, Complete(n, v))
      /\ Top.task \in {"Array", "Object", "Unary", "Binary", "Property", "Index"}
      /\ Top.expr.kind = "Binary" => Top.expr.operator \notin Logical
  BY DEF ApplyOperator, Doing
<1>2. Outcomes(v, analysis.registry)
  BY <1>1, AppliedOutcome
<1> HIDE DEF v, n
<1> QED
  BY <1>1, <1>2, CompleteProper, StepOrderly

LEMMA LogicalInside == ASSUME IInv, VInv, CInv, ApplyLogical PROVE CInv'
<1> DEFINE e == Top.expr
           v == Operand
           a == Evaluate(e.right, Top.env)
           b == Then("boolean", e, Top.env)
           p == <<a, b>>
           more == Take(1, p)
           next == IF v.type # "bool" THEN Error("Not a boolean")
                   ELSE IF v.bool = (e.operator = "||") THEN Complete(1, v)
                   ELSE more
<1>1. /\ Step(0, next) /\ interp.control # <<>> /\ Top.task = "Binary"
      /\ e.operator \in Logical
  BY DEF ApplyLogical, Doing
<1>2. Top.task \in Composite /\ e.kind = "Binary"
  BY <1>1, TopExpression DEF Composite
<1>3. First(e) = <<e.left>>
  BY <1>1, <1>2 DEF First
<1>4. Uses(Top) = 1
  BY <1>2, <1>3, UsesFacts
<1>5. Outcomes(v, analysis.registry)
  BY <1>1, <1>4, OperandFacts
<1>6. a.task \notin Carrying /\ b.task \notin Carrying
  BY DEF Evaluate, Then, Carrying
<1> HIDE DEF a, b, v
<1>7. IsSequence(p) /\ \A k \in DOMAIN p : p[k].task \notin Carrying
  BY <1>6, FewPlain
<1> HIDE DEF p
<1>8. Proper(more)
  BY <1>1, <1>7, PlainProper
<1> HIDE DEF more
<1>9. Proper(next)
  BY <1>1, <1>5, <1>8, CompleteProper, ErrorProper DEF Escapes
<1> HIDE DEF next
<1> QED
  BY <1>1, <1>9, StepOrderly

LEMMA BooleanInside == ASSUME IInv, VInv, CInv, CheckBoolean PROVE CInv'
<1> DEFINE v == Operand
           next == IF v.type # "bool" THEN Error("Not a boolean")
                   ELSE Complete(1, v)
<1>1. Step(0, next) /\ interp.control # <<>> /\ Top.task = "boolean"
  BY DEF CheckBoolean, Doing
<1>2. Outcomes(v, analysis.registry)
  BY <1>1, UsesFacts, OperandFacts
<1> HIDE DEF v
<1>3. Proper(next)
  BY <1>1, <1>2, CompleteProper, ErrorProper DEF Escapes
<1> HIDE DEF next
<1> QED
  BY <1>1, <1>3, StepOrderly

LEMMA FinishCallInside == ASSUME IInv, VInv, CInv, FinishCall PROVE CInv'
<1> DEFINE v == Operand
<1>1. Step(0, Complete(1, v)) /\ interp.control # <<>> /\ Top.task = "called"
  BY DEF FinishCall, Doing
<1>2. Outcomes(v, analysis.registry)
  BY <1>1, UsesFacts, OperandFacts
<1> HIDE DEF v
<1> QED
  BY <1>1, <1>2, CompleteProper, StepOrderly

LEMMA NetworkInside == ASSUME IInv, VInv, CInv, ApplyNetwork PROVE CInv'
<1> DEFINE e == Top.expr
           n == Len(Operands(e))
<1>1. /\ interp.control # <<>>
      /\ Top.task \in {"Connection", "Send", "Receive", "request"}
      /\ \/ Step(0, Error("Invalid configuration"))
         \/ \E answer \in Answers(e) : Step(0, Complete(n, answer))
  BY DEF ApplyNetwork, Doing
<1>2. CASE Step(0, Error("Invalid configuration"))
  <2>1. Proper(Error("Invalid configuration"))
    BY ErrorProper DEF Escapes
  <2> QED
    BY <1>2, <2>1, StepOrderly
<1>3. ASSUME NEW answer \in Answers(e), Step(0, Complete(n, answer)) PROVE CInv'
  <2>1. e.kind \in {"Connection", "Send", "Receive", "Request"}
    BY <1>1, NetworkKind
  <2> HIDE DEF e, n
  <2>2. Outcomes(answer, analysis.registry)
    BY <1>3, <2>1, AnswerValued
  <2> QED
    BY <1>1, <1>3, <2>2, CompleteProper, StepOrderly
<1> QED
  BY <1>1, <1>2, <1>3

LEMMA RequestInside == ASSUME IInv, VInv, CInv, ApplyRequest PROVE CInv'
<1> DEFINE e == Top.expr
           t == Then("request", e, Top.env)
           p == EvaluateAll(e.config, Top.env) \o <<t>>
           next == IF Operand.type # "string" THEN Error("Not a string") ELSE Push(p)
<1>1. Step(0, next) /\ interp.control # <<>> /\ Top.task = "Request"
  BY DEF ApplyRequest, Doing
<1>2. IsSequence(e.config)
  BY <1>1, TopExpression DEF Composite, IsExpression
<1>3. t.task \notin Carrying
  BY DEF Then, Carrying
<1> HIDE DEF t
<1>4. IsSequence(p) /\ \A k \in DOMAIN p : p[k].task \notin Carrying
  BY <1>2, <1>3, AllPlain
<1> HIDE DEF p
<1>5. Proper(next)
  BY <1>1, <1>4, PlainProper, ErrorProper DEF Escapes
<1> HIDE DEF next
<1> QED
  BY <1>1, <1>5, StepOrderly

\* One task without statements, or an expression and such a task.
LEMMA OnePlain ==
    ASSUME IInv, CInv, interp.control # <<>>, NEW t, t.task \notin Carrying
    PROVE  /\ Proper(Push(<<t>>)) /\ Proper(Open(<<t>>))
           /\ \A n : Proper(Take(n, <<t>>))
           /\ \A e, env : Proper(Push(<<Evaluate(e, env), t>>))
<1> DEFINE p == <<t>>
<1>1. IsSequence(p) /\ \A k \in DOMAIN p : p[k].task \notin Carrying
  BY FewPlain
<1> HIDE DEF p
<1>2. Proper(Push(p)) /\ Proper(Open(p)) /\ \A n : Proper(Take(n, p))
  BY <1>1, PlainProper
<1>3. ASSUME NEW e, NEW env PROVE Proper(Push(<<Evaluate(e, env), t>>))
  <2> DEFINE a == Evaluate(e, env)
             q == <<a, t>>
  <2>1. a.task \notin Carrying
    BY DEF Evaluate, Carrying
  <2> HIDE DEF a
  <2>2. IsSequence(q) /\ \A k \in DOMAIN q : q[k].task \notin Carrying
    BY <2>1, FewPlain
  <2> HIDE DEF q
  <2>3. Proper(Push(q))
    BY <2>2, PlainProper
  <2> QED
    BY <2>3 DEF q, a
<1> QED
  BY <1>2, <1>3 DEF p

LEMMA AssignmentInside == ASSUME IInv, VInv, CInv, EvaluateAssignment PROVE CInv'
<1> DEFINE t == TargetTask(Top.expr, Top.env, Top.expr.target, <<>>)
<1>1. Step(1, Open(<<t>>)) /\ interp.control # <<>>
  BY DEF EvaluateAssignment, Doing
<1>2. t.task \notin Carrying
  BY DEF TargetTask, Carrying
<1> HIDE DEF t
<1> QED
  BY <1>1, <1>2, OnePlain, StepOrderly

LEMMA TargetInside == ASSUME IInv, VInv, CInv, ResolveTarget PROVE CInv'
<1> DEFINE e == Top.expr
           t == Top.target
           a == SelectTask(e, Top.env, Top.path, Place(Slot(Top.env, t.name), <<>>))
           b == TargetTask(e, Top.env, t.object, <<t>> \o Top.path)
<1>1. interp.control # <<>>
      /\ \/ Step(1, Error("Undefined name")) \/ Step(1, Push(<<a>>))
         \/ Step(1, Push(<<b>>)) \/ Step(1, Error("Invalid target"))
  BY DEF ResolveTarget, Doing
<1>2. a.task \notin Carrying /\ b.task \notin Carrying
  BY DEF SelectTask, TargetTask, Carrying
<1> HIDE DEF a, b
<1>3. Proper(Push(<<a>>)) /\ Proper(Push(<<b>>))
  BY <1>1, <1>2, OnePlain
<1>4. Proper(Error("Undefined name")) /\ Proper(Error("Invalid target"))
  BY ErrorProper DEF Escapes
<1> QED
  BY <1>1, <1>3, <1>4, StepOrderly

LEMMA SelectInside == ASSUME IInv, VInv, CInv, SelectTarget PROVE CInv'
<1> DEFINE t == Head(Top.path)
           a == Selected(StringValue(t.name))
           b == [Top EXCEPT !.task = "index"]
<1>1. interp.control # <<>> /\ Top.task = "select"
      /\ \/ Step(0, Push(<<a>>)) \/ Step(0, Push(<<Evaluate(t.index, Top.env), b>>))
  BY DEF SelectTarget, Doing
<1>2. a.task \notin Carrying
  BY DEF Selected, SelectTask, Carrying
<1>3. b.task \notin Carrying
  <2>1. "task" \in DOMAIN Top
    BY <1>1, NextTask DEF HeldBy, Holds
  <2> QED
    BY <2>1 DEF Carrying
<1> HIDE DEF a, b
<1>4. Proper(Push(<<a>>)) /\ Proper(Push(<<Evaluate(t.index, Top.env), b>>))
  BY <1>1, <1>2, <1>3, OnePlain
<1> QED
  BY <1>1, <1>4, StepOrderly

LEMMA SelectIndexInside == ASSUME IInv, VInv, CInv, SelectIndex PROVE CInv'
<1> DEFINE a == Selected(Operand)
<1>1. interp.control # <<>> /\ Step(0, Take(1, <<a>>))
  BY DEF SelectIndex, Doing
<1>2. a.task \notin Carrying
  BY DEF Selected, SelectTask, Carrying
<1> HIDE DEF a
<1> QED
  BY <1>1, <1>2, OnePlain, StepOrderly

LEMMA WritableInside == ASSUME IInv, VInv, CInv, CheckWritable PROVE CInv'
<1> DEFINE e == Top.expr
           b == LoadTask(e, Top.place)
           more == Push(<<Evaluate(e.value, Top.env), b>>)
           next == IfWritable(Top.place, more)
<1>1. interp.control # <<>> /\ Step(0, next)
  BY DEF CheckWritable, Doing
<1>2. b.task \notin Carrying
  BY DEF LoadTask, Carrying
<1> HIDE DEF b
<1>3. Proper(more)
  BY <1>1, <1>2, OnePlain
<1> HIDE DEF more
<1>4. Proper(next)
  BY <1>3, ErrorProper DEF IfWritable, Escapes
<1> HIDE DEF next
<1> QED
  BY <1>1, <1>4, StepOrderly

LEMMA LoadInside == ASSUME IInv, VInv, CInv, LoadRoot PROVE CInv'
<1> DEFINE root == Root(Top.place)
           b == StoreTask(Top.expr, Top.place, root)
           next == IF IsError(root) THEN root ELSE Push(<<b>>)
<1>1. interp.control # <<>> /\ Step(0, next) /\ Top.task = "load"
  BY DEF LoadRoot, Doing
<1>2. Outcomes(root, analysis.registry)
  <2>1. Top.place.slot \in 1 .. Len(interp.bindings)
    BY <1>1, TopFacts DEF SaneNow, Sane
  <2> QED
    BY <2>1, RootOutcome
<1>3. b.task \notin Carrying
  BY DEF StoreTask, Carrying
<1> HIDE DEF b, root
<1>4. Proper(next)
  <2>1. IsError(root) => Proper(root)
    BY <1>2, PartsValued DEF Proper, Outcomes
  <2> QED
    BY <1>1, <1>3, <2>1, OnePlain
<1> HIDE DEF next
<1> QED
  BY <1>1, <1>4, StepOrderly

LEMMA StoreInside == ASSUME IInv, VInv, CInv, Store PROVE CInv'
<1> DEFINE e == Top.expr
           id == Top.place.slot
           selectors == Top.place.selectors
           t == interp.bindings[id].annotation
           root == IF selectors = <<>> THEN Operand
                   ELSE Replaced(e.value, Top.root, selectors, Operand)
           j == [Close(1, Operand) EXCEPT !.bindings[id].value = <<root>>]
           next == IF IsError(root) THEN root
                   ELSE IF ~HasType(t, root) THEN TypeError(e.value, t)
                   ELSE j
<1>1. interp.control # <<>> /\ Top.task = "store" /\ Step(0, next)
  BY DEF Store, Doing
<1>2. Outcomes(root, analysis.registry)
  BY <1>1, StoreOutcome
<1> HIDE DEF root, id, selectors, t
<1>3. Shape(j) /\ j.functions = interp.functions /\ j.control = Rest
  BY GivenFacts DEF Close, Shape
<1> HIDE DEF j
<1>4. Proper(j)
  BY <1>1, <1>3, NextSecure, MovedProper
<1>5. IsError(root) => Proper(root)
  BY <1>2, PartsValued DEF Proper, Outcomes
<1>6. Proper(next)
  BY <1>4, <1>5, ErrorProper
<1> HIDE DEF next
<1> QED
  BY <1>1, <1>6, StepOrderly

----------------------------------------------------------------------------
(* Calls: a return stops at the frame of its function *)

LEMMA EnterProper ==
    ASSUME IInv, VInv, CInv, analysis.errors = {}, NEW i, Shape(i),
           i.functions = interp.functions, NEW e, NEW id, NEW vs,
           NEW rest, Secure(rest, Calm)
    PROVE  Proper(EnterFunction(i, e, id, vs, rest))
<1> DEFINE f == i.functions[id]
           t(k) == TypeOf(analysis, f.parameters[k].annotation)
           wrong == {k \in DOMAIN vs : ~HasType(t(k), vs[k])}
           slots == [k \in DOMAIN vs |-> Len(i.bindings) + k]
           scope == [x \in FieldNames(f.parameters) |->
               slots[Max({k \in DOMAIN vs : f.parameters[k].name = x})]]
           frame == [task |-> "call", depth |-> i.expression_depth,
                     return_type |-> i.return_type]
           j == [i EXCEPT !.bindings = @ \o [k \in DOMAIN vs |->
                              Binding(<<vs[k]>>, t(k), TRUE)],
                          !.call_stack = Append(@, f.name),
                          !.expression_depth = 0,
                          !.return_type = f.returns]
           env == Append(f.closure, scope)
           begun == Begin(j, f.body, env, <<frame>> \o rest)
           next == EnterFunction(i, e, id, vs, rest)
<1>1. next = IF Len(i.call_stack) >= limits.call_depth THEN Error("Call depth")
             ELSE IF id \notin DOMAIN i.functions THEN Error("Invalid handle")
             ELSE IF Len(vs) # Len(f.parameters) THEN ArgumentCount(e)
             ELSE IF wrong # {}
                  THEN TypeError(e.arguments[Min(wrong)], t(Min(wrong)))
             ELSE begun
  BY DEF EnterFunction
<1>2. Shape(j) /\ j.functions = interp.functions
  BY DEF Shape
<1>3. frame.task = "call"
  OBVIOUS
<1> HIDE DEF j, env, frame, wrong, t
<1>4. ASSUME id \in DOMAIN i.functions PROVE Proper(begun)
  <2>1. Bodied(interp.functions, Calm)
    BY DEF CInv, Orderly
  <2>2. f.body \in Calm["Break"] \cap Calm["Continue"]
    BY <1>4, <2>1 DEF Bodied
  <2>3. f.body \in Setting.parts.bodies
    BY <1>4, GivenFacts DEF Machine, Base
  <2>4. IsSequence(rest)
    BY DEF Secure
  <2>5. Caught("Return", <<frame>> \o rest)
    BY <1>3, <2>4, CaughtMore DEF Flows, Stops
  <2>6. Secure(<<frame>> \o rest, Calm)
    <3>1. Safe(frame, rest, Calm)
      BY <1>3, PlainSafe DEF Carrying
    <3> QED
      BY <3>1, OneSecure
  <2> DEFINE body == f.body
             c == <<frame>> \o rest
  <2>7. /\ body \in Setting.parts.bodies /\ Secure(c, Calm)
        /\ \A flow \in Flows : body \in Calm[flow] \/ Caught(flow, c)
    BY <2>2, <2>3, <2>5, <2>6 DEF Flows
  <2> HIDE DEF body, c
  <2>8. Proper(Begin(j, body, env, c))
    BY <1>2, <2>1, <2>7, BeginProper
  <2> QED
    BY <2>8 DEF body, c
<1> HIDE DEF begun, next
<1>5. Proper(next)
  BY <1>1, <1>4, ErrorProper DEF Escapes
<1> QED
  BY <1>5 DEF next

LEMMA CallInside == ASSUME IInv, VInv, CInv, ApplyCall PROVE CInv'
<1> DEFINE e == Top.expr
           n == Len(e.arguments)
           vs == Arguments(n)
           callee == interp.operands[n + 1]
           t == Then("called", e, Top.env)
           i == [interp EXCEPT !.operands = Drop(@, n + 1)]
           rest == <<t>> \o Rest
           entered == EnterFunction(i, e, callee.function, vs, rest)
           printed == PrintLine(interp, vs)
           closed == [Close(n + 1, NullValue) EXCEPT !.output = printed.output]
           next == IF IsError(printed) THEN printed ELSE closed
<1>1. /\ interp.control # <<>> /\ Top.task = "Call"
      /\ \/ Step(0, entered)
         \/ Step(0, next)
         \/ Step(0, ArgumentCount(e))
         \/ /\ callee.type = "builtin" /\ callee.name # "print"
            /\ \E v \in BuiltinResults(callee.name, vs) : Step(0, Complete(n + 1, v))
         \/ Step(0, Error("Not callable"))
  BY DEF ApplyCall, Doing
<1>2. Uses(Top) = n + 1 /\ n \in Nat
  <2>1. Top.expr.kind = "Call" /\ IsSequence(e.arguments)
    BY <1>1, TopExpression DEF Composite, IsExpression
  <2>2. Uses(Top) = Len(First(e))
    BY <1>1, UsesFacts DEF Composite
  <2>3. First(e) = <<e.callee>> \o e.arguments
    BY <2>1 DEF First, Operands
  <2>4. Len(<<e.callee>> \o e.arguments) = 1 + Len(e.arguments)
        /\ Len(e.arguments) \in Nat
    BY <2>1, ConsFacts, SequenceFacts
  <2> QED
    BY <2>2, <2>3, <2>4
<1>3. analysis.errors = {} /\ n + 1 \in 1 .. Left
      /\ AllValued(interp.operands, analysis.registry)
  <2>1. Uses(Top) \in 0 .. Left /\ Left \in Nat
    BY <1>1, TopFacts
  <2>2. n + 1 \in 1 .. Left
    BY <1>2, <2>1
  <2> QED
    BY <1>1, <2>2, TopFacts
<1>4. Valued(callee, analysis.registry)
  <2> DEFINE k == n + 1
             r == analysis.registry
  <2>1. k \in 1 .. Len(interp.operands) /\ AllValued(interp.operands, r)
    BY <1>3 DEF Left
  <2> HIDE DEF k, r
  <2>2. Valued(interp.operands[k], r)
    BY <2>1, ValuedSequences
  <2> QED
    BY <2>2 DEF k, r
<1>5. Proper(entered)
  <2>1. t.task \notin Carrying
    BY DEF Then, Carrying
  <2> HIDE DEF t
  <2>2. Secure(rest, Calm)
    BY <1>1, <2>1, NextSecure, PlainSafe, OneSecure
  <2>3. Shape(i) /\ i.functions = interp.functions
    BY GivenFacts DEF Shape
  <2> HIDE DEF i, rest, vs
  <2> QED
    BY <1>3, <2>2, <2>3, EnterProper
<1>6. Proper(next)
  <2>1. /\ Shape(closed) /\ closed.functions = interp.functions
        /\ closed.control = Rest
    BY GivenFacts DEF Close, Shape
  <2> HIDE DEF closed
  <2>2. Proper(closed)
    BY <1>1, <2>1, NextSecure, MovedProper
  <2>3. IsError(printed) => Proper(printed)
    BY GivenFacts, ErrorProper DEF PrintLine, IsError, Shape, Escapes
  <2> HIDE DEF printed
  <2> QED
    BY <2>2, <2>3
<1>7. ASSUME callee.type = "builtin", callee.name # "print",
             NEW v \in BuiltinResults(callee.name, vs), Step(0, Complete(n + 1, v))
      PROVE  CInv'
  <2>1. callee.name \in DOMAIN Builtins
    BY <1>4, <1>7, PartsValued
  <2>2. Outcomes(v, analysis.registry)
    <3> DEFINE name == callee.name
    <3>1. name \in DOMAIN Builtins /\ v \in BuiltinResults(name, vs)
      BY <1>7, <2>1
    <3> HIDE DEF name, vs
    <3>2. Simple(v)
      BY <3>1, BuiltinSimple
    <3> QED
      BY <3>2, SimpleOutcome
  <2> QED
    BY <1>1, <1>7, <2>2, CompleteProper, StepOrderly
<1>8. Proper(ArgumentCount(e)) /\ Proper(Error("Not callable"))
  BY ErrorProper DEF Escapes
<1> HIDE DEF entered, next, callee, vs, n, e
<1> QED
  BY <1>1, <1>5, <1>6, <1>7, <1>8, StepOrderly

----------------------------------------------------------------------------
(* Statements *)

\* A body that begins among the functions there are.
LEMMA ScopeProper ==
    ASSUME IInv, VInv, CInv, analysis.errors = {}, NEW i, Shape(i),
           i.functions = interp.functions,
           NEW body \in Setting.parts.bodies, NEW env, NEW rest, Secure(rest, Calm),
           \A flow \in Flows : body \in Calm[flow] \/ Caught(flow, rest)
    PROVE  Proper(Scope(i, body, env, rest)) /\ Proper(Begin(i, body, env, rest))
<1>1. Bodied(i.functions, Calm)
  BY DEF CInv, Orderly
<1>2. \A w : Proper(Begin(i, body, w, rest))
  BY <1>1, BeginProper
<1> QED
  BY <1>2 DEF Scope

\* The current statement, and those that follow it.
LEMMA ContinuingSecure ==
    ASSUME IInv, VInv, CInv, interp.control # <<>>, Top.task = "statements",
           Top.todo # <<>>
    PROVE  LET c == Continuing \o Rest
           IN  /\ analysis.errors = {} /\ IsSequence(c) /\ IsSequence(Continuing)
               /\ IsSequence(Rest) /\ Secure(c, Calm)
               /\ IsStatement(Current, Setting.parts)
               /\ Kindly(Current, Rest, Calm) /\ Kindly(Current, c, Calm)
               /\ \A flow \in Flows : Confined(flow, Current) \subseteq Calm[flow]
<1> DEFINE todo == Top.todo
           t == [Top EXCEPT !.todo = Tail(@)]
           c == Continuing \o Rest
           s == Current
           g == Calm
<1>1. /\ analysis.errors = {} /\ IsSequence(Continuing) /\ IsSequence(c)
      /\ IsStatement(s, Setting.parts)
  BY ContinuingFacts, TopFacts
<1>2. Secure(Rest, g) /\ Safe(Top, Rest, g) /\ IsSequence(Rest)
  BY NextSecure
<1>3. /\ DOMAIN Top = {"task", "env", "todo"} /\ IsSequence(todo)
  BY NextTask DEF HeldBy, Holds
<1>4. t.task = "statements" /\ t.todo = Tail(todo) /\ Continuing = <<t>>
  BY <1>3 DEF Continuing
<1>5. /\ Head(todo) = todo[1] /\ 1 \in DOMAIN todo
      /\ \A k \in DOMAIN Tail(todo) :
             /\ k + 1 \in DOMAIN todo /\ Tail(todo)[k] = todo[k + 1]
  <2> HIDE DEF todo
  <2>1. todo # <<>>
    BY DEF todo
  <2>2. /\ Head(todo) = todo[1] /\ Len(todo) \in Nat \ {0}
        /\ DOMAIN todo = 1 .. Len(todo)
    BY <1>3, <2>1, SequenceFacts
  <2>3. /\ IsSequence(Tail(todo)) /\ Len(Tail(todo)) = Len(todo) - 1
        /\ \A k \in 1 .. Len(todo) - 1 : Tail(todo)[k] = todo[k + 1]
    BY <1>3, <2>1, TailFacts
  <2>4. DOMAIN Tail(todo) = 1 .. Len(todo) - 1
    BY <2>3, SequenceFacts
  <2> QED
    BY <2>2, <2>3, <2>4
<1>6. \A k \in DOMAIN todo :
          /\ Kindly(todo[k].statement, Rest, g)
          /\ \A flow \in Flows : Confined(flow, todo[k].statement) \subseteq g[flow]
  <2> HIDE DEF g
  <2> QED
    BY <1>2 DEF Safe
<1>7. Kindly(s, Rest, g) /\ \A flow \in Flows : Confined(flow, s) \subseteq g[flow]
  BY <1>5, <1>6 DEF Current
<1> HIDE DEF t, g
<1>8. Safe(t, Rest, g)
  <2> HIDE DEF todo
  <2> QED
    BY <1>4, <1>5, <1>6 DEF Safe
<1>9. Secure(<<t>> \o Rest, g)
  BY <1>2, <1>8, OneSecure
<1>10. Kindly(s, <<t>> \o Rest, g)
  <2>1. ASSUME NEW flow \in Flows, Caught(flow, Rest)
        PROVE  Caught(flow, <<t>> \o Rest)
    <3>1. t.task \notin Catchers(flow)
      BY <1>4 DEF Catchers
    <3> QED
      BY <1>2, <2>1, <3>1, CaughtMore
  <2> HIDE DEF s
  <2> QED
    BY <1>7, <2>1 DEF Kindly
<1> QED
  BY <1>1, <1>2, <1>4, <1>7, <1>9, <1>10 DEF g

\* A task of the current statement, before those that follow it.
LEMMA BeforeContinuing ==
    ASSUME IInv, VInv, CInv, interp.control # <<>>, Top.task = "statements",
           Top.todo # <<>>, NEW t, Safe(t, Continuing \o Rest, Calm)
    PROVE  /\ Secure((<<t>> \o Continuing) \o Rest, Calm)
           /\ \A e, env :
                  Secure((<<Evaluate(e, env), t>> \o Continuing) \o Rest, Calm)
<1> DEFINE k == Continuing
           c == k \o Rest
           u == <<t>>
<1>1. Secure(c, Calm) /\ IsSequence(k) /\ IsSequence(Rest) /\ IsSequence(c)
  BY ContinuingSecure
<1> HIDE DEF k
<1>2. Secure(<<t>> \o c, Calm)
  <2>1. Safe(t, c, Calm)
    BY DEF k
  <2> HIDE DEF c
  <2> QED
    BY <1>1, <2>1, OneSecure
<1>3. <<t>> \o c = (<<t>> \o k) \o Rest
  BY <1>1, RegroupTask
<1>4. ASSUME NEW e, NEW env
      PROVE  Secure((<<Evaluate(e, env), t>> \o k) \o Rest, Calm)
  <2> DEFINE a == Evaluate(e, env)
             p == <<a, t>>
             d == <<t>> \o c
  <2>1. a.task \notin Carrying
    BY DEF Evaluate, Carrying
  <2> HIDE DEF a
  <2>2. Secure(<<a>> \o d, Calm)
    <3>1. Secure(d, Calm)
      BY <1>2
    <3> HIDE DEF d
    <3>2. Safe(a, d, Calm)
      BY <2>1, PlainSafe
    <3> QED
      BY <3>1, <3>2, OneSecure
  <2>3. <<a>> \o d = p \o c
    <3> HIDE DEF c
    <3> QED
      BY <1>1, TwoTasks
  <2>4. IsSequence(p)
    BY FewPlain
  <2> HIDE DEF p
  <2>5. p \o c = (p \o k) \o Rest
    BY <1>1, <2>4, Regroup
  <2> QED
    BY <2>2, <2>3, <2>5 DEF p, a
<1> QED
  BY <1>2, <1>3, <1>4 DEF k

LEMMA SubjectInside == ASSUME IInv, VInv, CInv, ExecuteStatement PROVE CInv'
<1> DEFINE s == Current
           env == Top.env
           e == Subject(s)
           t == [task |-> s.kind, statement |-> s, env |-> env,
                 slot |-> Head(Top.todo).slot]
           c == Continuing \o Rest
           tasks == <<Evaluate(e, env), t>> \o Continuing
           next == Push(tasks)
<1>1. /\ Step(1, next) /\ interp.control # <<>> /\ Top.task = "statements"
      /\ Top.todo # <<>>
      /\ s.kind \in {"Let", "Expression", "Match", "If", "For", "Parallel"}
  BY DEF ExecuteStatement, NextStatement, Doing
<1>2. /\ Kindly(s, c, Calm)
      /\ \A flow \in Flows : Confined(flow, s) \subseteq Calm[flow]
  BY <1>1, ContinuingSecure
<1>3. t.task = s.kind /\ t.statement = s
  OBVIOUS
<1> HIDE DEF t, s, c
<1>4. s.kind = "For" => s.body \in Calm["Return"] \/ Caught("Return", c)
  <2>1. s.kind = "For" => Passed("Return", s) = {s.body}
    BY DEF Passed
  <2> QED
    BY <1>2, <2>1 DEF Kindly, Flows
<1>5. s.kind = "Parallel" => s.body \in Calm["Break"] \cap Calm["Return"]
  <2>1. s.kind = "Parallel" => Confined("Break", s) = {s.body}
                               /\ Confined("Return", s) = {s.body}
    BY DEF Confined
  <2> QED
    BY <1>2, <2>1 DEF Flows
<1>6. Safe(t, c, Calm)
  BY <1>1, <1>2, <1>3, <1>4, <1>5 DEF Safe
<1>7. Secure(tasks \o Rest, Calm)
  BY <1>1, <1>6, BeforeContinuing DEF c
<1> HIDE DEF tasks
<1>8. Proper(next)
  BY <1>7, PushProper
<1> HIDE DEF next
<1> QED
  BY <1>1, <1>8, StepOrderly

LEMMA PairFacts ==
    ASSUME NEW a, NEW b
    PROVE  <<a>> \o <<b>> = <<a, b>>
<1> DEFINE q == <<b>>
           u == <<a, b>>
           v == <<a>> \o q
<1>1. IsSequence(u) /\ Len(u) = 2 /\ u[1] = a /\ u[2] = b
  BY FewPlain
<1>2. IsSequence(q) /\ Len(q) = 1 /\ q[1] = b
  BY SingleFacts
<1> HIDE DEF q
<1>3. /\ IsSequence(v) /\ Len(v) = 1 + Len(q) /\ v[1] = a
      /\ \A k \in 1 .. Len(q) : v[1 + k] = q[k]
  BY <1>2, ConsFacts
<1> HIDE DEF u, v
<1>4. v[1 + 1] = b /\ Len(v) = 2
  BY <1>2, <1>3
<1>5. \A k \in 1 .. Len(u) : u[k] = v[k]
  BY <1>1, <1>3, <1>4
<1>6. u = v
  BY <1>1, <1>3, <1>4, <1>5, SameSequence
<1> QED
  BY <1>6 DEF q, u, v

LEMMA ReturnInside == ASSUME IInv, VInv, CInv, ExecuteReturn PROVE CInv'
<1> DEFINE s == Current
           e == Subject(s)
           t == [task |-> "Return", statement |-> s]
           a == Evaluate(e, Top.env)
           c == Continuing \o Rest
           bare == <<t>> \o Continuing
           q == (<<a>> \o <<t>>) \o Continuing
           first == [Push(bare) EXCEPT !.operands = <<NullValue>> \o @]
           next == IF s.result = <<>> THEN first ELSE Push(q)
<1>1. /\ Step(1, next) /\ interp.control # <<>> /\ Top.task = "statements"
      /\ Top.todo # <<>> /\ s.kind = "Return"
  BY DEF ExecuteReturn, NextStatement, Doing
<1>2. Kindly(s, c, Calm)
  BY <1>1, ContinuingSecure
<1>3. t.task = "Return"
  OBVIOUS
<1> HIDE DEF t, s, c
<1>4. <<a>> \o <<t>> = <<a, t>>
  BY PairFacts
<1>5. Safe(t, c, Calm)
  BY <1>1, <1>2, <1>3 DEF Safe, Kindly, Flows
<1>6. Secure(bare \o Rest, Calm) /\ Secure(q \o Rest, Calm)
  BY <1>1, <1>4, <1>5, BeforeContinuing DEF c
<1> HIDE DEF bare, q
<1>7. Proper(first) /\ Proper(Push(q))
  <2> DEFINE vs == <<NullValue>> \o Push(bare).operands
  <2>1. first = [Push(bare) EXCEPT !.operands = vs]
    OBVIOUS
  <2> HIDE DEF vs, first
  <2> QED
    BY <1>6, <2>1, PushProper
<1> HIDE DEF first
<1>8. Proper(next)
  BY <1>7
<1> HIDE DEF next
<1> QED
  BY <1>1, <1>8, StepOrderly

LEMMA BlockInside == ASSUME IInv, VInv, CInv, ExecuteBlock PROVE CInv'
<1> DEFINE s == Current
           c == Continuing \o Rest
           next == Scope(interp, s.body, Top.env, c)
<1>1. /\ Step(1, next) /\ interp.control # <<>> /\ Top.task = "statements"
      /\ Top.todo # <<>> /\ s.kind = "Block"
  BY DEF ExecuteBlock, NextStatement, Doing
<1>2. /\ analysis.errors = {} /\ Secure(c, Calm) /\ Kindly(s, c, Calm)
      /\ IsStatement(s, Setting.parts)
  BY <1>1, ContinuingSecure
<1>3. s.body \in Setting.parts.bodies
  BY <1>1, <1>2 DEF IsStatement
<1>4. \A flow \in Flows : s.body \in Calm[flow] \/ Caught(flow, c)
  <2>1. \A flow : Passed(flow, s) = {s.body}
    BY <1>1 DEF Passed
  <2> QED
    BY <1>2, <2>1 DEF Kindly
<1> HIDE DEF s, c
<1>5. Proper(next)
  BY <1>2, <1>3, <1>4, GivenFacts, ScopeProper
<1> HIDE DEF next
<1> QED
  BY <1>1, <1>5, StepOrderly

LEMMA WhileInside == ASSUME IInv, VInv, CInv, ExecuteWhile PROVE CInv'
<1> DEFINE s == Current
           t == [task |-> "while", statement |-> s, env |-> Top.env]
           c == Continuing \o Rest
           tasks == <<t>> \o Continuing
           next == Push(tasks)
<1>1. /\ Step(1, next) /\ interp.control # <<>> /\ Top.task = "statements"
      /\ Top.todo # <<>> /\ s.kind = "While"
  BY DEF ExecuteWhile, NextStatement, Doing
<1>2. Kindly(s, c, Calm)
  BY <1>1, ContinuingSecure
<1>3. t.task = "while" /\ t.statement = s
  OBVIOUS
<1> HIDE DEF t, s, c
<1>4. s.body \in Calm["Return"] \/ Caught("Return", c)
  <2>1. Passed("Return", s) = {s.body}
    BY <1>1 DEF Passed
  <2> QED
    BY <1>2, <2>1 DEF Kindly, Flows
<1>5. Safe(t, c, Calm)
  BY <1>3, <1>4 DEF Safe
<1>6. Secure(tasks \o Rest, Calm)
  BY <1>1, <1>5, BeforeContinuing DEF c
<1> HIDE DEF tasks
<1>7. Proper(next)
  BY <1>6, PushProper
<1> HIDE DEF next
<1> QED
  BY <1>1, <1>7, StepOrderly

LEMMA DeclarationInside == ASSUME IInv, VInv, CInv, ExecuteDeclaration PROVE CInv'
<1>1. /\ Step(1, Push(Continuing)) /\ interp.control # <<>>
      /\ Top.task = "statements" /\ Top.todo # <<>>
  BY DEF ExecuteDeclaration, NextStatement, Doing
<1>2. Secure(Continuing \o Rest, Calm)
  BY <1>1, ContinuingSecure
<1>3. Proper(Push(Continuing))
  BY <1>2, PushProper
<1> QED
  BY <1>1, <1>3, StepOrderly

\* The next task is done.
LEMMA PopProper ==
    ASSUME IInv, CInv, interp.control # <<>>
    PROVE  Proper(Push(<<>>)) /\ \A n : Proper(Take(n, <<>>))
<1>1. Secure(<<>> \o Rest, Calm)
  BY NextSecure
<1> QED
  BY <1>1, PushProper

LEMMA EndStatementsInside == ASSUME IInv, VInv, CInv, EndStatements PROVE CInv'
<1>1. Step(0, Push(<<>>)) /\ interp.control # <<>>
  BY DEF EndStatements, Doing
<1> QED
  BY <1>1, PopProper, StepOrderly

LEMMA FinishExpressionInside ==
    ASSUME IInv, VInv, CInv, FinishExpression PROVE CInv'
<1>1. Step(0, Take(1, <<>>)) /\ interp.control # <<>>
  BY DEF FinishExpression, Doing
<1> QED
  BY <1>1, PopProper, StepOrderly

----------------------------------------------------------------------------
(* Flows stop where they may *)

\* The catcher of a flow that is stopped is one that it may stop at.
LEMMA CatcherStops ==
    ASSUME IInv, CInv, NEW flow \in Flows, Caught(flow, interp.control)
    PROVE  LET c == interp.control
               k == CatcherOf(flow)
           IN  /\ k \in 1 .. Len(c) /\ c[k].task \in Stops(flow)
               /\ \A j \in 1 .. (k - 1) : c[j].task \notin Catchers(flow)
<1> DEFINE c == interp.control
           P(m) == /\ c[m].task \in Catchers(flow)
                   /\ \A j \in 1 .. (m - 1) : c[j].task \notin Catchers(flow)
           k == CHOOSE m \in DOMAIN c : P(m)
<1>1. DOMAIN c = 1 .. Len(c) /\ Len(c) \in Nat
  BY GivenFacts, SequenceFacts DEF Machine, Ready
<1>2. k = CatcherOf(flow)
  BY DEF CatcherOf
<1>3. Stops(flow) \subseteq Catchers(flow)
  BY DEF Stops, Catchers, Flows
<1>4. PICK n \in DOMAIN c : /\ c[n].task \in Stops(flow)
                            /\ \A j \in 1 .. (n - 1) : c[j].task \notin Catchers(flow)
  BY DEF Caught
<1>5. P(n)
  BY <1>3, <1>4
<1>6. k \in DOMAIN c /\ P(k)
  <2> HIDE DEF P, c
  <2> QED
    BY <1>5
<1> HIDE DEF k
<1>7. k = n
  <2>1. k \in Nat /\ n \in Nat /\ k \geq 1 /\ n \geq 1
    BY <1>1, <1>6
  <2>2. ~(k < n)
    <3>1. ASSUME k < n PROVE FALSE
      <4>1. k \in 1 .. (n - 1)
        BY <2>1, <3>1
      <4> QED
        BY <1>4, <1>6, <4>1
    <3> QED
      BY <3>1
  <2>3. ~(n < k)
    <3>1. ASSUME n < k PROVE FALSE
      <4>1. n \in 1 .. (k - 1)
        BY <2>1, <3>1
      <4> QED
        BY <1>5, <1>6, <4>1
    <3> QED
      BY <3>1
  <2> QED
    BY <2>1, <2>2, <2>3
<1> QED
  BY <1>1, <1>2, <1>4, <1>6, <1>7

\* Leaving a function leaves what is to do behind its frame.
LEMMA LeaveProper ==
    ASSUME IInv, CInv, NEW rest, Secure(rest, Calm), rest # <<>>, NEW vs
    PROVE  Proper(LeaveFunction(rest, vs))
<1> DEFINE j == LeaveFunction(rest, vs)
<1>1. Shape(j) /\ j.functions = interp.functions /\ j.control = Tail(rest)
  BY GivenFacts DEF LeaveFunction, Shape
<1> HIDE DEF j
<1>2. Secure(Tail(rest), Calm)
  BY TopSecure
<1>3. Proper(j)
  BY <1>1, <1>2, MovedProper
<1> QED
  BY <1>3 DEF j

LEMMA JumpProper ==
    ASSUME IInv, CInv, NEW flow \in Flows, Caught(flow, interp.control)
    PROVE  Proper(Jump(flow))
<1> DEFINE c == interp.control
           k == CatcherOf(flow)
           r == Drop(c, k - 1)
           d == Tail(r)
           t == Head(r)
<1>1. Secure(c, Calm) /\ IsSequence(c) /\ Len(c) \in Nat
  <2>1. Secure(c, Calm)
    BY DEF CInv, Orderly
  <2>2. IsSequence(c)
    BY <2>1 DEF Secure
  <2> QED
    BY <2>1, <2>2, SequenceFacts
<1>2. k \in 1 .. Len(c) /\ c[k].task \in Stops(flow)
  BY CatcherStops
<1>3. k - 1 \in 0 .. Len(c)
  BY <1>1, <1>2
<1> HIDE DEF k
<1>4. r # <<>> /\ t = c[k]
  <2>1. /\ IsSequence(r) /\ Len(r) = Len(c) - (k - 1)
        /\ \A m \in 1 .. Len(c) - (k - 1) : r[m] = c[(k - 1) + m]
    <3> DEFINE n == k - 1
    <3>1. n \in 0 .. Len(c)
      BY <1>3
    <3> HIDE DEF n, c
    <3>2. /\ IsSequence(Drop(c, n)) /\ Len(Drop(c, n)) = Len(c) - n
          /\ \A m \in 1 .. Len(c) - n : Drop(c, n)[m] = c[n + m]
      BY <1>1, <3>1, DropFacts
    <3> QED
      BY <3>2 DEF n
  <2>2. 1 \in 1 .. Len(c) - (k - 1) /\ (k - 1) + 1 = k /\ Len(r) # 0
    BY <1>1, <1>2, <2>1
  <2> QED
    BY <2>1, <2>2, SequenceFacts
<1>5. Secure(r, Calm)
  BY <1>1, <1>3, SuffixSecure
<1>6. Jump(flow) =
          CASE t.task = "call" -> IF flow # "Return" THEN Error("Loop control")
                                  ELSE LeaveFunction(r, interp.operands)
            [] t.task = "worker" ->
                   IF flow = "Continue" THEN [interp EXCEPT !.control = r]
                   ELSE Error("Exit from worker")
            [] t.task = "program" -> [interp EXCEPT !.control = r]
            [] OTHER -> [interp EXCEPT !.control = IF flow = "Break" THEN d ELSE r]
  BY DEF Jump, k
<1> HIDE DEF r, t, c
<1>7. Secure(d, Calm)
  BY <1>4, <1>5, TopSecure
<1>8. \A s : Secure(s, Calm) => Proper([interp EXCEPT !.control = s])
  <2>1. ASSUME NEW s, Secure(s, Calm) PROVE Proper([interp EXCEPT !.control = s])
    <3> DEFINE j == [interp EXCEPT !.control = s]
    <3>1. Shape(j) /\ j.functions = interp.functions /\ j.control = s
      BY GivenFacts DEF Shape
    <3> HIDE DEF j
    <3>2. Proper(j)
      BY <2>1, <3>1, MovedProper
    <3> QED
      BY <3>2 DEF j
  <2> QED
    BY <2>1
<1>9. Proper(LeaveFunction(r, interp.operands))
  BY <1>4, <1>5, LeaveProper
<1> HIDE DEF d
<1>10. CASE flow = "Return"
  <2>1. t.task = "call"
    BY <1>2, <1>4, <1>10 DEF Stops
  <2>2. Jump(flow) = LeaveFunction(r, interp.operands)
    BY <1>6, <1>10, <2>1
  <2> QED
    BY <1>9, <2>2
<1>11. CASE flow # "Return"
  <2>1. /\ flow \in {"Break", "Continue"} /\ t.task \in {"while", "for", "worker"}
        /\ t.task = "worker" => flow = "Continue"
    BY <1>2, <1>4, <1>11 DEF Stops, Flows
  <2>2. \/ Jump(flow) = [interp EXCEPT !.control = r]
        \/ Jump(flow) = [interp EXCEPT !.control = d]
    BY <1>6, <2>1
  <2> QED
    BY <1>5, <1>7, <1>8, <2>2
<1> QED
  BY <1>10, <1>11

LEMMA JumpInside == ASSUME IInv, VInv, CInv, ExecuteJump PROVE CInv'
<1> DEFINE flow == Current.kind
<1>1. /\ Step(1, Jump(flow)) /\ interp.control # <<>> /\ Top.task = "statements"
      /\ Top.todo # <<>> /\ flow \in {"Break", "Continue"}
  BY DEF ExecuteJump, NextStatement, Doing
<1>2. Kindly(Current, Rest, Calm)
  BY <1>1, ContinuingSecure
<1>3. flow \in Flows
  BY <1>1 DEF Flows
<1>4. Caught(flow, Rest)
  BY <1>2, <1>3 DEF Kindly
<1> HIDE DEF flow
<1>5. Caught(flow, <<Top>> \o Rest)
  <2>1. Top.task \notin Catchers(flow)
    BY <1>1 DEF Catchers
  <2> QED
    BY <1>1, <1>3, <1>4, <2>1, NextSecure, CaughtMore
<1>6. Caught(flow, interp.control)
  BY <1>1, <1>5, NextSecure
<1>7. Proper(Jump(flow))
  BY <1>3, <1>6, JumpProper
<1> QED
  BY <1>1, <1>7, StepOrderly

LEMMA FinishReturnInside == ASSUME IInv, VInv, CInv, FinishReturn PROVE CInv'
<1> DEFINE value == Top.statement.result
           e == IF value = <<>> THEN Null ELSE Head(value)
           next == IF ~HasType(interp.return_type, Operand)
                   THEN TypeError(e, interp.return_type) ELSE Jump("Return")
<1>1. Step(0, next) /\ interp.control # <<>> /\ Top.task = "Return"
  BY DEF FinishReturn, Doing
<1>2. Caught("Return", Rest)
  BY <1>1, NextSecure DEF Safe
<1>3. Caught("Return", <<Top>> \o Rest)
  <2>1. Top.task \notin Catchers("Return") /\ "Return" \in Flows
    BY <1>1 DEF Catchers, Flows
  <2> QED
    BY <1>1, <1>2, <2>1, NextSecure, CaughtMore
<1>4. Caught("Return", interp.control)
  BY <1>1, <1>3, NextSecure
<1>5. Proper(Jump("Return"))
  BY <1>4, JumpProper DEF Flows
<1>6. Proper(next)
  BY <1>5, ErrorProper
<1> HIDE DEF next
<1> QED
  BY <1>1, <1>6, StepOrderly

LEMMA EndFunctionInside == ASSUME IInv, VInv, CInv, EndFunction PROVE CInv'
<1> DEFINE left == LeaveFunction(interp.control, <<NullValue>> \o interp.operands)
           next == IF HasType(interp.return_type, NullValue) THEN left ELSE Error("Type")
<1>1. Step(0, next) /\ interp.control # <<>>
  BY DEF EndFunction, Doing
<1>2. Proper(left)
  BY <1>1, NextSecure, LeaveProper
<1> HIDE DEF left
<1>3. Proper(next)
  BY <1>2, ErrorProper DEF Escapes
<1> HIDE DEF next
<1> QED
  BY <1>1, <1>3, StepOrderly

----------------------------------------------------------------------------
(* Statements that take their operand *)

LEMMA LetInside == ASSUME IInv, VInv, CInv, FinishLet PROVE CInv'
<1> DEFINE slot == Top.slot
           t == interp.bindings[Top.slot].annotation
           i == Take(1, <<>>)
           v == Operand
           visible == Only(Top.statement.name, Top.slot)
           x == Rest[1]
           u == [x EXCEPT !.env = Extend(@, visible)]
           d == [Rest EXCEPT ![1] = u]
           bound == [i EXCEPT !.bindings[slot].value = <<v>>,
                              !.control[1].env = Extend(@, visible)]
           next == IF ~HasType(t, v) THEN TypeError(Top.statement.value, t)
                   ELSE bound
<1>1. Step(0, next) /\ interp.control # <<>> /\ Top.task = "Let"
  BY DEF FinishLet, Doing
<1>2. /\ Follows(Rest, "statements") /\ IsSequence(Rest) /\ Secure(Rest, Calm)
      /\ <<>> \o Rest = Rest
      /\ Ready(Rest, interp.captured_bindings, interp.in_parallel_worker, Setting)
  BY <1>1, NextTask, NextSecure DEF Placed
<1>3. Rest # <<>> /\ x.task = "statements" /\ 1 \in DOMAIN Rest
  BY <1>2, SequenceFacts DEF Follows
<1>4. DOMAIN x = {"task", "env", "todo"}
  BY <1>2, <1>3 DEF Ready, Holds
<1>5. u.task = "statements" /\ u.todo = x.todo
  BY <1>3, <1>4
<1>6. Shape(bound) /\ bound.functions = interp.functions /\ bound.control = d
  <2> HIDE DEF visible, slot, v
  <2>1. Shape(bound) /\ bound.functions = interp.functions
    BY GivenFacts DEF Take, Shape
  <2>2. bound.control = d
    BY <1>2, GivenFacts DEF Take, Shape, u
  <2> QED
    BY <2>1, <2>2
<1> HIDE DEF u, bound, t
<1>7. Secure(<<u>> \o Tail(Rest), Calm)
  <2> DEFINE rest == Tail(Rest)
  <2>1. Secure(rest, Calm) /\ Safe(x, rest, Calm)
    BY <1>2, <1>3, TopSecure
  <2> HIDE DEF rest, x
  <2>2. Safe(u, rest, Calm)
    BY <1>3, <1>5, <2>1 DEF Safe
  <2> QED
    BY <2>1, <2>2, OneSecure DEF rest
<1>8. Proper(bound)
  BY <1>2, <1>3, <1>6, <1>7, FirstReplaced, MovedProper
<1>9. Proper(next)
  BY <1>8, ErrorProper
<1> HIDE DEF next
<1> QED
  BY <1>1, <1>9, StepOrderly

\* A body that begins behind a task that took its operand.
LEMMA TakenInside ==
    ASSUME IInv, VInv, CInv, interp.control # <<>>,
           NEW body \in Setting.parts.bodies, NEW env,
           \A flow \in Flows : body \in Calm[flow] \/ Caught(flow, Rest)
    PROVE  Proper(Scope(Take(1, <<>>), body, env, Rest))
<1> DEFINE i == Take(1, <<>>)
<1>1. Shape(i) /\ i.functions = interp.functions
  BY GivenFacts DEF Take, Shape
<1> HIDE DEF i
<1>2. Secure(Rest, Calm) /\ analysis.errors = {}
  BY NextSecure, TopFacts
<1>3. Proper(Scope(i, body, env, Rest))
  BY <1>1, <1>2, ScopeProper
<1> QED
  BY <1>3 DEF i

LEMMA BranchInside == ASSUME IInv, VInv, CInv, Branch PROVE CInv'
<1> DEFINE s == Top.statement
           env == Top.env
           v == Operand
           i == Take(1, <<>>)
           next == IF v.type # "bool" THEN Error("Not a boolean")
                   ELSE IF v.bool THEN Scope(i, s.body, env, Rest)
                   ELSE IF s.else # <<>> THEN Scope(i, Head(s.else), env, Rest)
                   ELSE i
<1>1. Step(0, next) /\ interp.control # <<>> /\ Top.task = "If"
  BY DEF Branch, Doing
<1>2. IsStatement(s, Setting.parts) /\ s.kind = "If" /\ Kindly(s, Rest, Calm)
  BY <1>1, NextTask, NextSecure DEF HeldBy, Holds, Safe
<1> HIDE DEF s, env, v
<1>3. /\ s.body \in Setting.parts.bodies
      /\ s.else # <<>> => Head(s.else) \in Setting.parts.bodies
  BY <1>2 DEF IsStatement
<1>4. \A flow \in Flows :
          /\ s.body \in Calm[flow] \/ Caught(flow, Rest)
          /\ s.else # <<>> => Head(s.else) \in Calm[flow] \/ Caught(flow, Rest)
  <2>1. \A flow : /\ s.body \in Passed(flow, s)
                  /\ s.else # <<>> => Head(s.else) \in Passed(flow, s)
    BY <1>2 DEF Passed
  <2> QED
    BY <1>2, <2>1 DEF Kindly
<1>5. /\ Proper(Scope(i, s.body, env, Rest))
      /\ s.else # <<>> => Proper(Scope(i, Head(s.else), env, Rest))
  BY <1>1, <1>3, <1>4, TakenInside
<1>6. Proper(i)
  BY <1>1, PopProper
<1> HIDE DEF i
<1>7. Proper(next)
  BY <1>5, <1>6, ErrorProper DEF Escapes
<1> HIDE DEF next
<1> QED
  BY <1>1, <1>7, StepOrderly

LEMMA ArmInside == ASSUME IInv, VInv, CInv, SelectArm PROVE CInv'
<1> DEFINE s == Top.statement
           arms == s.arms
           env == Top.env
           v == Operand
           taken == {k \in DOMAIN arms : Matches(arms[k].pattern, v)}
           i == Take(1, <<>>)
           next == IF taken = {} THEN i
                   ELSE Scope(i, arms[Min(taken)].body, env, Rest)
<1>1. Step(0, next) /\ interp.control # <<>> /\ Top.task = "Match"
  BY DEF SelectArm, Doing
<1>2. IsStatement(s, Setting.parts) /\ s.kind = "Match" /\ Kindly(s, Rest, Calm)
  BY <1>1, NextTask, NextSecure DEF HeldBy, Holds, Safe
<1> HIDE DEF s, env, v
<1>3. IsSequence(arms) /\ \A k \in DOMAIN arms : arms[k].body \in Setting.parts.bodies
  BY <1>2 DEF IsStatement
<1>4. taken # {} => Min(taken) \in DOMAIN arms
  <2>1. taken \in SUBSET DOMAIN arms
    OBVIOUS
  <2> HIDE DEF taken
  <2>2. taken \in SUBSET Nat
    BY <1>3, <2>1, SequenceFacts
  <2> QED
    BY <2>1, <2>2, MinFacts
<1>5. \A flow \in Flows : \A k \in DOMAIN arms :
          arms[k].body \in Calm[flow] \/ Caught(flow, Rest)
  <2>1. \A flow : \A k \in DOMAIN arms : arms[k].body \in Passed(flow, s)
    BY <1>2 DEF Passed
  <2> QED
    BY <1>2, <2>1 DEF Kindly
<1>6. Proper(i)
  BY <1>1, PopProper
<1> HIDE DEF taken, arms
<1>7. taken # {} => Proper(Scope(i, arms[Min(taken)].body, env, Rest))
  BY <1>1, <1>3, <1>4, <1>5, TakenInside
<1> HIDE DEF i
<1>8. Proper(next)
  BY <1>6, <1>7
<1> HIDE DEF next
<1> QED
  BY <1>1, <1>8, StepOrderly

----------------------------------------------------------------------------
(* Loops *)

LEMMA TestInside == ASSUME IInv, VInv, CInv, TestLoop PROVE CInv'
<1> DEFINE a == Evaluate(Top.statement.condition, Top.env)
           b == [task |-> "test"]
           p == <<a, b>>
           next == [interp EXCEPT !.control = p \o @]
<1>1. interp.control # <<>> /\ Step(0, next)
  BY DEF TestLoop, Doing
<1>2. a.task \notin Carrying /\ b.task \notin Carrying
  BY DEF Evaluate, Carrying
<1> HIDE DEF a, b
<1>3. IsSequence(p) /\ \A k \in DOMAIN p : p[k].task \notin Carrying
  BY <1>2, FewPlain
<1> HIDE DEF p
<1>4. Proper(next)
  BY <1>1, <1>3, BeforeProper
<1> HIDE DEF next
<1> QED
  BY <1>1, <1>4, StepOrderly

\* The body of a loop may leave the iteration.
LEMMA LoopCaught ==
    ASSUME NEW body, NEW c, IsSequence(c), NEW t, t.task \in {"while", "for"},
           body \in Calm["Return"] \/ Caught("Return", c), NEW flow \in Flows
    PROVE  body \in Calm[flow] \/ Caught(flow, <<t>> \o c)
<1>1. flow # "Return" => t.task \in Stops(flow)
  BY DEF Stops, Flows
<1>2. flow = "Return" => t.task \notin Catchers(flow)
  BY DEF Catchers
<1> QED
  BY <1>1, <1>2, CaughtMore

LEMMA LoopInside == ASSUME IInv, VInv, CInv, EnterLoop PROVE CInv'
<1> DEFINE v == Operand
           i == Take(1, <<>>)
           loop == Head(Rest)
           body == loop.statement.body
           d == Tail(Rest)
           left == [i EXCEPT !.control = d]
           next == IF v.type # "bool" THEN Error("Not a boolean")
                   ELSE IF v.bool THEN Scope(i, body, loop.env, Rest)
                   ELSE left
<1>1. Step(0, next) /\ interp.control # <<>> /\ Top.task = "test"
  BY DEF EnterLoop, Doing
<1>2. /\ Follows(Rest, "while") /\ IsSequence(Rest) /\ Secure(Rest, Calm)
      /\ Ready(Rest, interp.captured_bindings, interp.in_parallel_worker, Setting)
  BY <1>1, NextTask, NextSecure DEF Placed
<1>3. Rest # <<>> /\ loop = Rest[1] /\ loop.task = "while" /\ 1 \in DOMAIN Rest
  BY <1>2, SequenceFacts DEF Follows
<1>4. body \in Setting.parts.bodies
  BY <1>2, <1>3 DEF Ready, Holds
<1>5. /\ Secure(d, Calm) /\ Safe(loop, d, Calm) /\ IsSequence(d)
      /\ Rest = <<loop>> \o d
  <2> DEFINE c == Rest
  <2>1. Secure(c, Calm) /\ c # <<>> /\ loop = c[1] /\ d = Tail(c)
    BY <1>2, <1>3
  <2> HIDE DEF c, loop, d
  <2>2. /\ Secure(Tail(c), Calm) /\ Safe(Head(c), Tail(c), Calm) /\ Head(c) = c[1]
        /\ IsSequence(Tail(c)) /\ c = <<c[1]>> \o Tail(c)
    BY <2>1, TopSecure
  <2> QED
    BY <2>1, <2>2 DEF c
<1>6. Shape(i) /\ i.functions = interp.functions
  BY GivenFacts DEF Take, Shape
<1> HIDE DEF loop, d, i, v
<1>7. \A flow \in Flows : body \in Calm[flow] \/ Caught(flow, Rest)
  <2>1. body \in Calm["Return"] \/ Caught("Return", d)
    BY <1>3, <1>5 DEF Safe
  <2>2. loop.task \in {"while", "for"} /\ IsSequence(d)
    BY <1>3, <1>5
  <2> HIDE DEF body
  <2>3. ASSUME NEW flow \in Flows
        PROVE  body \in Calm[flow] \/ Caught(flow, <<loop>> \o d)
    BY <2>1, <2>2, LoopCaught
  <2> QED
    BY <1>5, <2>3
<1>8. Proper(Scope(i, body, loop.env, Rest))
  <2>1. analysis.errors = {}
    BY <1>1, TopFacts
  <2> QED
    BY <1>2, <1>4, <1>6, <1>7, <2>1, ScopeProper
<1>9. Proper(left)
  <2>1. Shape(left) /\ left.functions = interp.functions /\ left.control = d
    BY <1>6 DEF Shape
  <2> HIDE DEF left
  <2> QED
    BY <1>5, <2>1, MovedProper
<1>10. Proper(Error("Not a boolean"))
  BY ErrorProper DEF Escapes
<1>11. Proper(next)
  BY <1>8, <1>9, <1>10
<1> HIDE DEF next
<1> QED
  BY <1>1, <1>11, StepOrderly

\* A task in the place of one that took its operand.
LEMMA OneProper ==
    ASSUME IInv, CInv, interp.control # <<>>, NEW t, Safe(t, Rest, Calm)
    PROVE  /\ Secure(<<t>> \o Rest, Calm) /\ Proper(Push(<<t>>))
           /\ \A n : Proper(Take(n, <<t>>))
           /\ \A out : Proper([Push(<<t>>) EXCEPT !.output = out])
<1> DEFINE p == <<t>>
<1>1. Secure(p \o Rest, Calm)
  BY NextSecure, OneSecure
<1> HIDE DEF p
<1>2. /\ Secure(p \o Rest, Calm) /\ Proper(Push(p))
      /\ \A n : Proper(Take(n, p))
      /\ \A out : Proper([Push(p) EXCEPT !.output = out])
  BY <1>1, PushProper
<1> QED
  BY <1>2 DEF p

LEMMA ForInside == ASSUME IInv, VInv, CInv, StartFor PROVE CInv'
<1> DEFINE v == Operand
           t == [task |-> "for", statement |-> Top.statement, env |-> Top.env,
                 values |-> v.values]
           next == IF v.type # "array" THEN Error("Not an array") ELSE Take(1, <<t>>)
<1>1. Step(0, next) /\ interp.control # <<>> /\ Top.task = "For"
  BY DEF StartFor, Doing
<1>2. Safe(Top, Rest, Calm)
  BY <1>1, NextSecure
<1>3. t.task = "for" /\ t.statement = Top.statement
  OBVIOUS
<1> HIDE DEF t, v
<1>4. Safe(t, Rest, Calm)
  BY <1>1, <1>2, <1>3 DEF Safe
<1>5. Proper(Take(1, <<t>>))
  BY <1>1, <1>4, OneProper
<1>6. Proper(Error("Not an array"))
  BY ErrorProper DEF Escapes
<1>7. Proper(next)
  BY <1>5, <1>6
<1> HIDE DEF next
<1> QED
  BY <1>1, <1>7, StepOrderly

\* One more binding, with the functions there are.
LEMMA AllocatedShape ==
    ASSUME NEW i, Shape(i), NEW v
    PROVE  LET j == Allocate(i, v, NoType)
           IN  Shape(j) /\ j.functions = i.functions
  BY DEF Allocate, Shape

LEMMA IterationInside == ASSUME IInv, VInv, CInv, NextIteration PROVE CInv'
<1> DEFINE s == Top.statement
           x == Head(Top.values)
           i == Allocate(interp, x, NoType)
           t == [Top EXCEPT !.values = Tail(@)]
           c == <<t>> \o Rest
           env == Append(Top.env, Only(s.variable, Len(i.bindings)))
           begun == Begin(i, s.body, env, c)
           empty == Push(<<>>)
<1>1. /\ Step(0, empty) \/ Step(1, begun)
      /\ interp.control # <<>> /\ Top.task = "for"
  BY DEF NextIteration, Doing
<1>2. /\ HeldBy(Top) /\ Safe(Top, Rest, Calm) /\ IsSequence(Rest)
      /\ analysis.errors = {}
  BY <1>1, NextTask, NextSecure, TopFacts
<1>3. /\ DOMAIN Top = {"task", "statement", "env", "values"}
      /\ s.body \in Setting.parts.bodies
  BY <1>1, <1>2 DEF HeldBy, Holds
<1>4. t.task = "for" /\ t.statement = s
  BY <1>1, <1>3
<1>5. s.body \in Calm["Return"] \/ Caught("Return", Rest)
  BY <1>1, <1>2 DEF Safe
<1>6. Shape(i) /\ i.functions = interp.functions
  <2> HIDE DEF x
  <2> QED
    BY GivenFacts, AllocatedShape
<1> HIDE DEF t, s, i, env
<1>7. Safe(t, Rest, Calm)
  BY <1>4, <1>5 DEF Safe
<1>8. Secure(c, Calm)
  BY <1>1, <1>7, OneProper
<1>9. \A flow \in Flows : s.body \in Calm[flow] \/ Caught(flow, c)
  <2> DEFINE body == s.body
  <2>1. body \in Calm["Return"] \/ Caught("Return", Rest)
    BY <1>5
  <2> HIDE DEF body
  <2>2. \A flow \in Flows : body \in Calm[flow] \/ Caught(flow, c)
    BY <1>2, <1>4, <2>1, LoopCaught
  <2> QED
    BY <2>2 DEF body
<1> HIDE DEF c
<1>10. Proper(begun)
  BY <1>2, <1>3, <1>6, <1>8, <1>9, ScopeProper
<1>11. Proper(empty)
  BY <1>1, PopProper
<1> HIDE DEF begun, empty
<1> QED
  BY <1>1, <1>10, <1>11, StepOrderly

----------------------------------------------------------------------------
(* The parallel statement *)

\* No faults, and two sequences of faults.
LEMMA MildFacts ==
    /\ Mild(<<>>)
    /\ \A a, b : Mild(a) /\ Mild(b) => Mild(a \o b)
<1>1. Mild(<<>>)
  BY FewPlain DEF Mild
<1>2. ASSUME NEW a, NEW b, Mild(a), Mild(b) PROVE Mild(a \o b)
  <2> DEFINE c == a \o b
  <2>1. IsSequence(a) /\ IsSequence(b)
    BY <1>2 DEF Mild
  <2>2. /\ DOMAIN a = 1 .. Len(a) /\ Len(a) \in Nat
        /\ DOMAIN b = 1 .. Len(b) /\ Len(b) \in Nat
    BY <2>1, SequenceFacts
  <2>3. /\ IsSequence(c) /\ Len(c) = Len(a) + Len(b)
        /\ \A k \in 1 .. Len(a) : c[k] = a[k]
        /\ \A k \in 1 .. Len(b) : c[Len(a) + k] = b[k]
    BY <2>1, ConcatFacts
  <2> HIDE DEF c
  <2>4. DOMAIN c = 1 .. Len(a) + Len(b)
    BY <2>3, SequenceFacts
  <2>5. ASSUME NEW k \in DOMAIN c PROVE c[k].error \notin Escapes
    <3>1. CASE k \in 1 .. Len(a)
      BY <1>2, <2>2, <2>3, <3>1 DEF Mild
    <3>2. CASE k \notin 1 .. Len(a)
      <4> DEFINE j == k - Len(a)
      <4>1. j \in 1 .. Len(b) /\ k = Len(a) + j
        BY <2>2, <2>4, <3>2
      <4> HIDE DEF j
      <4> QED
        BY <1>2, <2>2, <2>3, <4>1 DEF Mild
    <3> QED
      BY <3>1, <3>2
  <2> QED
    BY <2>3, <2>5 DEF Mild, c
<1> QED
  BY <1>1, <1>2

LEMMA ParallelInside == ASSUME IInv, VInv, CInv, StartParallel PROVE CInv'
<1> DEFINE v == Operand
           t == [task |-> "batch", statement |-> Top.statement, env |-> Top.env,
                 values |-> v.values, jobs |-> <<>>, outcomes |-> <<>>,
                 faults |-> <<>>]
           next == IF v.type # "array" THEN Error("Not an array") ELSE Take(1, <<t>>)
<1>1. Step(0, next) /\ interp.control # <<>> /\ Top.task = "Parallel"
  BY DEF StartParallel, Doing
<1>2. Safe(Top, Rest, Calm)
  BY <1>1, NextSecure
<1>3. /\ t.task = "batch" /\ t.statement = Top.statement /\ t.outcomes = <<>>
      /\ t.faults = <<>>
  OBVIOUS
<1> HIDE DEF t, v
<1>4. Safe(t, Rest, Calm)
  BY <1>1, <1>2, <1>3, FewPlain, MildFacts DEF Safe
<1>5. Proper(Take(1, <<t>>))
  BY <1>1, <1>4, OneProper
<1>6. Proper(Error("Not an array"))
  BY ErrorProper DEF Escapes
<1>7. Proper(next)
  BY <1>5, <1>6
<1> HIDE DEF next
<1> QED
  BY <1>1, <1>7, StepOrderly

LEMMA PrepareInside == ASSUME IInv, VInv, CInv, PrepareBatch PROVE CInv'
<1> DEFINE width == IF interp.in_parallel_worker THEN 1 ELSE limits.parallel_workers
           n == Cardinality((1 .. width) \cap DOMAIN Top.values)
           jobs == SubSeq(Top.values, 1, n)
           t == [Top EXCEPT !.jobs = jobs, !.values = Drop(@, n)]
           next == Push(<<t>>)
           empty == Push(<<>>)
<1>1. /\ Step(0, empty) \/ Step(n, next)
      /\ interp.control # <<>> /\ Top.task = "batch"
  BY DEF PrepareBatch, Doing
<1>2. DOMAIN Top = BatchFields /\ Safe(Top, Rest, Calm)
  BY <1>1, BatchFacts, NextSecure
<1> HIDE DEF n, jobs
<1>3. /\ t.task = "batch" /\ t.statement = Top.statement
      /\ t.outcomes = Top.outcomes /\ t.faults = Top.faults
  BY <1>1, <1>2 DEF BatchFields
<1> HIDE DEF t
<1>4. Safe(t, Rest, Calm)
  BY <1>1, <1>2, <1>3 DEF Safe
<1>5. Proper(next)
  BY <1>1, <1>4, OneProper
<1>6. Proper(empty)
  BY <1>1, PopProper
<1> HIDE DEF next, empty
<1> QED
  BY <1>1, <1>5, <1>6, StepOrderly

\* A worker begins with a body that a flow leaves to its iteration at most.
LEMMA WorkerInside == ASSUME IInv, VInv, CInv, StartWorker PROVE CInv'
<1> DEFINE copy == [interp EXCEPT !.captured_bindings = Len(interp.bindings),
                                  !.in_parallel_worker = TRUE,
                                  !.expression_depth = 0,
                                  !.return_type = NoType, !.output = <<>>,
                                  !.operands = <<>>]
           job == Head(Top.jobs)
           i == Allocate(copy, job, NoType)
           body == Top.statement.body
           env == Append(Top.env, Only(Top.statement.variable, Len(i.bindings)))
           w == [task |-> "worker"]
           c == <<w>>
           o == [interp EXCEPT !.control[1].jobs = Tail(@)]
           t == [Top EXCEPT !.jobs = Tail(@)]
<1>1. /\ interp.control # <<>> /\ Top.task = "batch"
      /\ interp' = Begin(i, body, env, c)
      /\ outer' = <<o>> \o outer
      /\ UNCHANGED <<Given, remaining_steps, result>>
  BY DEF StartWorker, Doing
<1>2. /\ DOMAIN Top = BatchFields /\ Safe(Top, Rest, Calm)
      /\ body \in Setting.parts.bodies /\ analysis.errors = {}
  BY <1>1, BatchFacts, NextSecure, TopFacts
<1>3. Shape(copy) /\ copy.functions = interp.functions
  BY GivenFacts DEF Shape
<1> HIDE DEF copy, job
<1>4. Shape(i) /\ i.functions = interp.functions
  BY <1>3, AllocatedShape
<1>5. body \in Calm["Break"] \cap Calm["Return"]
  BY <1>1, <1>2 DEF Safe
<1>6. w.task = "worker" /\ c = <<w>> \o <<>>
  OBVIOUS
<1> HIDE DEF i, env, w, c
<1>7. Secure(c, Calm)
  <2> DEFINE d == <<>>
  <2>1. Secure(d, Calm)
    BY FewPlain DEF Secure
  <2> HIDE DEF d
  <2>2. Safe(w, d, Calm)
    BY <1>6, PlainSafe DEF Carrying
  <2>3. Secure(<<w>> \o d, Calm)
    BY <2>1, <2>2, OneSecure
  <2> QED
    BY <1>6, <2>3 DEF d
<1>8. Caught("Continue", c)
  <2> DEFINE d == <<>>
             flow == "Continue"
  <2>1. IsSequence(d) /\ w.task \in Stops(flow) /\ flow \in Flows
    BY <1>6, FewPlain DEF Stops, Flows
  <2> HIDE DEF d, flow
  <2>2. Caught(flow, <<w>> \o d)
    BY <2>1, CaughtMore
  <2> QED
    BY <1>6, <2>2 DEF d, flow
<1>9. \A flow \in Flows : body \in Calm[flow] \/ Caught(flow, c)
  BY <1>5, <1>8 DEF Flows
<1> HIDE DEF body
<1>10. Orderly(Begin(i, body, env, c), Calm)
  <2>1. Bodied(i.functions, Calm)
    BY <1>4 DEF CInv, Orderly
  <2> QED
    BY <1>2, <1>4, <1>7, <1>9, <2>1, BeginProper
<1>11. Orderly(o, Calm)
  <2>1. /\ t.task = "batch" /\ t.statement = Top.statement
        /\ t.outcomes = Top.outcomes /\ t.faults = Top.faults
    BY <1>1, <1>2 DEF BatchFields
  <2>2. /\ o.functions = interp.functions
        /\ o.control = [interp.control EXCEPT ![1] = t]
    <3>1. Shape(interp) /\ interp.control[1] = Top
      BY <1>1, NextTask, GivenFacts
    <3> QED
      BY <3>1 DEF Shape
  <2> HIDE DEF t, o
  <2>3. Safe(t, Rest, Calm)
    BY <1>1, <1>2, <2>1 DEF Safe
  <2>4. Secure(<<t>> \o Rest, Calm)
    BY <1>1, <2>3, OneProper
  <2>5. [interp.control EXCEPT ![1] = t] = <<t>> \o Rest
    <3> DEFINE b == interp.control
    <3>1. IsSequence(b) /\ b # <<>>
      BY <1>1, GivenFacts DEF Machine, Ready
    <3> HIDE DEF b
    <3>2. [b EXCEPT ![1] = t] = <<t>> \o Tail(b)
      BY <3>1, FirstReplaced
    <3> QED
      BY <3>2 DEF b, Rest
  <2> QED
    BY <2>2, <2>4, <2>5 DEF CInv, Orderly
<1>12. Calm' = Calm
  BY <1>1, CalmKept DEF Given
<1> HIDE DEF o
<1>13. ASSUME NEW k \in DOMAIN outer' PROVE Orderly(outer'[k], Calm)
  <2>1. /\ IsSequence(outer') /\ Len(outer') = 1 + Len(outer) /\ outer'[1] = o
        /\ \A n \in 1 .. Len(outer) : outer'[1 + n] = outer[n]
        /\ DOMAIN outer = 1 .. Len(outer) /\ Len(outer) \in Nat
    <3>1. IsSequence(outer) /\ outer' = <<o>> \o outer
      BY <1>1 DEF IInv
    <3> QED
      BY <3>1, ConsFacts, SequenceFacts
  <2>2. DOMAIN outer' = 1 .. 1 + Len(outer)
    BY <2>1, SequenceFacts
  <2>3. k = 1 \/ \E n \in 1 .. Len(outer) : k = 1 + n
    <3>1. k = 1 \/ (k - 1 \in 1 .. Len(outer) /\ k = 1 + (k - 1))
      BY <2>1, <2>2
    <3> QED
      BY <3>1
  <2> QED
    BY <1>11, <2>1, <2>3 DEF CInv
<1>14. result' = result
  BY <1>1
<1> QED
  BY <1>1, <1>10, <1>12, <1>13, <1>14 DEF CInv

LEMMA EndWorkerInside == ASSUME IInv, VInv, CInv, EndWorker PROVE CInv'
<1>1. /\ Outcome(interp.output, <<>>) /\ UNCHANGED Given
      /\ interp.control # <<>> /\ Top.task = "worker"
  BY DEF EndWorker, Doing, Given
<1>2. interp.in_parallel_worker
  BY <1>1, NextTask DEF HeldBy, Holds
<1>3. outer # <<>>
  BY <1>2 DEF IInv, Above
<1> DEFINE none == <<>>
<1>4. Mild(none) /\ Outcome(interp.output, none)
  BY <1>1, MildFacts
<1> HIDE DEF none
<1> QED
  BY <1>1, <1>3, <1>4, OutcomeOrderly

LEMMA ReplayInside == ASSUME IInv, VInv, CInv, ReplayOutcome PROVE CInv'
<1> DEFINE os == Top.outcomes
           outcome == Head(os)
           batch == Replay([output |-> interp.output, faults |-> Top.faults], outcome)
           t == [Top EXCEPT !.outcomes = Tail(@), !.faults = batch.faults]
           next == [Push(<<t>>) EXCEPT !.output = batch.output]
<1>1. /\ Step(0, next) /\ interp.control # <<>> /\ Top.task = "batch"
      /\ os # <<>>
  BY DEF ReplayOutcome, Doing
<1>2. /\ DOMAIN Top = BatchFields /\ Safe(Top, Rest, Calm) /\ IsSequence(os)
  BY <1>1, BatchFacts, NextSecure
<1>3. Mild(Top.faults) /\ \A k \in DOMAIN os : Mild(os[k].faults)
  BY <1>1, <1>2 DEF Safe
<1>4. Mild(batch.faults)
  <2> DEFINE fault == Fault(Error("Output limit"))
             cut(n) == IF n < Len(outcome.output) THEN <<fault>> ELSE <<>>
  <2>1. fault.error = "Output limit"
    BY DEF Fault, Error
  <2> HIDE DEF fault
  <2>2. Mild(<<fault>>)
    <3>1. /\ IsSequence(<<fault>>)
          /\ \A k \in DOMAIN <<fault>> : <<fault>>[k] = fault
      BY FewPlain
    <3>2. fault.error \notin Escapes
      BY <2>1 DEF Escapes
    <3> QED
      BY <3>1, <3>2 DEF Mild
  <2>3. \A n : Mild(cut(n))
    BY <2>2, MildFacts
  <2>4. outcome = os[1] /\ 1 \in DOMAIN os
    BY <1>1, <1>2, SequenceFacts
  <2>5. Mild(outcome.faults)
    BY <1>3, <2>4
  <2>6. \E n : batch.faults = Top.faults \o cut(n) \o outcome.faults
    BY DEF Replay, fault
  <2> HIDE DEF cut, outcome, batch
  <2>7. \A n : Mild(Top.faults \o cut(n) \o outcome.faults)
    BY <1>3, <2>3, <2>5, MildFacts
  <2> QED
    BY <2>6, <2>7
<1> HIDE DEF batch
<1>5. /\ t.task = "batch" /\ t.statement = Top.statement
      /\ t.outcomes = Tail(os) /\ t.faults = batch.faults
  BY <1>1, <1>2 DEF BatchFields
<1> HIDE DEF t
<1>6. \A k \in DOMAIN Tail(os) : Mild(Tail(os)[k].faults)
  <2> HIDE DEF os
  <2>1. /\ IsSequence(Tail(os)) /\ Len(Tail(os)) = Len(os) - 1
        /\ \A k \in 1 .. Len(os) - 1 : Tail(os)[k] = os[k + 1]
    BY <1>1, <1>2, TailFacts
  <2>2. /\ DOMAIN os = 1 .. Len(os) /\ Len(os) \in Nat
        /\ DOMAIN Tail(os) = 1 .. Len(os) - 1
    BY <1>2, <2>1, SequenceFacts
  <2>3. \A k \in 1 .. Len(os) - 1 : k + 1 \in DOMAIN os
    BY <2>2
  <2> QED
    BY <1>3, <2>1, <2>2, <2>3
<1>7. Safe(t, Rest, Calm)
  BY <1>1, <1>2, <1>4, <1>5, <1>6 DEF Safe
<1>8. Proper(next)
  BY <1>1, <1>7, OneProper
<1> HIDE DEF next
<1> QED
  BY <1>1, <1>8, StepOrderly

LEMMA EndBatchInside == ASSUME IInv, VInv, CInv, EndBatch PROVE CInv'
<1> DEFINE fs == Top.faults
           fault == Head(fs)
<1>1. /\ Fail(fault, interp.output) /\ UNCHANGED Given /\ fs # <<>>
      /\ interp.control # <<>> /\ Top.task = "batch"
  BY DEF EndBatch, Doing, Given
<1>2. Mild(fs)
  BY <1>1, NextSecure DEF Safe
<1>3. fault.error \notin Escapes
  <2>1. 1 \in DOMAIN fs /\ fault = fs[1]
    BY <1>1, <1>2, SequenceFacts DEF Mild
  <2> QED
    BY <1>2, <2>1 DEF Mild
<1> HIDE DEF fault
<1> QED
  BY <1>1, <1>3, FailOrderly

----------------------------------------------------------------------------
(* The program *)

\* No flow leaves an accepted program.
LEMMA ExecuteInside == ASSUME IInv, VInv, CInv, Execute PROVE CInv'
<1> DEFINE t == [task |-> "program"]
           c == <<t>>
           env == <<BuiltinEnv, NoScope>>
           begun == Begin(interp, program, env, c)
           wrong == \E k \in Mains : program[k].parameters # <<>>
           next == IF wrong THEN Error("Main with parameters") ELSE begun
<1>1. interp = Idle
  BY DEF Execute
<1>2. CASE result' = Rejected /\ UNCHANGED <<Given, interp, outer, remaining_steps>>
  <2>1. Calm' = Calm
    BY <1>2, CalmKept DEF Given
  <2> QED
    BY <1>2, <2>1 DEF CInv, Rejected
<1>3. CASE analysis.errors = {} /\ Step(0, next)
  <2>1. t.task \notin Carrying
    BY DEF Carrying
  <2> HIDE DEF t
  <2>2. Secure(c, Calm)
    <3> DEFINE d == <<>>
    <3>1. Secure(d, Calm) /\ IsSequence(c) /\ (\A k \in DOMAIN c : c[k] = t)
      BY FewPlain DEF Secure
    <3>2. c \o d = c
      BY <3>1, EmptyFacts
    <3> HIDE DEF c, d
    <3>3. Secure(c \o d, Calm)
      BY <2>1, <3>1, ManySecure
    <3> QED
      BY <3>2, <3>3
  <2>3. program \in Setting.parts.bodies /\ Shape(interp)
    BY GivenFacts DEF IInv, IsTree
  <2>4. \A flow \in Flows : program \in Calm[flow]
    BY <1>3, CalmFacts
  <2> HIDE DEF c, env
  <2>5. Proper(begun)
    BY <1>3, <2>2, <2>3, <2>4, ScopeProper
  <2>6. Proper(Error("Main with parameters"))
    BY ErrorProper DEF Escapes
  <2> HIDE DEF begun, wrong
  <2>7. Proper(next)
    BY <2>5, <2>6
  <2> HIDE DEF next
  <2> QED
    BY <1>3, <2>7, StepOrderly
<1>4. Begin(Idle, program, env, c) = begun
  BY <1>1
<1> QED
  <2> HIDE DEF begun
  <2> QED
    BY <1>2, <1>3, <1>4 DEF Execute

LEMMA EndProgramInside == ASSUME IInv, VInv, CInv, EndProgram PROVE CInv'
<1> DEFINE slot == Len(Idle.bindings) + Cardinality(
               {k \in 1 .. Max(Mains) : program[k].kind \in {"Let", "Function"}})
           t == [task |-> "exit"]
           c == <<t>>
           entered == EnterFunction(interp, Null, slot, <<>>, c)
           bare == [Push(c) EXCEPT !.operands = <<NullValue>>]
           next == IF Mains # {} THEN entered ELSE bare
<1>1. Step(0, next) /\ interp.control # <<>> /\ Top.task = "program"
  BY DEF EndProgram, Doing
<1>2. t.task \notin Carrying
  BY DEF Carrying
<1>3. Rest = <<>>
  BY <1>1, StatementFacts DEF StatementTasks, Placed
<1> HIDE DEF slot, t
<1>4. IsSequence(c) /\ \A k \in DOMAIN c : c[k].task \notin Carrying
  BY <1>2, FewPlain
<1>5. c \o Rest = c
  BY <1>3, <1>4, EmptyFacts
<1>6. Secure(c \o Rest, Calm)
  <2> HIDE DEF c
  <2> QED
    BY <1>1, <1>4, PlainProper
<1>7. Proper(entered)
  <2> DEFINE vs == <<>>
             e == Null
  <2>1. Secure(c, Calm) /\ Shape(interp) /\ analysis.errors = {}
    BY <1>1, <1>5, <1>6, GivenFacts, TopFacts
  <2> HIDE DEF vs, e, c
  <2>2. Proper(EnterFunction(interp, e, slot, vs, c))
    BY <2>1, EnterProper
  <2> QED
    BY <2>2 DEF vs, e
<1>8. Proper(bare)
  <2> DEFINE vs == <<NullValue>>
  <2> HIDE DEF vs, c
  <2>1. Proper([Push(c) EXCEPT !.operands = vs])
    BY <1>6, PushProper
  <2> QED
    BY <2>1 DEF vs
<1> HIDE DEF entered, bare
<1>9. Proper(next)
  BY <1>7, <1>8
<1> HIDE DEF next
<1> QED
  BY <1>1, <1>9, StepOrderly

LEMMA ExitInside == ASSUME IInv, VInv, CInv, Exit PROVE CInv'
<1>1. /\ result'.status = "value" /\ UNCHANGED <<interp, outer>> /\ UNCHANGED Given
  BY DEF Exit, Given
<1>2. Calm' = Calm
  BY <1>1, CalmKept DEF Given
<1> QED
  BY <1>1, <1>2 DEF CInv

LEMMA StutterInside == ASSUME CInv, UNCHANGED vars PROVE CInv'
<1>1. Calm' = Calm
  BY CalmKept DEF vars
<1> QED
  BY <1>1 DEF CInv, vars

LEMMA InitInside == ASSUME Init PROVE CInv
<1>1. interp = Idle /\ outer = <<>> /\ result = Running
  BY DEF Init
<1>2. Idle.control = <<>> /\ Idle.functions = <<>>
  BY DEF Idle
<1>3. result.status = "running"
  BY <1>1 DEF Running
<1>4. Secure(<<>>, Calm) /\ Bodied(<<>>, Calm)
  BY FewPlain DEF Secure, Bodied
<1> QED
  BY <1>1, <1>2, <1>3, <1>4, FewPlain DEF CInv, Orderly

\* Every step of an expression keeps the flows inside.
LEMMA ExpressionInside == ASSUME IInv, VInv, CInv, ExpressionStep PROVE CInv'
  BY LiteralInside, IdentifierInside, OperandsInside, ConstructInside,
     AssignmentInside, NextFieldInside, FieldInside, EndConstructInside,
     OperatorInside, LogicalInside, BooleanInside, CallInside, FinishCallInside,
     TargetInside, SelectInside, SelectIndexInside, WritableInside, LoadInside,
     StoreInside, RequestInside, NetworkInside DEF ExpressionStep

\* Every step of a statement does.
LEMMA StatementInside == ASSUME IInv, VInv, CInv, StatementStep PROVE CInv'
  BY SubjectInside, ReturnInside, BlockInside, WhileInside, JumpInside,
     DeclarationInside, EndStatementsInside, LetInside, FinishExpressionInside,
     FinishReturnInside, BranchInside, ArmInside, TestInside, LoopInside, ForInside,
     IterationInside, EndFunctionInside DEF StatementStep

\* Every step of a parallel statement does.
LEMMA ParallelStepInside == ASSUME IInv, VInv, CInv, ParallelStep PROVE CInv'
  BY ParallelInside, PrepareInside, WorkerInside, EndWorkerInside, ReplayInside,
     EndBatchInside DEF ParallelStep

\* What is to do after a break, continue or return stops it where it may stop.
THEOREM FlowsConfined == Spec => [](IInv /\ VInv /\ CInv)
<1>1. Init => CInv
  BY InitInside
<1>2. IInv /\ VInv /\ CInv /\ [Next]_vars => CInv'
  BY ExecuteInside, ExpressionInside, StatementInside, ParallelStepInside,
     EndProgramInside, ExitInside, StutterInside DEF Next
<1> QED
  BY <1>1, <1>2, ValuesSound, PTL DEF Spec

\* A flow that is to be stopped has a task that stops it.
LEMMA ControlFollows == ASSUME IInv, VInv, CInv PROVE ControlStaysInside
<1>1. Failed => result.fault.error \notin {"Loop control", "Exit from worker"}
  BY DEF CInv, Failed, Escapes
<1>2. ASSUME NextStatement({"Break", "Continue"})
      PROVE  interp.control[CatcherOf("Break")].task # "program"
  <2> DEFINE flow == Current.kind
  <2>1. /\ interp.control # <<>> /\ Top.task = "statements" /\ Top.todo # <<>>
        /\ flow \in {"Break", "Continue"}
    BY <1>2 DEF NextStatement, Doing
  <2>2. Kindly(Current, Rest, Calm)
    BY <2>1, ContinuingSecure
  <2>3. flow \in Flows /\ Top.task \notin Catchers(flow)
    BY <2>1 DEF Flows, Catchers
  <2>4. Caught(flow, Rest)
    BY <2>2, <2>3 DEF Kindly
  <2> HIDE DEF flow
  <2>5. Caught(flow, interp.control)
    <3>1. Caught(flow, <<Top>> \o Rest)
      BY <2>1, <2>3, <2>4, NextSecure, CaughtMore
    <3> QED
      BY <2>1, <3>1, NextSecure
  <2>6. interp.control[CatcherOf(flow)].task \in Stops(flow)
    BY <2>3, <2>5, CatcherStops
  <2>7. CatcherOf("Break") = CatcherOf(flow)
    <3>1. Catchers("Break") = Catchers(flow)
      BY <2>1 DEF Catchers
    <3> QED
      BY <3>1 DEF CatcherOf
  <2> QED
    BY <2>1, <2>6, <2>7 DEF Stops
<1>3. ASSUME Doing("Return")
      PROVE  interp.control[CatcherOf("Return")].task = "call"
  <2> DEFINE flow == "Return"
  <2>1. interp.control # <<>> /\ Top.task = "Return"
    BY <1>3 DEF Doing
  <2>2. Caught(flow, Rest)
    BY <2>1, NextSecure DEF Safe
  <2>3. flow \in Flows /\ Top.task \notin Catchers(flow)
    BY <2>1 DEF Flows, Catchers
  <2>4. Stops(flow) = {"call"}
    BY DEF Stops
  <2> HIDE DEF flow
  <2>5. Caught(flow, interp.control)
    <3>1. Caught(flow, <<Top>> \o Rest)
      BY <2>1, <2>2, <2>3, NextSecure, CaughtMore
    <3> QED
      BY <2>1, <3>1, NextSecure
  <2>6. interp.control[CatcherOf(flow)].task \in Stops(flow)
    BY <2>3, <2>5, CatcherStops
  <2> QED
    BY <2>4, <2>6 DEF flow
<1> QED
  BY <1>1, <1>2, <1>3 DEF ControlStaysInside

\* Break, continue and return stop at a loop or a function of their iteration,
\* in every program that the analysis accepts: none leaves a function, a worker
\* or the program, and the interpreter's errors for those that do never occur.
THEOREM ControlStays == Spec => []ControlStaysInside
<1>1. IInv /\ VInv /\ CInv => ControlStaysInside
  BY ControlFollows
<1> QED
  BY <1>1, FlowsConfined, PTL
=============================================================================
