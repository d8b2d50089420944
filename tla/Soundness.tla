----------------------------- MODULE Soundness -----------------------------
(***************************************************************************)
(* What the analysis promises about the execution.                         *)
(***************************************************************************)
EXTENDS Interpreter

CONSTANT Nesting        \* how deep AnnotationsHold looks into a value
ASSUME NestingAssumption == Nesting \in Nat

\* The bodies that a flow leaves together with the statement, and those that it
\* would have to leave although it may not.
Flows == {"Break", "Continue", "Return"}
Passed(flow, s) ==
    CASE s.kind = "Block" -> {s.body}
      [] s.kind = "If" ->
             {s.body} \cup IF s.else = <<>> THEN {} ELSE {Head(s.else)}
      [] s.kind = "Match" -> {s.arms[k].body : k \in DOMAIN s.arms}
      [] s.kind \in {"While", "For"} /\ flow = "Return" -> {s.body}
      [] OTHER -> {}
Confined(flow, s) ==
    IF (s.kind = "Function" /\ flow # "Return")
           \/ (s.kind = "Parallel" /\ flow # "Continue")
    THEN {s.body} ELSE {}
\* Bodies that a flow does not leave, since it has no statement in them.
Without(flow, bodies) ==
    \A b \in bodies : \A k \in DOMAIN b :
        b[k].kind # flow /\ Passed(flow, b[k]) \subseteq bodies
\* No flow leaves the program, or what it may not leave.
IsConfined(body, parts, flow) ==
    \E S \in SUBSET parts.bodies :
        /\ Without(flow, S) /\ body \in S
        /\ \A b \in parts.bodies : \A k \in DOMAIN b : Confined(flow, b[k]) \subseteq S

\* A program without errors has complete types: every field's type exists, and
\* who constructs a record of a type names all of its fields and no others.
\* And break, continue and return are where the statements around them allow.
ASSUME AnalyserAssumption ==
    \A c \in Cases :
        LET a == Analyser(c.program)
        IN  a.errors = {} =>
                /\ \A t \in DOMAIN a.registry :
                       /\ IsSequence(a.registry[t])
                       /\ \A k \in DOMAIN a.registry[t] :
                              Resolves(a.registry, a.registry[t][k].annotation)
                /\ \A e \in Parts(c.program).exprs :
                       e.kind = "Construct" =>
                           /\ IsNamed(a.registry, e.name)
                           /\ FieldNames(e.members)
                                  = FieldNames(a.registry[e.name])
                /\ \A flow \in Flows :
                       IsConfined(c.program, Parts(c.program), flow)

Failed == result.status = "error"

\* An analysed program never meets a name, an assignment target or a type that
\* does not exist: the interpreter's errors for them are never the outcome.
AnalysedNamesExist ==
    Failed => result.fault.error \notin
        {"Undefined name", "Immutable assignment", "Invalid target",
         "Unknown type"}

\* A name is found as many scopes away as the analysis found it: a function sees
\* what was declared before it, whatever is declared later or where it is called.
\* Equal expressions of a program are one value here, so that their depths are
\* collected: a name must be found at one of the depths the analysis found it at.
NamesResolveAsAnalysed ==
    Doing("evaluate") /\ Top.expr.kind = "Identifier" =>
        <<Top.expr.name, DepthOf(Top.env, Top.expr.name)>>
            \in analysis.resolved

\* Break, continue and return stop at a loop or a function of the same
\* iteration: none leaves a function, a worker or the program.
ControlStaysInside ==
    /\ Failed => result.fault.error \notin {"Loop control", "Exit from worker"}
    /\ NextStatement({"Break", "Continue"}) =>
           interp.control[CatcherOf("Break")].task # "program"
    /\ Doing("Return") => interp.control[CatcherOf("Return")].task = "call"

\* A check that the analysis could decide never fails when it executes.
DecidedChecksHold ==
    Failed => result.fault.site \notin analysis.decided \ analysis.open

\* What the analysis cannot see happens in functions only: a capture is
\* assigned by a function called from the worker, and an unset binding is read
\* by a function called before the initialiser.
RemainingErrorsNeedCalls ==
    Failed =>
        /\ result.fault.error = "Read-only capture" =>
               result.fault.calls > result.fault.inherited
        /\ result.fault.error = "Uninitialised" => result.fault.calls > 0

\* The values held by a value, and all inside it down to a given nesting.
Held(v) == CASE v.type \in {"record", "object"} -> Range(v.fields)
             [] v.type = "array" -> Range(v.values)
             [] OTHER -> {}
ValuesIn(v, nesting) ==
    LET level[n \in 0 .. nesting] ==
            IF n = 0 THEN {v} ELSE UNION {Held(w) : w \in level[n - 1]}
    IN  UNION {level[n] : n \in 0 .. nesting}

\* A record has the fields of its type, with values of their types.
IsRecordOf(v, fields) ==
    /\ DOMAIN v.fields = FieldNames(fields)
    /\ \A x \in DOMAIN v.fields : HasType(FieldType(fields, x), v.fields[x])
\* A value with a type is what the type says, down to the fields of records
\* that were changed in place.
AnnotationsHold ==
    \A k \in DOMAIN interp.bindings :
        LET b == interp.bindings[k]
        IN  \A n \in DOMAIN b.value :
                /\ HasType(b.annotation, b.value[n])
                /\ \A v \in ValuesIn(b.value[n], Nesting) :
                       v.type = "record" =>
                           IsRecordOf(v, analysis.registry[v.name])

\* The promises of the analysis: a name is there, at a depth where the analysis
\* found it; and what fails all the same is what the analysis cannot decide.
NamesAsAnalysed == AnalysedNamesExist /\ NamesResolveAsAnalysed
ErrorsAsAnalysed == DecidedChecksHold /\ RemainingErrorsNeedCalls

\* Every execution ends: no cycle of steps is without a tick.
Terminates == <>(result # Running)
=============================================================================
