----------------------------- MODULE Equivalence -----------------------------
(***************************************************************************)
(* Two ways to write the same program.  The interpreter executes a         *)
(* program, then from a fresh start its rewriting, and the outcomes are    *)
(* compared.                                                               *)
(***************************************************************************)
EXTENDS Interpreter, Analyzer

CONSTANT Rewriting(_)   \* how to rewrite a program: "serial" or "separate"
VARIABLES
    rewritten,          \* the program in that way, and its analysis
    first               \* the outcome of the first execution, once it ended

----------------------------------------------------------------------------
(* Every parallel statement as a serial loop *)

RECURSIVE Serial(_)
SerialBody(body) == [k \in DOMAIN body |-> Serial(body[k])]
Serial(s) ==
    CASE s.kind = "Parallel" -> For(s.variable, s.iterable, SerialBody(s.body))
      [] s.kind = "If" ->
             [s EXCEPT !.body = SerialBody(@),
                       !.else = [k \in DOMAIN @ |-> SerialBody(@[k])]]
      [] s.kind = "Match" ->
             [s EXCEPT !.arms = [k \in DOMAIN @ |->
                 [@[k] EXCEPT !.body = SerialBody(@)]]]
      [] s.kind \in {"Block", "While", "For", "Function"} ->
             [s EXCEPT !.body = SerialBody(@)]
      [] OTHER -> s

----------------------------------------------------------------------------
(* Every assignment with its indices and its value computed beforehand *)

\* The indices of a target, that of the innermost object first.
RECURSIVE IndicesOf(_)
IndicesOf(target) ==
    CASE target.kind = "Index" ->
             Append(IndicesOf(target.object), target.index)
      [] target.kind = "Property" -> IndicesOf(target.object)
      [] OTHER -> <<>>
\* The target with names for its indices, and the k-th name.
Named(k) == "index" \o ToString(k)
RECURSIVE Simple(_)
Simple(target) ==
    CASE target.kind = "Index" ->
             [target EXCEPT !.object = Simple(@),
                            !.index = Identifier(Named(Len(IndicesOf(target))))]
      [] target.kind = "Property" -> [target EXCEPT !.object = Simple(@)]
      [] OTHER -> target
Separate(s) ==
    IF s.kind = "Expression" /\ s.expression.kind = "Assignment"
    THEN LET e == s.expression
             indices == IndicesOf(e.target)
         IN  Block([k \in DOMAIN indices |-> Let(Named(k), NoType, indices[k])]
                   \o <<Let("value", NoType, e.value),
                        Do(Assignment(Simple(e.target), Identifier("value")))>>)
    ELSE s

----------------------------------------------------------------------------
(* One execution after the other *)

Rewrite(way, body) ==
    [k \in DOMAIN body |-> IF way = "serial" THEN Serial(body[k])
                                            ELSE Separate(body[k])]
Ending == [result |-> result, output |-> interp.output,
           steps |-> remaining_steps]
BothInit ==
    /\ Init
    /\ first = <<>>
    /\ LET way == Rewriting(program)
       IN  rewritten = [way |-> way, program |-> Rewrite(way, program),
                        analysis |-> Analyze(Rewrite(way, program))]
Again ==
    /\ result # Running /\ first = <<>>
    /\ first' = <<Ending>>
    /\ program' = rewritten.program /\ analysis' = rewritten.analysis
    /\ interp' = Idle /\ outer' = <<>>
    /\ remaining_steps' = limits.steps /\ result' = Running
    /\ UNCHANGED <<rewritten, limits>>
BothNext == (Next /\ UNCHANGED <<rewritten, first>>) \/ Again
BothSpec == BothInit /\ [][BothNext]_<<vars, rewritten, first>>

----------------------------------------------------------------------------
Agrees(way, Same(_, _)) ==
    rewritten.way = way /\ first # <<>> /\ result # Running =>
        Same(Head(first), Ending)

\* A parallel statement that succeeds is a loop: the same lines, the same
\* value, the same steps, however deep it is nested in workers.
ParallelAsFor ==
    Agrees("serial", LAMBDA a, b : a.result.status = "value" => a = b)

\* The indices are evaluated from the innermost object outwards, then the value,
\* and then the target is read: what they assign themselves is neither missed
\* nor lost.
AssignmentsInOrder ==
    Agrees("separate", LAMBDA a, b :
        /\ a.output = b.output /\ a.result.status = b.result.status
        /\ a.result.status = "error" =>
               a.result.fault.error = b.result.fault.error)
=============================================================================
