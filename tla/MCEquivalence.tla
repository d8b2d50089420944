---------------------------- MODULE MCEquivalence ----------------------------
(***************************************************************************)
(* Programs with parallel statements, and programs whose assignments       *)
(* assign to their own target on the way.                                  *)
(***************************************************************************)
EXTENDS Equivalence, MCInterpreter

\* What a worker may do: what it declares is its own, also in a worker inside.
Own == {Show(x), Show(Sum(i, x)), Set(x, Two), Set(i, Sum(i, One)), Continue,
        Do(CallOf("f", <<>>)), Do(CallOf("g", <<i>>)),
        If(Binary(i, "==", One), <<Continue>>, <<>>)}
Inside == Own \cup {Parallel("i", Array(<<i, x>>), <<a, Show(i)>>) : a \in Own}
              \cup {For("i", Pair, <<Parallel("j", Pair, <<a, Show(j)>>)>>) :
                        a \in Own}
              \cup {Let("x", NoType, i)}
Parallels ==
    {<<Let("x", NoType, One), Define("f", <<Show(x), Set(x, Two)>>),
       Function("g", <<Parameter("x", NoType)>>, "int",
                <<Parallel("i", Pair, <<Show(Sum(x, i))>>), Return(<<x>>)>>),
       Parallel("i", Pair, <<a, b, c>>), Show(x)>> :
         a, c \in Own, b \in Inside}

T(e) == Property(o, e)
At(e) == Index(T(B), e)
Assigned == {T(A), At(T(A)), At(Assignment(T(A), Integer(0))), T(B), At(One),
             At(Assignment(At(T(A)), Integer(0))), At(CallOf("h", <<>>))}
New == {Integer(0), T(A), T(B), CallOf("h", <<>>), Assignment(o, Object(<<>>))}
           \cup {Assignment(t, e) :
                    t \in Assigned \ {T(B)}, e \in {Integer(0), One}}
SimpleAssignments ==
    {<<Let("o", NoType, Object(<<Member(A, One), Member(B, Pair)>>)),
       Define("h", <<Set(T(A), Integer(0)), Set(T(B), Array(<<Two, One>>)),
                     Return(<<One>>)>>),
       Set(t, e), Show(T(B)), Set(u, T(A)), Show(T(B)), Show(T(A))>> :
         t, u \in Assigned, e \in New}

\* Two indices, either of which may assign to what the other one reads.
Within(e, f) == Index(Index(T(B), e), f)
Rows == Array(<<Pair, Array(<<Two, One>>)>>)
Indices == {T(A), One, Assignment(T(A), Integer(0)), CallOf("h", <<>>)}
NestedAssignments ==
    {<<Let("o", NoType, Object(<<Member(A, One), Member(B, Rows)>>)),
       Define("h", <<Set(T(A), Integer(0)), Set(At(T(A)), Array(<<One, One>>)),
                     Return(<<One>>)>>),
       Set(Within(e, f), v), Show(T(B)), Show(T(A))>> :
         e, f \in Indices,
         v \in Indices \cup {Assignment(Within(T(A), One), Integer(0))}}
Assignments == SimpleAssignments \cup NestedAssignments

\* Limits that no program reaches.
NoLimits == [steps |-> 150, call_depth |-> 3, expression_depth |-> 6,
             parallel_workers |-> 2, parallel_output_bytes |-> 9]
EquivalenceCases == Under(Parallels \cup Assignments, NoLimits)
MCRewriting(body) == IF body \in Parallels THEN "serial" ELSE "separate"
=============================================================================
