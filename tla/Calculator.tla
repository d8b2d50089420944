----------------------------- MODULE Calculator -----------------------------
(***************************************************************************)
(* A binary expression whose operands have been evaluated: every operator  *)
(* on every pair of operands, against the exact mathematics.               *)
(***************************************************************************)
EXTENDS Operations

CONSTANT Operands       \* the values considered

ASSUME OperandsAssumption ==
    \A v \in Operands :
        /\ v.type = "int" => v.int \in Integers64 /\ v = IntegerValue(v.int)
        /\ v.type = "float" => v.float \in Floats /\ v = FloatValue(v.float)

Operators == {"+", "-", "*", "/", "%", "==", "!="} \cup Ordering

VARIABLES left, operator, right,
          result        \* an error or a value, once evaluated
vars == <<left, operator, right, result>>

Pending == Error("Not evaluated")
Init == /\ left \in Operands /\ right \in Operands
        /\ operator \in Operators
        /\ result = Pending

Evaluate ==
    /\ result = Pending
    /\ result' = Operate(left, operator, right)
    /\ UNCHANGED <<left, operator, right>>

Next == Evaluate
Spec == Init /\ [][Next]_vars

----------------------------------------------------------------------------
\* Numbers in units of 1 / Scale: exact for integers and floats alike.
Exact(v) == IF v.type = "int" THEN v.int * Scale ELSE v.float
BothNumeric == Numeric(left) /\ Numeric(right)
IsMixed == BothNumeric /\ left.type # right.type

\* Comparing numbers compares their mathematical values: no integer is rounded
\* to a float and no fraction is dropped, whatever its sign and however large
\* (compare_int_float).
ComparisonExact ==
    BothNumeric /\ operator \in Ordering \cup {"==", "!="}
    /\ result # Pending =>
        LET l == Exact(left)  r == Exact(right)
        IN  result.bool = CASE operator = "<"  -> l < r
                            [] operator = "<=" -> l <= r
                            [] operator = ">"  -> l > r
                            [] operator = ">=" -> l >= r
                            [] operator = "==" -> l = r
                            [] operator = "!=" -> l # r

\* The result of mixed arithmetic is the float nearest to the exact result on
\* the exact operands: the conversion of the integer loses nothing.
MixedArithmeticExact ==
    IsMixed /\ operator \in {"+", "-", "*", "/"} /\ ~IsError(result) =>
        LET l == Exact(left)  r == Exact(right)
            n == CASE operator = "+" -> l + r
                   [] operator = "-" -> l - r
                   [] operator = "*" -> l * r
                   [] operator = "/" -> Sign(r) * l * Scale
            d == CASE operator = "*" -> Scale
                   [] operator = "/" -> Magnitude(r)
                   [] OTHER -> 1
        IN  result.float = Nearest(n, d)

\* Division and remainder belong together: a = (a / b) * b + a % b with
\* |a % b| < |b| and the sign of a, and they fail together.
DivisionLaw ==
    left.type = "int" /\ right.type = "int" /\ operator \in {"/", "%"}
    /\ result # Pending =>
        LET quotient == Operate(left, "/", right)
            remainder == Operate(left, "%", right)
        IN  /\ IsError(quotient) <=> IsError(remainder)
            /\ ~IsError(remainder) =>
                   /\ left.int = quotient.int * right.int + remainder.int
                   /\ Magnitude(remainder.int) < Magnitude(right.int)
                   /\ Sign(remainder.int) \in {0, Sign(left.int)}

\* Integer arithmetic never wraps around: a result is in the range of the
\* machine type, the smallest integer divided by -1 included.
NoWrapAround ==
    left.type = "int" /\ right.type = "int"
    /\ operator \in {"+", "-", "*", "/", "%"} /\ ~IsError(result) =>
        result.int \in Integers64

\* The operators are those of the mathematics of numbers, or refuse: where an
\* integer and a float meet, and on integers.
NumbersExact == ComparisonExact /\ MixedArithmeticExact
IntegersExact == DivisionLaw /\ NoWrapAround
=============================================================================
