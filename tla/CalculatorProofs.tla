-------------------------- MODULE CalculatorProofs --------------------------
(***************************************************************************)
(* Comparisons and divisions are exact for every width of the integers and *)
(* every resolution of the floats.  Products of two variables are kept in  *)
(* lemmas of their own: the rest is linear once they are known.            *)
(***************************************************************************)
EXTENDS Calculator, TLAPS

\* Euclidean division of a natural number.
LEMMA DivisionFacts ==
    ASSUME NEW n \in Nat, NEW d \in Nat \ {0}
    PROVE  /\ n \div d \in Nat
           /\ d * (n \div d) <= n
           /\ n < d * (n \div d) + d
<1>1. n \div d \in Int /\ n \div d >= 0
  BY SMT
<1>2. d * (n \div d) <= n /\ n < d * (n \div d) + d
  BY SMT
<1> QED
  BY <1>1, <1>2

\* Multiplying by a positive number keeps the order.
LEMMA ProductOrder ==
    ASSUME NEW a \in Int, NEW b \in Int, a <= b, NEW c \in Nat
    PROVE  a * c <= b * c
  BY SMT

\* Rounding towards zero leaves a remainder smaller than the divisor.
LEMMA TruncateFacts ==
    ASSUME NEW n \in Int, NEW d \in Nat \ {0}
    PROVE  LET t == Truncate(n, d)
           IN  /\ t \in Int
               /\ n >= 0 => t * d <= n /\ n < t * d + d
               /\ n < 0 => n <= t * d /\ t * d - d < n
<1> DEFINE t == Truncate(n, d)
<1>1. CASE n >= 0
  <2>1. n \in Nat /\ Magnitude(n) = n /\ Magnitude(d) = d /\ Sign(d) = 1
    BY <1>1 DEF Magnitude, Sign
  <2>2. t = n \div d
    <3>1. CASE n = 0
      <4>1. t = 0
        BY <3>1, <2>1, DivisionFacts DEF Truncate, Sign
      <4>2. n \div d = 0
        BY <3>1, DivisionFacts, SMT
      <4> QED
        BY <4>1, <4>2
    <3>2. CASE n # 0
      BY <3>2, <2>1, DivisionFacts DEF Truncate, Sign
    <3> QED
      BY <3>1, <3>2
  <2> QED
    BY <1>1, <2>1, <2>2, DivisionFacts
<1>2. CASE n < 0
  <2>1. -n \in Nat /\ Magnitude(n) = -n /\ Magnitude(d) = d
        /\ Sign(d) = 1 /\ Sign(n) = -1
    BY <1>2 DEF Magnitude, Sign
  <2> DEFINE q == (-n) \div d
  <2>2. q \in Nat /\ d * q <= -n /\ -n < d * q + d
    BY <2>1, DivisionFacts
  <2>3. t = -q
    BY <2>1, <2>2 DEF Truncate
  <2>4. t * d = -(d * q)
    BY <2>2, <2>3
  <2> HIDE DEF t, q
  <2>5. t \in Int /\ d * q \in Int
    BY <2>2, <2>3
  <2>6. t \in Int /\ n <= t * d /\ t * d - d < n
    BY <2>2, <2>4, <2>5
  <2> QED
    BY <1>2, <2>6 DEF t
<1> QED
  BY <1>1, <1>2

\* compare_int_float compares the exact values.
LEMMA CompareExact ==
    ASSUME NEW i \in Integers64, NEW q \in Int
    PROVE  CompareIntFloat(i, q) = Sign(i * Scale - q)
<1> USE LimitAssumption, ScaleAssumption
<1> DEFINE top == Limit * Scale
           exact == i * Scale
<1>1. i \in Int /\ -Limit <= i /\ i <= Limit - 1
      /\ Limit \in Nat /\ Scale \in Nat \ {0}
  BY DEF Integers64
<1>2. top \in Int /\ exact \in Int
  BY <1>1
<1>3. exact <= top - Scale /\ -top <= exact
  <2>1. exact <= (Limit - 1) * Scale
    BY <1>1, ProductOrder
  <2>2. (Limit - 1) * Scale = top - Scale
    BY <1>1
  <2>3. (-Limit) * Scale <= exact
    BY <1>1, ProductOrder
  <2>4. (-Limit) * Scale = -top
    BY <1>1
  <2> QED
    BY <2>1, <2>2, <2>3, <2>4
<1>4. CASE q >= top
  BY <1>1, <1>2, <1>3, <1>4 DEF CompareIntFloat, Sign
<1>5. CASE q < -top
  BY <1>1, <1>2, <1>3, <1>5 DEF CompareIntFloat, Sign
<1>6. CASE q < top /\ q >= -top
  <2> DEFINE t == Truncate(q, Scale)
             part == t * Scale
  <2>1. /\ t \in Int
        /\ q >= 0 => part <= q /\ q < part + Scale
        /\ q < 0 => q <= part /\ part - Scale < q
    BY <1>1, TruncateFacts
  <2>2. part \in Int
    BY <2>1, <1>1
  <2>3. CompareIntFloat(i, q) = IF i # t THEN Sign(i - t) ELSE Sign(0 - (q - part))
    BY <1>6, <1>1, <1>2 DEF CompareIntFloat
  <2>4. CASE i = t
    <3>1. CompareIntFloat(i, q) = Sign(0 - (q - part))
      BY <2>3, <2>4
    <3>2. exact = part
      BY <2>4
    <3> HIDE DEF part, exact, t
    <3>3. 0 - (q - part) = exact - q
      BY <3>2, <1>2, <2>2
    <3> QED
      BY <3>1, <3>3 DEF exact
  <2>5. CASE i > t
    <3>1. (t + 1) * Scale <= exact
      BY <2>1, <2>5, <1>1, ProductOrder
    <3>2. (t + 1) * Scale = part + Scale
      BY <2>1, <1>1
    <3>3. Sign(i - t) = 1
      BY <2>1, <2>5, <1>1 DEF Sign
    <3>4. q < exact
      <4> HIDE DEF part, exact, t, top
      <4> QED
        BY <3>1, <3>2, <2>1, <2>2, <1>1, <1>2
    <3>5. Sign(exact - q) = 1
      <4> HIDE DEF part, exact, t, top
      <4> QED
        BY <3>4, <1>2 DEF Sign
    <3> QED
      BY <2>3, <2>5, <3>3, <3>5, <2>1, <1>1
  <2>6. CASE i < t
    <3>1. exact <= (t - 1) * Scale
      BY <2>1, <2>6, <1>1, ProductOrder
    <3>2. (t - 1) * Scale = part - Scale
      BY <2>1, <1>1
    <3>3. Sign(i - t) = -1
      BY <2>1, <2>6, <1>1 DEF Sign
    <3>4. exact < q
      <4> HIDE DEF part, exact, t, top
      <4> QED
        BY <3>1, <3>2, <2>1, <2>2, <1>1, <1>2
    <3>5. Sign(exact - q) = -1
      <4> HIDE DEF part, exact, t, top
      <4> QED
        BY <3>4, <1>2 DEF Sign
    <3> QED
      BY <2>3, <2>6, <3>3, <3>5, <2>1, <1>1
  <2> QED
    BY <2>1, <2>4, <2>5, <2>6, <1>1
<1> QED
  BY <1>2, <1>4, <1>5, <1>6

----------------------------------------------------------------------------
(* The operators on numbers *)

\* Scaling both sides of a comparison does not change it.
LEMMA SignScaled ==
    ASSUME NEW a \in Int, NEW b \in Int
    PROVE  /\ Sign(a * Scale - b * Scale) = Sign(a - b)
           /\ a * Scale = b * Scale <=> a = b
<1> USE ScaleAssumption
<1> DEFINE sa == a * Scale
           sb == b * Scale
<1>1. sa \in Int /\ sb \in Int /\ Scale \in Int /\ Scale > 0
  BY SMT
<1>2. \A x, y \in Int : x + Scale <= y => x < y
  BY <1>1
<1>3. CASE a = b
  BY <1>3, <1>1 DEF Sign
<1>4. CASE a < b
  <2>1. sa + Scale <= sb
    <3>1. (a + 1) * Scale <= sb
      BY <1>4, ProductOrder
    <3>2. (a + 1) * Scale = sa + Scale
      BY <1>1
    <3> QED
      BY <3>1, <3>2
  <2> HIDE DEF sa, sb
  <2>2. sa < sb
    BY <1>1, <1>2, <2>1
  <2> QED
    BY <1>1, <1>4, <2>2 DEF Sign, sa, sb
<1>5. CASE b < a
  <2>1. sb + Scale <= sa
    <3>1. (b + 1) * Scale <= sa
      BY <1>5, ProductOrder
    <3>2. (b + 1) * Scale = sb + Scale
      BY <1>1
    <3> QED
      BY <3>1, <3>2
  <2> HIDE DEF sa, sb
  <2>2. sb < sa
    BY <1>1, <1>2, <2>1
  <2> QED
    BY <1>1, <1>5, <2>2 DEF Sign, sa, sb
<1> QED
  BY <1>3, <1>4, <1>5

LEMMA ExactType ==
    ASSUME NEW v \in Operands, Numeric(v)
    PROVE  Exact(v) \in Int
<1>1. CASE v.type = "int"
  <2>1. v.int \in Int /\ Scale \in Int
    BY <1>1, OperandsAssumption, LimitAssumption, ScaleAssumption DEF Integers64
  <2>2. v.int * Scale \in Int
    BY <2>1
  <2> QED
    BY <1>1, <2>2 DEF Exact
<1>2. CASE v.type = "float"
  BY <1>2, OperandsAssumption, FloatsAssumption DEF Exact
<1> QED
  BY <1>1, <1>2 DEF Numeric

LEMMA EqualIsBoolean ==
    ASSUME NEW l, NEW r PROVE EqualValues(l, r) \in BOOLEAN
  BY DEF EqualValues

\* Numbers are ordered, and equal, as their exact values are.
LEMMA NumbersCompared ==
    ASSUME NEW l \in Operands, NEW r \in Operands, Numeric(l), Numeric(r)
    PROVE  /\ CompareValues(l, r) = Sign(Exact(l) - Exact(r))
           /\ EqualValues(l, r) <=> Exact(l) = Exact(r)
<1> USE OperandsAssumption, FloatsAssumption, LimitAssumption, ScaleAssumption
<1>1. CASE l.type = "int" /\ r.type = "int"
  <2>1. l.int \in Int /\ r.int \in Int
    BY <1>1 DEF Integers64
  <2>2. CompareValues(l, r) = Sign(l.int - r.int)
    BY <1>1 DEF CompareValues
  <2>3. EqualValues(l, r) <=> l.int = r.int
    BY <1>1 DEF EqualValues, IntegerValue
  <2> QED
    BY <1>1, <2>1, <2>2, <2>3, SignScaled DEF Exact
<1>2. CASE l.type = "float" /\ r.type = "float"
  <2>1. CompareValues(l, r) = Sign(l.float - r.float)
    BY <1>2 DEF CompareValues
  <2>2. EqualValues(l, r) <=> l.float = r.float
    BY <1>2 DEF EqualValues, FloatValue
  <2> QED
    BY <1>2, <2>1, <2>2 DEF Exact
<1>3. CASE l.type = "int" /\ r.type = "float"
  <2>1. CompareValues(l, r) = CompareIntFloat(l.int, r.float)
    BY <1>3 DEF CompareValues
  <2>2. CompareValues(l, r) = Sign(Exact(l) - Exact(r))
    BY <1>3, <2>1, CompareExact DEF Exact
  <2>3. EqualValues(l, r) <=> CompareValues(l, r) = 0
    BY <1>3 DEF EqualValues, Numeric
  <2> QED
    BY <2>2, <2>3, ExactType DEF Sign
<1>4. CASE l.type = "float" /\ r.type = "int"
  <2>1. CompareValues(l, r) = -CompareIntFloat(r.int, l.float)
    BY <1>4 DEF CompareValues
  <2>2. CompareIntFloat(r.int, l.float) = Sign(Exact(r) - Exact(l))
    BY <1>4, CompareExact DEF Exact
  <2>3. CompareValues(l, r) = Sign(Exact(l) - Exact(r))
    BY <2>1, <2>2, ExactType DEF Sign
  <2>4. EqualValues(l, r) <=> CompareValues(l, r) = 0
    BY <1>4 DEF EqualValues, Numeric
  <2> QED
    BY <2>3, <2>4, ExactType DEF Sign
<1> QED
  BY <1>1, <1>2, <1>3, <1>4 DEF Numeric

----------------------------------------------------------------------------

\* The result, once there is one, is that of the operator.
Evaluated ==
    /\ left \in Operands /\ right \in Operands /\ operator \in Operators
    /\ result # Pending => result = Operate(left, operator, right)

LEMMA AlwaysEvaluated == Spec => []Evaluated
<1>1. Init => Evaluated
  BY DEF Init, Evaluated
<1>2. Evaluated /\ [Next]_vars => Evaluated'
  BY DEF Evaluated, Next, Evaluate, vars
<1> QED
  BY <1>1, <1>2, PTL DEF Spec

\* Comparing numbers compares their exact values, for every width and scale.
THEOREM ComparisonsExact == Spec => []ComparisonExact
<1>1. Evaluated => ComparisonExact
  <2> SUFFICES ASSUME Evaluated, BothNumeric, result # Pending,
                      operator \in Ordering \cup {"==", "!="}
               PROVE  ComparisonExact
    BY DEF ComparisonExact
  <2> DEFINE l == Exact(left)
             r == Exact(right)
             order == CompareValues(left, right)
  <2>1. l \in Int /\ r \in Int
    BY ExactType DEF Evaluated, BothNumeric
  <2>2. order = Sign(l - r) /\ (EqualValues(left, right) <=> l = r)
    BY NumbersCompared DEF Evaluated, BothNumeric
  <2>3. result = Operate(left, operator, right)
    BY DEF Evaluated
  <2> HIDE DEF l, r, order
  <2>4. order # 2 /\ (order < 0 <=> l < r) /\ (order > 0 <=> l > r)
        /\ (order <= 0 <=> l <= r) /\ (order >= 0 <=> l >= r)
    BY <2>1, <2>2 DEF Sign
  <2>5. CASE operator = "=="
    <3>1. Operate(left, operator, right) = BooleanValue(EqualValues(left, right))
      BY <2>5 DEF Operate, Ordering
    <3>3. result.bool = EqualValues(left, right)
      BY <2>3, <3>1, EqualIsBoolean DEF BooleanValue
    <3>2. ComparisonExact <=> (result.bool = (l = r))
      BY <2>5 DEF ComparisonExact, BothNumeric, l, r
    <3> QED
      BY <2>2, <3>3, <3>2, EqualIsBoolean
  <2>6. CASE operator = "!="
    <3>1. Operate(left, operator, right) = BooleanValue(~EqualValues(left, right))
      BY <2>6 DEF Operate, Ordering
    <3>3. result.bool = ~EqualValues(left, right)
      BY <2>3, <3>1, EqualIsBoolean DEF BooleanValue
    <3>2. ComparisonExact <=> (result.bool = (l # r))
      BY <2>6 DEF ComparisonExact, BothNumeric, l, r
    <3> QED
      BY <2>2, <3>3, <3>2, EqualIsBoolean
  <2>7. CASE operator \in Ordering
    <3>1. result.bool = CASE operator = "<" -> order < 0
                          [] operator = "<=" -> order <= 0
                          [] operator = ">" -> order > 0
                          [] operator = ">=" -> order >= 0
      BY <2>3, <2>4, <2>7 DEF Operate, BooleanValue, Ordering, order
    <3> QED
      BY <3>1, <2>4, <2>7 DEF ComparisonExact, Ordering, l, r
  <2> QED
    BY <2>5, <2>6, <2>7
<1> QED
  BY <1>1, AlwaysEvaluated, PTL

----------------------------------------------------------------------------
(* Integer division *)

\* Division towards zero: the remainder is smaller than the divisor and has the
\* sign of the dividend.
LEMMA RemainderFacts ==
    ASSUME NEW a \in Int, NEW b \in Int \ {0}
    PROVE  LET t == Truncate(a, b)
           IN  /\ t \in Int
               /\ Magnitude(a - b * t) < Magnitude(b)
               /\ Sign(a - b * t) \in {0, Sign(a)}
<1> DEFINE m == Magnitude(a)
           n == Magnitude(b)
           q == m \div n
           t == Truncate(a, b)
<1>1. m \in Nat /\ n \in Nat \ {0}
  BY DEF Magnitude
<1>2. q \in Nat /\ n * q <= m /\ m < n * q + n /\ n * q \in Nat
  BY <1>1, DivisionFacts
<1>3. t = Sign(a) * Sign(b) * q
  BY DEF Truncate
<1>4. CASE a = 0
  <2>1. Sign(a) = 0 /\ Sign(b) \in Int
    BY <1>4 DEF Sign
  <2>2. t = 0
    BY <1>2, <1>3, <2>1
  <2>3. a - b * t = 0
    BY <1>4, <2>2
  <2> HIDE DEF t
  <2> QED
    BY <2>2, <2>3 DEF Magnitude, Sign, t
<1>5. CASE a > 0
  <2>1. Sign(a) = 1 /\ m = a
    BY <1>5 DEF Sign, Magnitude
  <2>2. b * t = n * q /\ t \in Int
    <3>1. CASE b > 0
      BY <1>2, <1>3, <2>1, <3>1 DEF Sign, Magnitude
    <3>2. CASE b < 0
      BY <1>2, <1>3, <2>1, <3>2 DEF Sign, Magnitude
    <3> QED
      BY <3>1, <3>2
  <2> DEFINE r == a - b * t
  <2>3. r \in Int /\ 0 <= r /\ r < n
    <3> DEFINE p == n * q
    <3>1. p \in Nat /\ p <= m /\ m < p + n
      BY <1>2
    <3>2. r = a - p
      BY <2>2
    <3> HIDE DEF p, r, m, n
    <3> QED
      BY <1>1, <2>1, <3>1, <3>2
  <2>4. Magnitude(r) < n /\ Sign(r) \in {0, Sign(a)}
    <3> HIDE DEF r, n
    <3> QED
      BY <1>1, <2>1, <2>3 DEF Magnitude, Sign
  <2> QED
    BY <2>2, <2>4
<1>6. CASE a < 0
  <2>1. Sign(a) = -1 /\ m = -a
    BY <1>6 DEF Sign, Magnitude
  <2>2. b * t = -(n * q) /\ t \in Int
    <3>1. CASE b > 0
      BY <1>2, <1>3, <2>1, <3>1 DEF Sign, Magnitude
    <3>2. CASE b < 0
      BY <1>2, <1>3, <2>1, <3>2 DEF Sign, Magnitude
    <3> QED
      BY <3>1, <3>2
  <2> DEFINE r == a - b * t
  <2>3. r \in Int /\ r <= 0 /\ -n < r
    <3> DEFINE p == n * q
    <3>1. p \in Nat /\ p <= m /\ m < p + n
      BY <1>2
    <3>2. r = a + p
      BY <2>2, <1>2
    <3> HIDE DEF p, r, m, n
    <3> QED
      BY <1>1, <2>1, <3>1, <3>2
  <2>4. Magnitude(r) < n /\ Sign(r) \in {0, Sign(a)}
    <3> HIDE DEF r, n
    <3> QED
      BY <1>1, <2>1, <2>3 DEF Magnitude, Sign
  <2> QED
    BY <2>2, <2>4
<1> QED
  BY <1>4, <1>5, <1>6

LEMMA OperateIntegers ==
    ASSUME NEW l, NEW r, l.type = "int", r.type = "int",
           NEW op \in {"+", "-", "*", "/", "%"}
    PROVE  Operate(l, op, r) = IntegerBinary(l.int, op, r.int)
<1>1. Operate(l, op, r) = Arithmetic(l, op, r)
  BY DEF Operate, Ordering
<1>2. Arithmetic(l, op, r) = IntegerBinary(l.int, op, r.int)
  BY DEF Arithmetic
<1> QED
  BY <1>1, <1>2

\* Division and remainder belong together for every width of the integers, and
\* fail for the same operands.
THEOREM DivisionsLawful == Spec => []DivisionLaw
<1>1. Evaluated => DivisionLaw
  <2> SUFFICES ASSUME Evaluated, left.type = "int", right.type = "int"
               PROVE  LET quotient == Operate(left, "/", right)
                          remainder == Operate(left, "%", right)
                      IN  /\ IsError(quotient) <=> IsError(remainder)
                          /\ ~IsError(remainder) =>
                                /\ left.int = quotient.int * right.int
                                                  + remainder.int
                                /\ Magnitude(remainder.int)
                                       < Magnitude(right.int)
                                /\ Sign(remainder.int) \in {0, Sign(left.int)}
    BY DEF DivisionLaw
  <2> DEFINE a == left.int
             b == right.int
             t == Truncate(a, b)
             quotient == Operate(left, "/", right)
             remainder == Operate(left, "%", right)
  <2>1. a \in Int /\ b \in Int
    BY OperandsAssumption, LimitAssumption DEF Evaluated, Integers64
  <2>2. /\ quotient = IntegerBinary(a, "/", b)
        /\ remainder = IntegerBinary(a, "%", b)
    BY OperateIntegers
  <2>3. CASE b = 0
    <3>1. IsError(IntegerBinary(a, "/", b)) /\ IsError(IntegerBinary(a, "%", b))
      BY <2>3 DEF IntegerBinary, IsError, Error
    <3> QED
      BY <2>2, <3>1
  <2>4. CASE b # 0 /\ t \notin Integers64
    <3>1. IsError(IntegerBinary(a, "/", b)) /\ IsError(IntegerBinary(a, "%", b))
      BY <2>4 DEF IntegerBinary, Checked, IsError, Error
    <3> QED
      BY <2>2, <3>1
  <2>5. CASE b # 0 /\ t \in Integers64
    <3>1. IntegerBinary(a, "/", b) = IntegerValue(t)
      BY <2>5 DEF IntegerBinary, Checked
    <3>2. IntegerBinary(a, "%", b) = IntegerValue(a - b * t)
      BY <2>5 DEF IntegerBinary
    <3>3. /\ quotient.int = t /\ remainder.int = a - b * t
          /\ ~IsError(quotient) /\ ~IsError(remainder)
      BY <2>2, <3>1, <3>2 DEF IntegerValue, IsError
    <3>4. /\ t \in Int /\ Magnitude(a - b * t) < Magnitude(b)
          /\ Sign(a - b * t) \in {0, Sign(a)}
      BY <2>1, <2>5, RemainderFacts
    <3>5. a = t * b + (a - b * t)
      <4> HIDE DEF t
      <4> QED
        BY <2>1, <3>4
    <3> HIDE DEF quotient, remainder, t
    <3>6. /\ a = quotient.int * b + remainder.int
          /\ Magnitude(remainder.int) < Magnitude(b)
          /\ Sign(remainder.int) \in {0, Sign(a)}
      BY <3>3, <3>4, <3>5
    <3> QED
      BY <3>3, <3>6 DEF quotient, remainder
  <2> QED
    BY <2>3, <2>4, <2>5
<1> QED
  BY <1>1, AlwaysEvaluated, PTL

\* Whatever the width, no integer result leaves the range of the machine type.
LEMMA Unwrapped == Spec => []NoWrapAround
<1>1. Evaluated => NoWrapAround
  <2> SUFFICES ASSUME Evaluated, left.type = "int", right.type = "int",
                      operator \in {"+", "-", "*", "/", "%"}, ~IsError(result)
               PROVE  result.int \in Integers64
    BY DEF NoWrapAround
  <2> DEFINE a == left.int
             b == right.int
             t == Truncate(a, b)
  <2>1. a \in Integers64 /\ b \in Integers64 /\ a \in Int /\ b \in Int
    BY OperandsAssumption, LimitAssumption DEF Evaluated, Integers64
  <2>2. result = IntegerBinary(a, operator, b)
    <3>1. IsError(Pending)
      BY DEF Pending, IsError, Error
    <3> QED
      BY <3>1, OperateIntegers DEF Evaluated
  <2>3. ASSUME NEW n, NEW cause, ~IsError(Checked(n, cause))
        PROVE  Checked(n, cause).int \in Integers64
    BY <2>3 DEF Checked, IsError, Error, IntegerValue
  <2>4. IsError(Error("Division by zero"))
    BY DEF IsError, Error
  <2>5. CASE operator \in {"+", "-", "*", "/"}
    BY <2>2, <2>3, <2>4, <2>5 DEF IntegerBinary
  <2>6. CASE operator = "%"
    <3>1. b # 0 /\ t \in Integers64 /\ result = IntegerValue(a - b * t)
      BY <2>2, <2>4, <2>6 DEF IntegerBinary, IsError, Error
    <3>2. /\ t \in Int /\ Magnitude(a - b * t) < Magnitude(b)
          /\ Sign(a - b * t) \in {0, Sign(a)}
      BY <2>1, <3>1, RemainderFacts
    <3> DEFINE n == a - b * t
    <3>3. n \in Int
      BY <2>1, <3>2
    <3> HIDE DEF n, t
    <3>4. Magnitude(b) <= Limit
      BY <2>1, LimitAssumption DEF Integers64, Magnitude
    <3>5. Magnitude(n) < Magnitude(b)
      BY <3>2 DEF n
    <3>6. n \in Integers64
      BY <2>1, <3>3, <3>4, <3>5, LimitAssumption DEF Integers64, Magnitude
    <3> QED
      BY <3>1, <3>6 DEF IntegerValue, n
  <2> QED
    BY <2>5, <2>6
<1> QED
  BY <1>1, AlwaysEvaluated, PTL

\* Integer arithmetic refuses what does not fit and obeys the law of division.
THEOREM IntegersLawful == Spec => []IntegersExact
  BY DivisionsLawful, Unwrapped, PTL DEF IntegersExact

----------------------------------------------------------------------------
(* Mixed arithmetic *)

\* An operation on an integer and a float fails, or is the float operation on
\* their exact values.
LEMMA MixedFacts ==
    ASSUME NEW l, NEW r, Numeric(l), Numeric(r), l.type # r.type,
           NEW op \in {"+", "-", "*", "/"}, ~IsError(Operate(l, op, r))
    PROVE  Operate(l, op, r) = FloatBinary(Exact(l), op, Exact(r))
<1>1. Operate(l, op, r) = Arithmetic(l, op, r)
  BY DEF Operate, Ordering
<1>2. <<l.type, r.type>> \in {<<"int", "float">>, <<"float", "int">>}
  BY DEF Numeric
<1>3. Arithmetic(l, op, r) = Mixed(l, op, r)
  BY <1>2 DEF Arithmetic, Numeric
<1>4. CASE l.type = "int" /\ r.type = "float"
  <2>1. /\ Exact(l) = l.int * Scale /\ Exact(r) = r.float
    BY <1>4 DEF Exact
  <2>2. Mixed(l, op, r) = IF IsExact(l.int)
                          THEN FloatBinary(l.int * Scale, op, r.float)
                          ELSE Error("Inexact float")
    BY <1>4 DEF Mixed
  <2>3. IsError(Error("Inexact float"))
    BY DEF IsError, Error
  <2> QED
    BY <1>1, <1>3, <2>1, <2>2, <2>3
<1>5. CASE l.type = "float" /\ r.type = "int"
  <2>1. /\ Exact(l) = l.float /\ Exact(r) = r.int * Scale
    BY <1>5 DEF Exact
  <2>2. Mixed(l, op, r) = IF IsExact(r.int)
                          THEN FloatBinary(l.float, op, r.int * Scale)
                          ELSE Error("Inexact float")
    BY <1>5 DEF Mixed
  <2>3. IsError(Error("Inexact float"))
    BY DEF IsError, Error
  <2> QED
    BY <1>1, <1>3, <2>1, <2>2, <2>3
<1> QED
  BY <1>2, <1>4, <1>5

\* A float operation that succeeds is the nearest float to the exact result.
LEMMA FloatFacts ==
    ASSUME NEW a, NEW b, NEW op \in {"+", "-", "*", "/"},
           ~IsError(FloatBinary(a, op, b))
    PROVE  FloatBinary(a, op, b).float =
               CASE op = "+" -> Nearest(a + b, 1)
                 [] op = "-" -> Nearest(a - b, 1)
                 [] op = "*" -> Nearest(a * b, Scale)
                 [] op = "/" -> Nearest(Sign(b) * a * Scale, Magnitude(b))
<1>1. CASE op = "+"
  BY <1>1 DEF FloatBinary, FloatValue, IsError, Error
<1>2. CASE op = "-"
  BY <1>2 DEF FloatBinary, FloatValue, IsError, Error
<1>3. CASE op = "*"
  BY <1>3 DEF FloatBinary, FloatValue, IsError, Error
<1>4. CASE op = "/"
  BY <1>4 DEF FloatBinary, FloatValue, IsError, Error
<1> QED
  BY <1>1, <1>2, <1>3, <1>4

\* Mixed arithmetic is exact before it is rounded, for every set of floats.
THEOREM MixedExact == Spec => []MixedArithmeticExact
<1>1. Evaluated => MixedArithmeticExact
  <2> SUFFICES ASSUME Evaluated, IsMixed, operator \in {"+", "-", "*", "/"},
                      ~IsError(result)
               PROVE  MixedArithmeticExact
    BY DEF MixedArithmeticExact
  <2>1. result = Operate(left, operator, right)
    <3>1. IsError(Pending)
      BY DEF Pending, IsError, Error
    <3> QED
      BY <3>1 DEF Evaluated
  <2>2. result = FloatBinary(Exact(left), operator, Exact(right))
    BY <2>1, MixedFacts DEF IsMixed, BothNumeric
  <2>3. CASE operator = "+"
    BY <2>2, <2>3, FloatFacts DEF MixedArithmeticExact
  <2>4. CASE operator = "-"
    BY <2>2, <2>4, FloatFacts DEF MixedArithmeticExact
  <2>5. CASE operator = "*"
    BY <2>2, <2>5, FloatFacts DEF MixedArithmeticExact
  <2>6. CASE operator = "/"
    BY <2>2, <2>6, FloatFacts DEF MixedArithmeticExact
  <2> QED
    BY <2>3, <2>4, <2>5, <2>6
<1> QED
  BY <1>1, AlwaysEvaluated, PTL

\* Where an integer and a float meet, nothing is lost without an error.
THEOREM NumbersLawful == Spec => []NumbersExact
  BY ComparisonsExact, MixedExact, PTL DEF NumbersExact
=============================================================================
