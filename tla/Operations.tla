----------------------------- MODULE Operations -----------------------------
(***************************************************************************)
(* Runtime values and the binary operations on them                        *)
(* (src/src/runtime/value.rs, src/src/interpreter/operations.rs).          *)
(*                                                                         *)
(* Integers have the width Limit stands for (2^63 in the code): they are   *)
(* -Limit .. Limit - 1.  A finite float is the number q / Scale, written   *)
(* as q; Floats is the set of numbers the format can represent.  A text is *)
(* a sequence of pieces: the literals of a program are pieces of their own *)
(* (numbers from 1000 up, in the order of the literals), and every other   *)
(* value is displayed as one piece.                                        *)
(***************************************************************************)
EXTENDS Integers, Sequences

CONSTANTS
    Limit,          \* i64::MAX + 1
    Scale,          \* the number of floats between two integers near zero
    Floats,         \* the representable finite floats, in units of 1 / Scale
    MaxDuration     \* u64::MAX

ASSUME LimitAssumption == Limit \in Nat \ {0}
ASSUME ScaleAssumption == Scale \in Nat \ {0}
ASSUME FloatsAssumption == /\ Floats \subseteq Int /\ 0 \in Floats
                           /\ \A q \in Floats : -q \in Floats
                           /\ MaxDuration \in Nat

Integers64 == -Limit .. (Limit - 1)

\* A result is a value or an error; every kind of value has its own field.
Error(cause) == [error |-> cause]
IsError(result) == "error" \in DOMAIN result

IntegerValue(n) == [type |-> "int", int |-> n]
FloatValue(q) == [type |-> "float", float |-> q]
BooleanValue(b) == [type |-> "bool", bool |-> b]
StringValue(t) == [type |-> "string", text |-> t]
BytesValue(b) == [type |-> "bytes", bytes |-> b]
DurationValue(d) == [type |-> "duration", duration |-> d]
NullValue == [type |-> "null"]
ArrayValue(s) == [type |-> "array", values |-> s]
ObjectValue(f) == [type |-> "object", fields |-> f]
RecordValue(name, f) == [type |-> "record", name |-> name, fields |-> f]
FunctionValue(id) == [type |-> "function", function |-> id]
BuiltinValue(name) == [type |-> "builtin", name |-> name]
ConnectionValue == [type |-> "connection"]   \* Handles tells them apart

Numeric(v) == v.type \in {"int", "float"}
Scalar(v) == v.type \in {"int", "float", "bool", "string", "null", "duration"}

\* The text of a scalar; what does not belong to a string is one piece.
Display(v) ==
    CASE v.type = "string"   -> v.text
      [] v.type = "int"      -> <<v.int>>
      [] v.type = "float"    -> <<400 + v.float>>
      [] v.type = "duration" -> <<200 + v.duration>>
      [] v.type = "bool"     -> <<IF v.bool THEN 300 ELSE 301>>
      [] v.type = "null"     -> <<302>>

Sign(n) == IF n < 0 THEN -1 ELSE IF n = 0 THEN 0 ELSE 1
Magnitude(n) == IF n < 0 THEN -n ELSE n
\* Rust's integer division and `as' casts truncate towards zero.
Truncate(n, d) == Sign(n) * Sign(d) * (Magnitude(n) \div Magnitude(d))

----------------------------------------------------------------------------
(* Comparisons: -1, 0 or 1. *)

CompareIntFloat(integer, float) ==
    IF float >= Limit * Scale THEN -1
    ELSE IF float < -(Limit * Scale) THEN 1
    ELSE LET truncated == Truncate(float, Scale)
         IN  IF integer # truncated THEN Sign(integer - truncated)
             ELSE Sign(0 - (float - truncated * Scale))

\* Texts are compared piece by piece, a prefix coming first.
CompareText(s, t) ==
    LET differ == {i \in DOMAIN s \cap DOMAIN t : s[i] # t[i]}
    IN  IF differ = {} THEN Sign(Len(s) - Len(t))
        ELSE LET i == CHOOSE i \in differ : \A j \in differ : i <= j
             IN  Sign(s[i] - t[i])

CompareValues(l, r) ==
    CASE l.type = "int" /\ r.type = "int"     -> Sign(l.int - r.int)
      [] l.type = "float" /\ r.type = "float" -> Sign(l.float - r.float)
      [] l.type = "int" /\ r.type = "float" -> CompareIntFloat(l.int, r.float)
      [] l.type = "float" /\ r.type = "int" ->
             -CompareIntFloat(r.int, l.float)
      [] l.type = "string" /\ r.type = "string" -> CompareText(l.text, r.text)
      [] l.type = "duration" /\ r.type = "duration" ->
             Sign(l.duration - r.duration)
      [] OTHER -> 2         \* no order

EqualValues(l, r) ==
    IF Numeric(l) /\ Numeric(r) /\ l.type # r.type
    THEN CompareValues(l, r) = 0
    ELSE l = r

----------------------------------------------------------------------------
(* Arithmetic *)

\* The float nearest to n / d (d > 0); of two, the one with an even significand.
Nearest(n, d) ==
    LET distance(q) == Magnitude(n - q * d)
        best == {q \in Floats : \A p \in Floats : distance(q) <= distance(p)}
    IN  CHOOSE q \in best : \A p \in best :
            p = q \/ (q \div Magnitude(p - q)) % 2 = 0

Largest == CHOOSE q \in Floats : \A p \in Floats : p <= q
SecondLargest == CHOOSE q \in Floats \ {Largest} :
                     \A p \in Floats \ {Largest} : p <= q
\* Past half a step above the largest float, a result rounds to infinity.
IsFinite(n, d) == 2 * Magnitude(n) < (3 * Largest - SecondLargest) * d

\* exact_float: the integer survives the conversion to float and back.
IsExact(n) == Nearest(n * Scale, 1) = n * Scale

\* Mutant: the result is not checked.
Unchecked(n, cause) == IntegerValue(n)
Checked(n, cause) == IF n \in Integers64 THEN IntegerValue(n) ELSE Error(cause)

IntegerBinary(a, op, b) ==
    IF op \in {"/", "%"} /\ b = 0 THEN Error("Division by zero")
    ELSE CASE op = "+" -> Checked(a + b, "Integer overflow")
           [] op = "-" -> Checked(a - b, "Integer overflow")
           [] op = "*" -> Checked(a * b, "Integer overflow")
           [] op = "/" -> Checked(Truncate(a, b), "Integer overflow")
           [] op = "%" ->       \* checked_rem fails where checked_div does
                  IF Truncate(a, b) \in Integers64
                  THEN IntegerValue(a - b * Truncate(a, b))
                  ELSE Error("Integer overflow")

FloatBinary(a, op, b) ==
    LET rounded(n, d) == IF IsFinite(n, d) THEN FloatValue(Nearest(n, d))
                         ELSE Error("Not finite")
    IN  IF op \in {"/", "%"} /\ b = 0 THEN Error("Division by zero")
        ELSE CASE op = "+" -> rounded(a + b, 1)
               [] op = "-" -> rounded(a - b, 1)
               [] op = "*" -> rounded(a * b, Scale)
               [] op = "/" -> rounded(Sign(b) * a * Scale, Magnitude(b))
               [] op = "%" -> FloatValue(a - b * Truncate(a, b))

DurationBinary(a, op, b) ==
    LET value == IF op = "+" THEN a + b ELSE a - b
    IN  IF op \in {"+", "-"} /\ value \in 0 .. MaxDuration
        THEN DurationValue(value) ELSE Error("Duration overflow")

Concatenate(l, r) ==
    IF Scalar(l) /\ Scalar(r) THEN StringValue(Display(l) \o Display(r))
    ELSE Error("Not a scalar")

\* A mixed operation converts the integer, and only if that is exact.
\* Mutant: the integer is rounded.
RoundedMixed(l, op, r) ==
    LET float(v) == IF v.type = "float" THEN v.float
                    ELSE Nearest(v.int * Scale, 1)
    IN  FloatBinary(float(l), op, float(r))
Mixed(l, op, r) ==
    LET float(v) == IF v.type = "float" THEN v.float ELSE v.int * Scale
        integer == IF l.type = "int" THEN l.int ELSE r.int
    IN  IF IsExact(integer) THEN FloatBinary(float(l), op, float(r))
        ELSE Error("Inexact float")

Arithmetic(l, op, r) ==
    LET types == <<l.type, r.type>>
    IN  CASE op = "+" /\ "string" \in {l.type, r.type} -> Concatenate(l, r)
          [] op = "+" /\ types = <<"bytes", "bytes">> ->
                 BytesValue(l.bytes \o r.bytes)
          [] types = <<"int", "int">> -> IntegerBinary(l.int, op, r.int)
          [] types = <<"float", "float">> -> FloatBinary(l.float, op, r.float)
          [] types \in {<<"int", "float">>, <<"float", "int">>} ->
                 Mixed(l, op, r)
          [] types = <<"duration", "duration">> ->
                 DurationBinary(l.duration, op, r.duration)
          [] OTHER -> Error("Invalid operation")

Ordering == {"<", "<=", ">", ">="}
Operate(l, op, r) ==
    CASE op = "==" -> BooleanValue(EqualValues(l, r))
      [] op = "!=" -> BooleanValue(~EqualValues(l, r))
      [] op \in Ordering ->
             LET order == CompareValues(l, r)
             IN  IF order = 2 THEN Error("Not ordered")
                 ELSE BooleanValue(CASE op = "<" -> order < 0
                                     [] op = "<=" -> order <= 0
                                     [] op = ">" -> order > 0
                                     [] op = ">=" -> order >= 0)
      [] OTHER -> Arithmetic(l, op, r)

Negate(v) ==
    CASE v.type = "int"   -> Checked(-v.int, "Integer overflow")
      [] v.type = "float" -> FloatValue(-v.float)
      [] OTHER -> Error("Invalid operation")
Not(v) == IF v.type = "bool" THEN BooleanValue(~v.bool)
          ELSE Error("Invalid operation")
=============================================================================
