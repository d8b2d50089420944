---------------------------- MODULE MCCalculator ----------------------------
(* Integers of 4 bits, floats of 2 bits of significand in quarters. *)
EXTENDS Calculator

MCFloats ==
    LET positive == {m * 2^e : m \in 0 .. 3, e \in 0 .. 5}
    IN  positive \cup {-q : q \in positive}

MCOperands ==
    {IntegerValue(n) : n \in Integers64} \cup {FloatValue(q) : q \in MCFloats}
        \cup {DurationValue(d) : d \in {0, 1, MaxDuration}}
        \cup {BooleanValue(TRUE), NullValue, StringValue(<<1000>>),
              StringValue(<<1000, 1001>>), StringValue(<<1001>>),
              BytesValue(<<0>>), ArrayValue(<<>>), ArrayValue(<<NullValue>>)}
=============================================================================
