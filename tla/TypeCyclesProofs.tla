-------------------------- MODULE TypeCyclesProofs --------------------------
(***************************************************************************)
(* The search for required cycles is right for every set of definitions:   *)
(* what it has reached is needed by the type asked about (Reached), and    *)
(* what it has passed needs nothing it does not still hold (Passed).       *)
(***************************************************************************)
EXTENDS TypeCycles, TLAPS

\* Everything reached is the type itself or in every set that contains what
\* the type needs.
Reached ==
    \A types \in SUBSET NamedTypes :
        Closed(types) => pending \cup seen \subseteq types \cup {name}
\* The visited types need only types that were visited or are to be, and not
\* the type itself.
Passed ==
    /\ \A id \in seen : /\ Required(id) \subseteq seen \cup pending
                        /\ name \notin Required(id)
    /\ result # "yes" /\ name \in NamedTypes => name \in seen \cup pending
Answered == /\ result = "yes" => OnCycle
            /\ result = "no" => pending = {}
Inv == TypeOK /\ Reached /\ (result # "yes" => Passed) /\ Answered

----------------------------------------------------------------------------

\* What a type requires is a set of named types.
LEMMA RequiredNamed ==
    ASSUME NEW id PROVE Required(id) \subseteq NamedTypes
  BY DEF Required

\* The definitions and the question stay as they are.
LEMMA Unchanging ==
    ASSUME [Next]_vars
    PROVE  /\ fields' = fields /\ name' = name
           /\ OnCycle' <=> OnCycle
           /\ \A id : Required(id)' = Required(id)
           /\ \A types : Closed(types)' <=> Closed(types)
<1>1. fields' = fields /\ name' = name
  BY DEF Next, Skip, Visit, Finish, vars
<1>2. \A id : Required(id)' = Required(id)
  BY <1>1 DEF Required
<1>3. \A types : Closed(types)' <=> Closed(types)
  BY <1>1, <1>2 DEF Closed
<1> QED
  BY <1>1, <1>2, <1>3 DEF OnCycle

LEMMA InitInv == Init => Inv
<1> SUFFICES ASSUME Init PROVE Inv
  OBVIOUS
<1>1. TypeOK
  BY DEF Init, TypeOK, NamedTypes, AllNames
<1>2. Reached /\ Passed /\ Answered
  BY DEF Init, Reached, Passed, Answered
<1> QED
  BY <1>1, <1>2 DEF Inv

\* A type among those that a reached type requires is needed as well.
LEMMA RequiredReached ==
    ASSUME Reached, NEW id \in pending,
           NEW types \in SUBSET NamedTypes, Closed(types)
    PROVE  Required(id) \subseteq types
  BY DEF Reached, Closed

LEMMA StepInv == Inv /\ [Next]_vars => Inv'
<1> SUFFICES ASSUME Inv, [Next]_vars PROVE Inv'
  OBVIOUS
<1> USE Unchanging DEF Inv
<1>1. CASE UNCHANGED vars
  BY <1>1 DEF vars, TypeOK, Reached, Passed, Answered
<1>2. ASSUME NEW id \in NamedTypes, Skip(id) PROVE Inv'
  <2>1. TypeOK'
    BY <1>2 DEF Skip, TypeOK
  <2>2. Reached'
    BY <1>2 DEF Skip, Reached
  <2>3. Passed'
    BY <1>2 DEF Skip, Passed
  <2>4. Answered'
    BY <1>2 DEF Skip, Answered
  <2> QED
    BY <2>1, <2>2, <2>3, <2>4
<1>3. ASSUME NEW id \in NamedTypes, Visit(id) PROVE Inv'
  <2>1. Required(id) \subseteq NamedTypes
    BY RequiredNamed
  <2>2. TypeOK'
    BY <1>3, <2>1 DEF Visit, TypeOK
  <2>3. Reached'
    <3> SUFFICES ASSUME NEW types \in SUBSET NamedTypes, Closed(types)
                 PROVE  pending' \cup seen' \subseteq types \cup {name}
      BY DEF Reached, NamedTypes
    <3>1. Required(id) \subseteq types
      BY <1>3, RequiredReached DEF Visit
    <3>2. pending \cup seen \subseteq types \cup {name}
      BY DEF Reached
    <3> QED
      BY <1>3, <3>1, <3>2 DEF Visit
  <2>4. CASE name \in Required(id)
    <3>1. result' = "yes"
      BY <1>3, <2>4 DEF Visit
    <3>2. OnCycle
      <4>1. name \in NamedTypes
        BY <2>1, <2>4
      <4>2. ASSUME NEW types \in SUBSET NamedTypes, Closed(types)
            PROVE  name \in types
        BY <1>3, <2>4, <4>2, RequiredReached DEF Visit
      <4> QED
        BY <4>1, <4>2 DEF OnCycle
    <3> QED
      BY <2>2, <2>3, <3>1, <3>2 DEF Answered
  <2>5. CASE name \notin Required(id)
    <3>1. Passed'
      BY <1>3, <2>5 DEF Visit, Passed
    <3>2. Answered'
      BY <1>3, <2>5 DEF Visit, Answered
    <3> QED
      BY <2>2, <2>3, <3>1, <3>2
  <2> QED
    BY <2>4, <2>5
<1>4. CASE Finish
  BY <1>4 DEF Finish, TypeOK, Reached, Passed, Answered
<1> QED
  BY <1>1, <1>2, <1>3, <1>4 DEF Next

\* The types that the visited types require are closed once nothing is pending:
\* the set that shows that the type asked about is on no cycle.
LEMMA NoCycle ==
    ASSUME Passed, TypeOK, pending = {}, result = "no"
    PROVE  ~OnCycle
<1> DEFINE types == UNION {Required(id) : id \in seen}
<1>1. types \subseteq seen /\ types \in SUBSET NamedTypes
  BY DEF Passed, TypeOK
<1>2. name \notin types
  BY DEF Passed
<1>3. CASE name \in NamedTypes
  <2>1. name \in seen
    BY <1>3 DEF Passed
  <2>2. Closed(types)
    BY <1>1, <2>1 DEF Closed
  <2> QED
    BY <1>1, <1>2, <2>2 DEF OnCycle
<1> QED
  BY <1>3 DEF OnCycle

\* Type correctness: the worklist holds named types only.
THEOREM Typed == Spec => []TypeOK
<1> QED
  BY InitInv, StepInv, PTL DEF Spec, Inv

\* The answer is right for all definitions, in whatever order they are visited.
THEOREM AnswersRight == Spec => []AnswerIsRight
<1>1. Inv => AnswerIsRight
  BY NoCycle DEF Inv, Answered, AnswerIsRight
<1> QED
  BY <1>1, InitInv, StepInv, PTL DEF Spec
=============================================================================
