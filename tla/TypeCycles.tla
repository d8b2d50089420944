----------------------------- MODULE TypeCycles -----------------------------
(***************************************************************************)
(* TypeRegistry::has_required_cycle (src/src/types.rs): does a value of a  *)
(* named type contain another value of that type, directly or through the  *)
(* fields of its fields?  The types still to visit are a set here: the     *)
(* answer does not depend on the order of the stack, nor on duplicates.    *)
(***************************************************************************)
CONSTANTS
    Names,          \* the names the program defines as types
    Primitives,     \* the names of primitive types; they hide a definition
    Unknown         \* names that are neither

VARIABLES
    fields,         \* the names of the types of a type's fields
    name,           \* the type asked about
    pending,        \* the types still to visit
    seen,           \* the types visited
    result          \* the answer, once there is one

vars == <<fields, name, pending, seen, result>>

AllNames == Names \cup Primitives \cup Unknown
NamedTypes == Names \ Primitives
Required(id) == fields[id] \cap NamedTypes

\* A name that is not a named type is on no cycle.
Init ==
    /\ fields \in [Names -> SUBSET AllNames]
    /\ name \in AllNames
    /\ seen = {}
    /\ IF name \in NamedTypes
       THEN pending = {name} /\ result = "searching"
       ELSE pending = {} /\ result = "no"

Skip(id) ==
    /\ result = "searching" /\ id \in pending \cap seen
    /\ pending' = pending \ {id}
    /\ UNCHANGED <<fields, name, seen, result>>

\* Mutants: any type met again counts as the cycle; a visited type is not noted.
AnyCycle(id) ==
    /\ result = "searching" /\ id \in pending \ seen
    /\ seen' = seen \cup {id}
    /\ IF Required(id) \cap seen' # {}
       THEN result' = "yes" /\ pending' = {}
       ELSE result' = result /\ pending' = (pending \ {id}) \cup Required(id)
    /\ UNCHANGED <<fields, name>>
Forgetful(id) ==
    /\ result = "searching" /\ id \in pending \ seen
    /\ IF name \in Required(id)
       THEN result' = "yes" /\ pending' = {}
       ELSE result' = result /\ pending' = (pending \ {id}) \cup Required(id)
    /\ UNCHANGED <<fields, name, seen>>
Visit(id) ==
    /\ result = "searching" /\ id \in pending \ seen
    /\ seen' = seen \cup {id}
    /\ IF name \in Required(id)
       THEN result' = "yes" /\ pending' = {}
       ELSE result' = result /\ pending' = (pending \ {id}) \cup Required(id)
    /\ UNCHANGED <<fields, name>>

Finish == /\ result = "searching" /\ pending = {}
          /\ result' = "no"
          /\ UNCHANGED <<fields, name, pending, seen>>

Next == (\E id \in NamedTypes : Skip(id) \/ Visit(id)) \/ Finish
Spec == Init /\ [][Next]_vars /\ WF_vars(Next)

----------------------------------------------------------------------------

\* The search only ever holds named types.
TypeOK ==
    /\ fields \in [Names -> SUBSET AllNames]
    /\ name \in AllNames
    /\ pending \subseteq NamedTypes /\ seen \subseteq NamedTypes
    /\ result \in {"searching", "yes", "no"}
    /\ name \notin NamedTypes => result = "no"

\* A set that contains all that its members and `name' require.
Closed(types) == /\ Required(name) \subseteq types
                 /\ \A id \in types : Required(id) \subseteq types
\* The smallest of these sets is what `name' needs: it is on a cycle when it is
\* in all of them.
OnCycle == /\ name \in NamedTypes
           /\ \A types \in SUBSET NamedTypes : Closed(types) => name \in types

\* The search finds a cycle exactly when there is one through the type asked
\* about: a cycle among the types it needs does not count, and is survived.
AnswerIsRight ==
    /\ result = "yes" => OnCycle
    /\ result = "no" => ~OnCycle

\* The search ends, whatever cycles the types it meets are on.
Ends == <>(result # "searching")
=============================================================================
