------------------------------- MODULE Handles -------------------------------
(***************************************************************************)
(* What a program may rely on about connection handles, whichever runtime  *)
(* issued them: a handle is issued once, to one owner; it denotes that     *)
(* owner's socket until it is closed or its owner goes away; and after     *)
(* that it denotes nothing, for ever.                                      *)
(***************************************************************************)
CONSTANTS
    Ids,        \* the handles there can be
    Owners      \* the runtimes that own sockets

VARIABLES
    issued,     \* the handles that have been issued so far
    owned       \* per owner: its open handles

vars == <<issued, owned>>

Init == issued = {} /\ owned = [o \in Owners |-> {}]

Issue(o, id) ==
    /\ id \notin issued
    /\ issued' = issued \cup {id}
    /\ owned' = [owned EXCEPT ![o] = @ \cup {id}]

Close(o, id) ==
    /\ id \in owned[o]
    /\ owned' = [owned EXCEPT ![o] = @ \ {id}]
    /\ UNCHANGED issued

\* An owner goes away with everything it owns.
Retire(o) ==
    /\ owned' = [owned EXCEPT ![o] = {}]
    /\ UNCHANGED issued

Next ==
    \E o \in Owners :
        \/ \E id \in Ids : Issue(o, id) \/ Close(o, id)
        \/ Retire(o)

Spec == Init /\ [][Next]_vars

-----------------------------------------------------------------------------
\* A handle is open in one runtime at most, and only after it was issued.
OneOwner ==
    /\ \A o \in Owners : owned[o] \subseteq issued
    /\ \A o, p \in Owners : o # p => owned[o] \cap owned[p] = {}

\* A handle that was issued and is open nowhere stays closed in every runtime.
StaysClosed ==
    [][\A id \in issued :
          (\A o \in Owners : id \notin owned[o])
              => \A o \in Owners : id \notin owned'[o]]_vars
=============================================================================
