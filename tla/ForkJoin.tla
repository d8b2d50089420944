------------------------------ MODULE ForkJoin ------------------------------
(***************************************************************************)
(* What a parallel statement promises to somebody who sees only which      *)
(* iterations run, what the program prints and how the statement ends      *)
(* (src/docs/src/content/docs/runtime/parallel.md).  Iterations run in     *)
(* windows of at most Width; a window is a barrier; nothing is printed     *)
(* while anything runs; lines come out in input order; the statement goes  *)
(* on to the next window only when all of this one succeeded.              *)
(***************************************************************************)
EXTENDS Integers, Sequences

CONSTANTS Width, NoAnswer

VARIABLES
    state,      \* per iteration: "waiting", "running", "ok" or "failed"
    settled,    \* the iterations of the windows that are over: 1..settled
    phase,      \* "fork", "deliver" or "over"
    log,        \* the lines printed: [from |-> iteration, op |-> line]
    answer      \* the first error, or NoAnswer; meaningful when over

vars == <<state, settled, phase, log, answer>>

Count == Len(state)
WindowEnd == IF settled + Width < Count THEN settled + Width ELSE Count
Window == (settled + 1)..WindowEnd
Quiet == \A i \in 1..Count : state[i] # "running"

Init ==
    /\ state \in Seq({"waiting"})
    /\ settled = 0
    /\ phase = "fork"
    /\ log = <<>>
    /\ answer = NoAnswer

Start(i) ==
    /\ phase = "fork"
    /\ i \in Window
    /\ state[i] = "waiting"
    /\ state' = [state EXCEPT ![i] = "running"]
    /\ UNCHANGED <<settled, phase, log, answer>>

End(i) ==
    /\ phase = "fork"
    /\ state[i] = "running"
    /\ \E s \in {"ok", "failed"} : state' = [state EXCEPT ![i] = s]
    /\ UNCHANGED <<settled, phase, log, answer>>

\* The barrier.
Close ==
    /\ phase = "fork"
    /\ Quiet
    /\ phase' = "deliver"
    /\ UNCHANGED <<state, settled, log, answer>>

\* One more line, of an iteration of this window, behind all printed so far.
Line ==
    /\ phase = "deliver"
    /\ Len(log') = Len(log) + 1
    /\ LET new == log'[Len(log')]
       IN /\ log' = Append(log, new)
          /\ new.from \in Window
          /\ state[new.from] \in {"ok", "failed"}
          /\ \A k \in 1..Len(log) :
                \/ log[k].from < new.from
                \/ log[k].from = new.from /\ log[k].op < new.op
    /\ UNCHANGED <<state, settled, phase, answer>>

Proceed ==
    /\ phase = "deliver"
    /\ WindowEnd < Count
    /\ \A i \in Window : state[i] = "ok"
    /\ settled' = WindowEnd
    /\ phase' = "fork"
    /\ UNCHANGED <<state, log, answer>>

Succeed ==
    /\ phase # "over"
    /\ \A i \in 1..Count : state[i] = "ok"
    /\ phase' = "over"
    /\ UNCHANGED <<state, settled, log, answer>>

\* The answer names the first iteration that failed, or one that could not be
\* started or printed before any failed.
Fail ==
    /\ phase # "over"
    /\ Quiet
    /\ answer' # NoAnswer
    /\ answer'.at \in Window
    /\ \A i \in 1..(answer'.at - 1) : state[i] # "failed"
    /\ phase' = "over"
    /\ UNCHANGED <<state, settled, log>>

Next ==
    \/ \E i \in 1..Count : Start(i) \/ End(i)
    \/ Close \/ Line \/ Proceed \/ Succeed \/ Fail

Spec == Init /\ [][Next]_vars
=============================================================================
