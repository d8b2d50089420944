-------------------------- MODULE ParallelReference --------------------------
(***************************************************************************)
(* What a parallel statement computes, defined without threads: every      *)
(* iteration run alone, and the lines of those that run put together in    *)
(* input order.  The properties compare the concurrent execution of        *)
(* Parallel with it.  Sums are taken by counting and the order of lines is *)
(* stated apart from the set of them, so that both can be reasoned about.  *)
(***************************************************************************)
EXTENDS Parallel

\* The sum of the values of f: its arguments, each as often as its value says.
Units(f) == UNION {{k} \X (1..f[k]) : k \in DOMAIN f}
Total(f) == Cardinality(Units(f))

Elements(seq) == {seq[k] : k \in 1..Len(seq)}

-----------------------------------------------------------------------------
(***************************************************************************)
(* One iteration alone, with steps to spare: ops is what it executes.      *)
(***************************************************************************)
\* The lines among the first k operations; what they take with their newlines.
Prints(ops, k) == {p \in 1..k : ops[p].kind = "print"}
Sizes(ops, k) == [p \in Prints(ops, k) |-> ops[p].len + 1]

\* The operations at which the iteration cannot go on.
Stops(ops) ==
    {k \in 1..Len(ops) :
        \/ ops[k].kind \in {"fail", "panic"}
        \/ ops[k].kind = "print" /\ Total(Sizes(ops, k)) > OutputLimit}
FirstStop(ops) == CHOOSE k \in Stops(ops) : \A l \in Stops(ops) : k <= l

CauseAlone(ops) ==
    IF Stops(ops) = {} THEN "none"
    ELSE CASE ops[FirstStop(ops)].kind = "fail" -> "body"
           [] ops[FirstStop(ops)].kind = "panic" -> "panicked"
           [] OTHER -> "buffer"

\* A panic loses the lines before it.
LinesAlone(ops) ==
    IF CauseAlone(ops) = "panicked" THEN {}
    ELSE {p \in Prints(ops, Len(ops)) : \A k \in Stops(ops) : p < k}

-----------------------------------------------------------------------------
(***************************************************************************)
(* The statement.                                                          *)
(***************************************************************************)
Failing == {i \in Iterations : Stops(body[i]) # {}}
FirstFailing == CHOOSE i \in Failing : \A j \in Failing : i <= j

\* A batch ends between iterations j and i.
EarlierBatch(j, i) == \E b \in 1..N : j <= b * Workers /\ b * Workers < i

\* No batch is started behind one with an error.
Ran == {i \in Iterations : ~\E j \in Failing : EarlierBatch(j, i)}

LinesOf(i, ops) == {[from |-> i, op |-> k] : k \in ops}

\* Exactly these lines have been printed, each once and in input order.
PrintedExactly(lines) == Elements(printed) = lines /\ ReplayInOrder

\* What the statement prints and how it ends do not depend on the scheduling
\* of the workers, as long as the steps suffice and the host does not fail.
ScheduleIndependence ==
    (pc = "done" /\ Faults = {} /\ steps > 0) =>
        /\ PrintedExactly(UNION {LinesOf(i, LinesAlone(body[i])) : i \in Ran})
        /\ error = IF Failing = {} THEN NoError
                   ELSE Error(FirstFailing, CauseAlone(body[FirstFailing]))

\* The lines iteration i printed before it ended; a panic loses them.
PrintedBy(i) ==
    IF failure[i] = "panicked" THEN {} ELSE Prints(body[i], position[i] - 1)

\* Output is not lost to errors: unless the host refuses a line, a statement
\* that ends, with or without an error, has printed every line of every worker
\* that was started and did not panic.
OutputSurvivesErrors ==
    (pc = "done" /\ "print" \notin Faults) =>
        PrintedExactly(UNION {LinesOf(i, PrintedBy(i)) : i \in Iterations})

\* The sizes of the buffered lines of an iteration, newlines included.
LineSizes(ops, lines) == [k \in 1..Len(lines) |-> ops[lines[k]].len + 1]

\* A worker buffers at most OutputLimit bytes, newlines included, and refuses
\* a line only when that line would not have fitted.
BufferWithinLimit ==
    \A i \in Iterations :
        /\ Total(LineSizes(body[i], output[i])) <= OutputLimit
        /\ failure[i] = "buffer" =>
              Total(LineSizes(body[i], Append(output[i], position[i])))
                 > OutputLimit

\* One budget for the parent and all its workers: the steps they took and the
\* steps that remain add up to the budget, and nobody is refused a step while
\* some remain.
BudgetShared ==
    /\ steps + Total(ticks) = Steps
    /\ (error.cause = "job limit" \/ \E i \in Iterations : failure[i] = "limit")
          => steps = 0

-----------------------------------------------------------------------------
(***************************************************************************)
(* The inductive invariant behind these properties, on top of OrderInv.    *)
(***************************************************************************)
\* What iteration i has done is what it does alone up to the same operation.
Halted(i, kinds) ==
    position[i] <= Len(body[i]) /\ body[i][position[i]].kind \in kinds
AsAlone(i) ==
    /\ position[i] \in 1..(Len(body[i]) + 1)
    /\ \A k \in Stops(body[i]) : position[i] <= k
    /\ IsFiniteSet(Units(Sizes(body[i], position[i] - 1)))
    /\ Total(Sizes(body[i], position[i] - 1)) = bytes[i]
    /\ bytes[i] <= OutputLimit

\* Its buffer holds its lines, unless it panicked.
Buffered(i) ==
    /\ failure[i] = "panicked" => output[i] = <<>>
    /\ failure[i] # "panicked" =>
          /\ Elements(output[i]) = PrintedBy(i)
          /\ IsFiniteSet(Units(LineSizes(body[i], output[i])))
          /\ Total(LineSizes(body[i], output[i])) = bytes[i]

\* It ended where its outcome says.
EndedAt(i) ==
    /\ failure[i] = "body" => Halted(i, {"fail"})
    /\ failure[i] = "panicked" \/ thread[i] = "panicked"
          => Halted(i, {"panic"})
    /\ failure[i] = "buffer" => Halted(i, {"print"}) /\ ~Fits(i)
    /\ failure[i] \in {"buffer", "body", "limit", "panicked"}
          => thread[i] \in {"returned", "joined"}
    /\ thread[i] = "panicked" => failure[i] = "none"
    /\ thread[i] \in {"returned", "joined"} /\ failure[i] = "none"
          => position[i] = Len(body[i]) + 1
Accounts == \A i \in Iterations : AsAlone(i) /\ Buffered(i) /\ EndedAt(i)

\* Line m of iteration i lies before the place the replay has reached.
Replayed(i, m) ==
    CASE pc = "done" -> TRUE
      [] pc = "replay" -> i < next \/ (i = next /\ m < line)
      [] OTHER -> i <= base
Printed(i, m) ==
    \E k \in 1..Len(printed) : printed[k] = [from |-> i, op |-> output[i][m]]
NothingInvented ==
    \A k \in 1..Len(printed) :
        \E m \in 1..Len(output[printed[k].from]) :
            printed[k].op = output[printed[k].from][m]
NothingLost ==
    "print" \notin Faults =>
        \A i \in Iterations : \A m \in 1..Len(output[i]) :
            Replayed(i, m) => Printed(i, m)

\* The batches and the ends of a statement.
BatchesWhole == \E b \in 0..N : base = b * Workers
FaultsNamed ==
    /\ (\E i \in Iterations : failure[i] = "spawn") => "spawn" \in Faults
    /\ error.cause \in {"fork", "print"} => error.cause \in Faults
EndOfStatement ==
    /\ error # NoError => error.cause # "none"
    /\ pc = "done" /\ error # NoError => error.at \in Batch
    /\ pc = "done" /\ error.cause \notin {"job limit", "fork"} =>
          started = ChunkEnd \/ "spawn" \in Faults

Budgeted == IsFiniteSet(Units(ticks)) /\ BudgetShared
ReferenceInv ==
    /\ OrderInv /\ Budgeted /\ Accounts
    /\ NothingInvented /\ NothingLost
    /\ BatchesWhole /\ FaultsNamed /\ EndOfStatement
=============================================================================
