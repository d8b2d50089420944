------------------------------ MODULE MCParallel ------------------------------
(***************************************************************************)
(* Small instances of Parallel for TLC.                                    *)
(***************************************************************************)
EXTENDS ParallelReference

T == [kind |-> "step", len |-> 0]
Loop == [kind |-> "spin", len |-> 0]
R == [kind |-> "request", len |-> 0]
F == [kind |-> "fail", len |-> 0]
X == [kind |-> "panic", len |-> 0]
P(len) == [kind |-> "print", len |-> len]

\* Two to five iterations, run by three workers: success, failures in the
\* first, the last and several places of a batch, a panic after output, an
\* output limit of 4 bytes reached exactly (P(3); P(1), P(1)) and passed by one.
WorkerBodies == {
    <<>>,
    <<<<P(1), T, P(1)>>, <<T, P(3)>>, <<R, P(0), T>>>>,
    <<<<T, P(1), R>>, <<P(2), F>>, <<R, T>>, <<P(0)>>>>,
    <<<<P(0), X>>, <<P(1), T, F, P(1)>>, <<P(0)>>>>,
    <<<<P(0), T>>, <<R, P(1)>>, <<P(1), P(2), R>>, <<X>>, <<T>>>>,
    <<<<P(1), R, P(1)>>, <<P(4), T>>>>,
    <<<<R, P(0), T, R, P(1)>>, <<T, R, P(1), X>>, <<P(0), R, T, P(1), F>>,
      <<R, P(1)>>>>,
    <<<<R, P(2)>>, <<T, R>>, <<P(0), T, P(0), R>>, <<R, P(1), R, F>>,
      <<P(1), R, P(2)>>>>
}

\* The same shapes with loops that never end and bodies longer than the
\* budget, for instances with few steps; in the last two a first batch succeeds
\* and the budget ends with the first or the second job of the next one.
BudgetBodies == {
    <<<<T, P(1), T>>, <<Loop>>, <<P(1)>>>>,
    <<<<T, T, R, T>>, <<P(1), T, T, F>>, <<T>>>>,
    <<<<T>>, <<T, P(0)>>, <<T, R>>, <<Loop>>, <<T>>>>,
    <<<<P(0), T, R, T>>, <<T, P(1), T, R, T>>, <<P(0)>>>>,
    <<<<T, P(0), R>>, <<T, R, T, P(1), T>>, <<P(1)>>, <<R>>>>
}

\* Statements whose hosts fail: several lines per outcome, errors of the body
\* behind them, batches that are not full, one to three batches, and one
\* statement with more to do than eight steps allow.
FaultBodies == {
    <<<<P(1), P(1), F>>, <<P(1), R>>, <<P(0)>>>>,
    <<<<P(1), T>>, <<R, P(1), X>>, <<P(0)>>, <<T, F>>>>,
    <<<<P(1), R>>, <<F>>>>,
    <<<<R, P(1), P(0), X>>, <<P(0), R, P(2)>>, <<P(1), P(1), F>>, <<R>>>>,
    <<<<T, P(2), P(0)>>, <<P(0)>>, <<T>>, <<T, P(0), F>>, <<X>>, <<R>>, <<T>>>>
}
=============================================================================
