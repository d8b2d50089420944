------------------------------ MODULE Parallel ------------------------------
(***************************************************************************)
(* One `parallel x in array { ... }` statement executed by the interpreter *)
(* outside any worker (src/src/interpreter/parallel.rs).  The parent cuts  *)
(* the array into batches of at most Workers values.  For each batch it    *)
(* prepares the jobs, spawns a thread per job, joins the threads in input  *)
(* order, replays their buffered output through its own host and stops at  *)
(* the first error.  The workers of a batch interleave freely; they share  *)
(* only the execution-step budget.                                         *)
(*                                                                         *)
(* An iteration's body is abstracted to the operations the scheduling      *)
(* tells apart (Op); `body[i]' is what iteration i will execute.           *)
(***************************************************************************)
EXTENDS Integers, Sequences, FiniteSets

CONSTANTS
    Bodies,         \* the statements considered: a set of sequences of bodies
    Steps,          \* remaining_steps when the statement starts
    Workers,        \* Limits::parallel_workers
    OutputLimit,    \* Limits::parallel_output_bytes
    Faults          \* which of the environment's failures may happen

\* step: a statement or expression that only ticks; spin: a loop that never
\* ends, ticking; print: a buffered line of len bytes; request: an operation
\* of the forked host; fail: a runtime error; panic: a Rust panic.
Kinds == {"step", "spin", "print", "request", "fail", "panic"}
Op == [kind : Kinds, len : Nat]

ASSUME ParallelAssumption ==
    /\ Bodies \subseteq Seq(Seq(Op))
    /\ Steps \in Nat
    /\ Workers \in 1..64
    /\ OutputLimit \in Nat
    /\ Faults \subseteq {"fork", "spawn", "print"}

VARIABLES
    body,       \* what each iteration executes; chosen once
    steps,      \* remaining_steps, the counter shared by parent and workers
    pc,         \* where the parent stands
    base,       \* the current batch starts at base + 1
    started,    \* the workers of this batch with a handle: base+1..started
    next,       \* the iteration the parent's current loop stands at
    line,       \* replay: the next line of outcome `next'
    error,      \* first_error; the statement's result once pc = "done"
    printed,    \* what the parent's host has printed
    thread,     \* per iteration: the state of its thread
    position,   \* per iteration: the next operation of its body
    output,     \* per iteration: the buffered lines (the ops that made them)
    bytes,      \* per iteration: output_bytes
    failure,    \* per iteration: why its outcome is an error
    effects,    \* history: the network effects, in the order they happened
    ticks       \* history: steps taken by each worker, and by the parent (0)

parentVars == <<base, started, next, line, error, printed>>
workerVars == <<position, output, bytes, effects>>
vars == <<body, steps, pc, base, started, next, line, error, printed,
          thread, position, output, bytes, failure, effects, ticks>>

N == Len(body)
Iterations == 1..N

\* Why an outcome, or the statement, is an error.
Causes == {"none", "limit", "buffer", "body", "panicked", "spawn"}
ErrorCauses == Causes \cup {"job limit", "fork", "print"}
Errors == [at : Nat, cause : ErrorCauses]
NoError == [at |-> 0, cause |-> "none"]
Error(i, cause) == [at |-> i, cause |-> cause]

\* The last iteration of the current chunk (slice::chunks).
ChunkEnd == IF base + Workers < N THEN base + Workers ELSE N
Batch == (base + 1)..ChunkEnd
\* Mutant: the spawn error is forgotten.
LastOutcomeUnpushed == started

\* A spawn error is pushed behind the outcomes of the workers that did start.
LastOutcome == IF started < ChunkEnd THEN started + 1 ELSE started

Init ==
    /\ body \in Bodies
    /\ steps = Steps
    /\ pc = "enter"
    /\ base = 0 /\ started = 0 /\ next = 1 /\ line = 1
    /\ error = NoError
    /\ printed = <<>>
    /\ thread = [i \in Iterations |-> "idle"]
    /\ position = [i \in Iterations |-> 1]
    /\ output = [i \in Iterations |-> <<>>]
    /\ bytes = [i \in Iterations |-> 0]
    /\ failure = [i \in Iterations |-> "none"]
    /\ effects = <<>>
    /\ ticks = [i \in 0..N |-> 0]

\* Interpreter::tick, on behalf of worker i or of the parent (0).
CanTick == steps > 0

\* Mutant: each worker counts down a copy of its own.
TickOwnCopy(i) ==
    /\ CanTick
    /\ steps' = IF i = 0 THEN steps - 1 ELSE steps
    /\ ticks' = [ticks EXCEPT ![i] = @ + 1]

Tick(i) ==
    /\ CanTick
    /\ steps' = steps - 1
    /\ ticks' = [ticks EXCEPT ![i] = @ + 1]

-----------------------------------------------------------------------------
(***************************************************************************)
(* The parent.                                                             *)
(***************************************************************************)

\* The array has been evaluated; an empty one ends the statement at once.
Enter ==
    /\ pc = "enter"
    /\ pc' = IF N = 0 THEN "done" ELSE "prepare"
    /\ UNCHANGED <<body, steps, parentVars, thread, workerVars, failure,
                   ticks>>

PrepareJob ==
    /\ pc = "prepare"
    /\ Tick(0)
    /\ IF next = ChunkEnd
       THEN pc' = "spawn" /\ next' = base + 1
       ELSE pc' = "prepare" /\ next' = next + 1
    /\ UNCHANGED <<body, base, started, line, error, printed,
                   thread, workerVars, failure>>

\* `self.tick()?': the jobs already prepared are dropped, none was started.
JobTickFails ==
    /\ pc = "prepare"
    /\ ~CanTick
    /\ error' = Error(next, "job limit")
    /\ pc' = "done"
    /\ UNCHANGED <<body, steps, base, started, next, line, printed,
                   thread, workerVars, failure, ticks>>

ForkFails ==
    /\ pc = "prepare"
    /\ "fork" \in Faults
    /\ Tick(0)
    /\ error' = Error(next, "fork")
    /\ pc' = "done"
    /\ UNCHANGED <<body, base, started, next, line, printed,
                   thread, workerVars, failure>>

SpawnWorker ==
    /\ pc = "spawn"
    /\ thread' = [thread EXCEPT ![next] = "running"]
    /\ started' = next
    /\ IF next = ChunkEnd
       THEN pc' = "join" /\ next' = base + 1
       ELSE pc' = "spawn" /\ next' = next + 1
    /\ UNCHANGED <<body, steps, base, line, error, printed,
                   workerVars, failure, ticks>>

\* Mutant: the spawn error returns at once and leaves the started workers.
SpawnFailsReturning ==
    /\ pc = "spawn"
    /\ "spawn" \in Faults
    /\ failure' = [failure EXCEPT ![next] = "spawn"]
    /\ error' = Error(next, "spawn")
    /\ pc' = "done"
    /\ UNCHANGED <<body, steps, base, started, next, line, printed,
                   thread, workerVars, ticks>>

\* The jobs behind the failed one are dropped; the started ones are joined.
SpawnFails ==
    /\ pc = "spawn"
    /\ "spawn" \in Faults
    /\ failure' = [failure EXCEPT ![next] = "spawn"]
    /\ pc' = "join"
    /\ next' = base + 1
    /\ UNCHANGED <<body, steps, base, started, line, error, printed,
                   thread, workerVars, ticks>>

\* Mutant: the lines of a panicked worker are kept.
JoinKeepingOutput ==
    /\ pc = "join"
    /\ next <= started
    /\ thread[next] \in {"returned", "panicked"}
    /\ thread' = [thread EXCEPT ![next] = "joined"]
    /\ failure' = IF thread[next] = "panicked"
                  THEN [failure EXCEPT ![next] = "panicked"] ELSE failure
    /\ next' = next + 1
    /\ UNCHANGED <<body, steps, pc, base, started, line, error, printed,
                   workerVars, ticks>>

\* handle.join(): a panicked thread yields an outcome without its output.
Join ==
    /\ pc = "join"
    /\ next <= started
    /\ thread[next] \in {"returned", "panicked"}
    /\ thread' = [thread EXCEPT ![next] = "joined"]
    /\ IF thread[next] = "panicked"
       THEN /\ output' = [output EXCEPT ![next] = <<>>]
            /\ failure' = [failure EXCEPT ![next] = "panicked"]
       ELSE UNCHANGED <<output, failure>>
    /\ next' = next + 1
    /\ UNCHANGED <<body, steps, pc, base, started, line, error, printed,
                   position, bytes, effects, ticks>>

\* Mutant: the parent goes on as soon as the first worker has been joined.
AllJoinedDetached ==
    /\ pc = "join"
    /\ next > started \/ next > base + 1
    /\ pc' = "replay"
    /\ next' = base + 1
    /\ line' = 1
    /\ UNCHANGED <<body, steps, base, started, error, printed,
                   thread, workerVars, failure, ticks>>

AllJoined ==
    /\ pc = "join"
    /\ next > started
    /\ pc' = "replay"
    /\ next' = base + 1
    /\ line' = 1
    /\ UNCHANGED <<body, steps, base, started, error, printed,
                   thread, workerVars, failure, ticks>>

Replaying == pc = "replay" /\ next <= LastOutcome
MoreLines == line <= Len(output[next])

ReplayLine ==
    /\ Replaying /\ MoreLines
    /\ printed' = Append(printed, [from |-> next, op |-> output[next][line]])
    /\ line' = line + 1
    /\ UNCHANGED <<body, steps, pc, base, started, next, error,
                   thread, workerVars, failure, ticks>>

\* The host refuses a line: the rest of this outcome's output is skipped, and
\* its own error is masked by the print error.
ReplayLineFails ==
    /\ Replaying /\ MoreLines
    /\ "print" \in Faults
    /\ error' = IF error = NoError THEN Error(next, "print") ELSE error
    /\ next' = next + 1
    /\ line' = 1
    /\ UNCHANGED <<body, steps, pc, base, started, printed,
                   thread, workerVars, failure, ticks>>

\* Mutant: the last error wins.
FinishOutcomeLastError ==
    /\ Replaying /\ ~MoreLines
    /\ error' = IF failure[next] # "none"
                THEN Error(next, failure[next]) ELSE error
    /\ next' = next + 1
    /\ line' = 1
    /\ UNCHANGED <<body, steps, pc, base, started, printed,
                   thread, workerVars, failure, ticks>>

FinishOutcome ==
    /\ Replaying /\ ~MoreLines
    /\ error' = IF error = NoError /\ failure[next] # "none"
                THEN Error(next, failure[next]) ELSE error
    /\ next' = next + 1
    /\ line' = 1
    /\ UNCHANGED <<body, steps, pc, base, started, printed,
                   thread, workerVars, failure, ticks>>

EndBatch ==
    /\ pc = "replay"
    /\ next > LastOutcome
    /\ IF error # NoError \/ ChunkEnd = N
       THEN pc' = "done" /\ UNCHANGED <<base, started, next>>
       ELSE /\ pc' = "prepare"
            /\ base' = ChunkEnd
            /\ started' = ChunkEnd
            /\ next' = ChunkEnd + 1
    /\ UNCHANGED <<body, steps, line, error, printed,
                   thread, workerVars, failure, ticks>>

-----------------------------------------------------------------------------
(***************************************************************************)
(* The workers (execute_worker): every operation is one atomic step.       *)
(***************************************************************************)
AtOp(i, kinds) ==
    /\ thread[i] = "running"
    /\ position[i] <= Len(body[i])
    /\ body[i][position[i]].kind \in kinds

Advance(i) == position' = [position EXCEPT ![i] = @ + 1]

\* Mutant: an error discards what the worker printed.
FailsDroppingOutput(i, cause) ==
    /\ thread' = [thread EXCEPT ![i] = "returned"]
    /\ failure' = [failure EXCEPT ![i] = cause]
    /\ output' = [output EXCEPT ![i] = <<>>]
    /\ UNCHANGED <<body, steps, pc, parentVars, position, bytes, effects,
                   ticks>>

\* execute_worker returns Err: the outcome keeps the output made so far.
Fails(i, cause) ==
    /\ thread' = [thread EXCEPT ![i] = "returned"]
    /\ failure' = [failure EXCEPT ![i] = cause]
    /\ UNCHANGED <<body, steps, pc, parentVars, workerVars, ticks>>

Step(i) ==
    /\ AtOp(i, {"step"})
    /\ Tick(i)
    /\ Advance(i)
    /\ UNCHANGED <<body, pc, parentVars, thread, output, bytes, failure,
                   effects>>

\* Mutant: an empty loop costs no steps.
SpinFree(i) == AtOp(i, {"spin"}) /\ UNCHANGED vars

Spin(i) ==
    /\ AtOp(i, {"spin"})
    /\ Tick(i)
    /\ UNCHANGED <<body, pc, parentVars, thread, workerVars, failure>>

TickFails(i) == AtOp(i, {"step", "spin"}) /\ ~CanTick /\ Fails(i, "limit")

\* Mutant: the newline is not counted.
FitsWithoutNewline(i) == bytes[i] + body[i][position[i]].len <= OutputLimit

\* WorkerRuntime::print
Fits(i) == bytes[i] + body[i][position[i]].len + 1 <= OutputLimit

PrintLine(i) ==
    /\ AtOp(i, {"print"})
    /\ Fits(i)
    /\ output' = [output EXCEPT ![i] = Append(@, position[i])]
    /\ bytes' = [bytes EXCEPT ![i] = @ + body[i][position[i]].len + 1]
    /\ Advance(i)
    /\ UNCHANGED <<body, steps, pc, parentVars, thread, failure, effects,
                   ticks>>

PrintFails(i) == AtOp(i, {"print"}) /\ ~Fits(i) /\ Fails(i, "buffer")

\* An operation of the worker's own host: visible to the outside at once.
Request(i) ==
    /\ AtOp(i, {"request"})
    /\ effects' = Append(effects, i)
    /\ Advance(i)
    /\ UNCHANGED <<body, steps, pc, parentVars, thread, output, bytes, failure,
                   ticks>>

BodyFails(i) == AtOp(i, {"fail"}) /\ Fails(i, "body")

Panic(i) ==
    /\ AtOp(i, {"panic"})
    /\ thread' = [thread EXCEPT ![i] = "panicked"]
    /\ UNCHANGED <<body, steps, pc, parentVars, workerVars, failure, ticks>>

Return(i) ==
    /\ thread[i] = "running"
    /\ position[i] > Len(body[i])
    /\ thread' = [thread EXCEPT ![i] = "returned"]
    /\ UNCHANGED <<body, steps, pc, parentVars, workerVars, failure, ticks>>

WorkerStep(i) ==
    /\ i \in Iterations
    /\ \/ Step(i) \/ Spin(i) \/ TickFails(i)
       \/ PrintLine(i) \/ PrintFails(i)
       \/ Request(i) \/ BodyFails(i) \/ Panic(i) \/ Return(i)

ParentStep ==
    \/ Enter
    \/ PrepareJob \/ JobTickFails \/ ForkFails
    \/ SpawnWorker \/ SpawnFails
    \/ Join \/ AllJoined
    \/ ReplayLine \/ ReplayLineFails \/ FinishOutcome \/ EndBatch

\* The statement is over; the interpreter goes on with what follows it.
Over == pc = "done" /\ UNCHANGED vars

Next == ParentStep \/ (\E i \in Iterations : WorkerStep(i)) \/ Over

\* The parent keeps running and the operating system schedules every thread;
\* the host's blocking calls end because each of them has a timeout.
AnyIteration == UNION {DOMAIN b : b \in Bodies}
Fairness ==
    /\ WF_vars(ParentStep)
    /\ \A i \in AnyIteration : WF_vars(WorkerStep(i))

Spec == Init /\ [][Next]_vars /\ Fairness

-----------------------------------------------------------------------------
(***************************************************************************)
(* Properties.                                                             *)
(***************************************************************************)
Line == [from : Iterations, op : Nat]

\* The loop variables and the budget, and the data.
NumbersOK ==
    /\ body \in Seq(Seq(Op))
    /\ steps \in 0..Steps
    /\ pc \in {"enter", "prepare", "spawn", "join", "replay", "done"}
    /\ base \in 0..N /\ started \in 0..N /\ next \in 1..(N + 1)
    /\ line \in Nat \ {0}
DataOK ==
    /\ error \in Errors
    /\ printed \in Seq(Line)
    /\ thread \in [Iterations ->
                      {"idle", "running", "returned", "panicked", "joined"}]
    /\ position \in [Iterations -> Nat \ {0}]
    /\ output \in [Iterations -> Seq(Nat)]
    /\ bytes \in [Iterations -> Nat]
    /\ failure \in [Iterations -> Causes]
    /\ effects \in Seq(Iterations)
    /\ ticks \in [0..N -> Nat]

\* Every variable has its type.
TypeOK == NumbersOK /\ DataOK

\* Every started worker has been joined whenever the parent prepares the next
\* batch, prints, or is over: no thread outlives the barrier.
BarrierHolds ==
    pc \notin {"spawn", "join"} =>
        \A i \in Iterations : thread[i] \in {"idle", "joined"}

\* A worker touches the outside world only between its spawn and the barrier:
\* never while the parent prints and never after the statement is over.
EffectsInsideBarrier ==
    [][effects' # effects => pc \in {"spawn", "join"}]_vars

\* Never more than `parallel_workers' threads at once.
ConcurrencyBounded ==
    Cardinality({i \in Iterations : thread[i] = "running"}) <= Workers

\* The statement ends with the first error in input order, whatever the order
\* in which the workers failed; without one, every iteration succeeded.
FirstErrorInOrder ==
    pc = "done" =>
        IF error = NoError
        THEN \A i \in Iterations : thread[i] = "joined" /\ failure[i] = "none"
        ELSE /\ \A i \in 1..(error.at - 1) : failure[i] = "none"
             /\ error.cause \in Causes => failure[error.at] = error.cause
             /\ thread[error.at] = "idle" =>
                    error.cause \in {"job limit", "fork", "spawn"}

\* Lines reach the host in input order, and each iteration's in the order in
\* which it printed them.
ReplayInOrder ==
    \A k \in 1..(Len(printed) - 1) :
        \/ printed[k].from < printed[k + 1].from
        \/ /\ printed[k].from = printed[k + 1].from
           /\ printed[k].op < printed[k + 1].op

\* Every started statement ends, even when a worker loops for ever: the loop
\* uses up the shared step budget, and every started worker is joined.
Termination == <>(pc = "done")

-----------------------------------------------------------------------------
(***************************************************************************)
(* The inductive invariant behind the safety properties.                   *)
(***************************************************************************)
\* Where the parent's loops stand.
Counters ==
    /\ base <= started /\ started <= ChunkEnd
    /\ pc = "enter" => base = 0 /\ next = 1
    /\ pc \notin {"enter", "done"} => base < N
    /\ pc \in {"enter", "prepare"} => started = base
    /\ pc = "prepare" => next \in Batch
    /\ pc = "spawn" => next \in Batch /\ started = next - 1
    /\ pc = "join" => next \in (base + 1)..(started + 1)
    /\ pc = "replay" => next \in (base + 1)..(LastOutcome + 1)

\* What the parent's position says about each thread and its outcome.
ThreadOK(i) ==
    /\ i <= base => thread[i] = "joined" /\ failure[i] = "none"
    /\ i > started => /\ thread[i] = "idle"
                      /\ output[i] = <<>>
                      /\ failure[i] \in {"none", "spawn"}
    /\ i \in (base + 1)..started
          => thread[i] # "idle" /\ failure[i] # "spawn"
    /\ i \in (base + 1)..started /\ pc \in {"prepare", "replay", "done"}
          => thread[i] = "joined"
    /\ pc = "join" /\ i < next => thread[i] = "joined"
    /\ thread[i] = "running" => failure[i] = "none"
    /\ failure[i] = "spawn" =>
          /\ i = started + 1 /\ i <= ChunkEnd
          /\ pc \in {"join", "replay", "done"}
    /\ i = started + 1 /\ i <= ChunkEnd /\ pc \in {"join", "replay"}
          => failure[i] = "spawn"
Threads == \A i \in Iterations : ThreadOK(i)

\* first_error, as far as the replay has come.
FirstErrorSoFar ==
    /\ pc \notin {"replay", "done"} => error = NoError
    /\ pc = "replay" =>
          IF error = NoError
          THEN \A i \in 1..(next - 1) : failure[i] = "none"
          ELSE /\ error.at \in (base + 1)..(next - 1)
               /\ \A i \in 1..(error.at - 1) : failure[i] = "none"
               /\ error.cause \in Causes => failure[error.at] = error.cause
               /\ thread[error.at] = "idle" => error.cause = "spawn"

Inv == TypeOK /\ Counters /\ Threads /\ FirstErrorSoFar /\ FirstErrorInOrder

\* A worker's lines are in the order of its operations.
OutputsAscend ==
    \A i \in Iterations : \A k \in 1..Len(output[i]) :
        /\ output[i][k] < position[i]
        /\ \A l \in 1..(k - 1) : output[i][l] < output[i][k]

\* The printed lines are all behind the place the replay has reached.
Behind(ln) ==
    IF pc = "replay"
    THEN \/ ln.from < next
         \/ /\ ln.from = next
            /\ next <= LastOutcome
            /\ \A m \in line..Len(output[next]) : ln.op < output[next][m]
    ELSE ln.from <= base
PrintedBehind == pc # "done" => \A k \in 1..Len(printed) : Behind(printed[k])

OrderInv == Inv /\ OutputsAscend /\ PrintedBehind /\ ReplayInOrder

-----------------------------------------------------------------------------
\* The refinement mapping to the abstract fork-join statement.
IterationState(i) ==
    CASE thread[i] = "idle" -> "waiting"
      [] thread[i] = "running" -> "running"
      [] thread[i] = "panicked" -> "failed"
      [] OTHER -> IF failure[i] = "none" THEN "ok" ELSE "failed"

Phase ==
    CASE pc \in {"enter", "prepare", "spawn", "join"} -> "fork"
      [] pc = "replay" -> "deliver"
      [] OTHER -> "over"

Promise == INSTANCE ForkJoin WITH
    Width <- Workers,
    NoAnswer <- NoError,
    state <- [i \in Iterations |-> IterationState(i)],
    settled <- base,
    phase <- Phase,
    log <- printed,
    answer <- IF pc = "done" THEN error ELSE NoError

\* The interpreter's statement keeps the promise of ForkJoin.
ImplementsForkJoin == Promise!Spec
=============================================================================
