---------------------------- MODULE ParallelProofs ----------------------------
(***************************************************************************)
(* What holds of Parallel for every statement, budget, number of workers,  *)
(* output limit and set of failures.  Inv is inductive; its four parts are *)
(* shown to be kept by every step one after the other: the loop counters   *)
(* (NumbersStep), the data (DataStep), what is known of each thread        *)
(* (ThreadsStep) and the first error (ErrorStep).  With the order of the   *)
(* buffered and the printed lines it carries the refinement of ForkJoin.   *)
(*                                                                         *)
(* The second half shows that the concurrent statement computes what       *)
(* ParallelReference defines.  The parts of ReferenceInv are kept one      *)
(* after the other: the budget, what each worker has done and buffered,    *)
(* what has been printed, and where the statement ends.                    *)
(***************************************************************************)
EXTENDS ParallelReference, TLAPS, FiniteSetTheorems

\* The causes of an outcome are causes of the statement's error.
LEMMA CauseFacts ==
    /\ {"none", "limit", "buffer", "body", "panicked", "spawn"}
          \subseteq Causes
    /\ {"job limit", "fork", "print"} \cap Causes = {}
    /\ {"job limit", "fork", "print"} \subseteq ErrorCauses
    /\ Causes \subseteq ErrorCauses
  BY DEF Causes, ErrorCauses

\* Errors built and compared field by field.
LEMMA ErrorFacts ==
    /\ NoError \in Errors /\ NoError.at = 0 /\ NoError.cause = "none"
    /\ \A e \in Errors : e.at \in Nat /\ e.cause \in ErrorCauses
    /\ \A i \in Nat, c \in ErrorCauses :
          /\ Error(i, c) \in Errors
          /\ Error(i, c).at = i
          /\ Error(i, c).cause = c
          /\ i > 0 => Error(i, c) # NoError
<1>1. NoError \in Errors /\ NoError.at = 0 /\ NoError.cause = "none"
  BY CauseFacts DEF NoError, Errors
<1>2. \A e \in Errors : e.at \in Nat /\ e.cause \in ErrorCauses
  BY DEF Errors
<1>3. ASSUME NEW i \in Nat, NEW c \in ErrorCauses
      PROVE  /\ Error(i, c) \in Errors
             /\ Error(i, c).at = i
             /\ Error(i, c).cause = c
  BY DEF Error, Errors
<1> QED
  BY <1>1, <1>2, <1>3
\* The statement does not change under way.
LEMMA BodyConstant ==
    ASSUME [Next]_vars
    PROVE  /\ body' = body
           /\ N' = N
           /\ Iterations' = Iterations
           /\ Line' = Line
  <1>1. body' = body
    BY DEF Next, ParentStep, WorkerStep, Over, vars, Enter, PrepareJob,
       JobTickFails, ForkFails, SpawnWorker, SpawnFails, Join, AllJoined,
       ReplayLine, ReplayLineFails, FinishOutcome, EndBatch, Step, Spin,
       TickFails, PrintLine, PrintFails, Request, BodyFails, Panic, Return,
       Fails
  <1> QED
    BY <1>1 DEF N, Iterations, Line
\* The parent's loops never leave the array.
LEMMA LoopInRange ==
    ASSUME NumbersOK, Counters
    PROVE  /\ N \in Nat
           /\ pc \in {"prepare", "spawn"} => next \in Iterations
           /\ pc = "join" /\ next <= started => next \in Iterations
           /\ Replaying => next \in Iterations /\ base < next
           /\ Iterations \subseteq 0..N /\ Iterations \subseteq Nat
           /\ 0 \in 0..N
  BY ParallelAssumption
     DEF NumbersOK, Counters, N, Iterations, Batch, ChunkEnd, LastOutcome,
         Replaying

\* A worker leaves the loops of the parent alone, and takes one step at most.
LEMMA WorkerNumbers ==
    ASSUME NEW j, WorkerStep(j)
    PROVE  /\ UNCHANGED <<body, pc, base, started, next, line>>
           /\ steps' = steps \/ (CanTick /\ steps' = steps - 1)
<1>1. CASE Step(j)
  BY <1>1 DEF Step, Tick, parentVars
<1>2. CASE Spin(j)
  BY <1>2 DEF Spin, Tick, parentVars
<1>3. CASE TickFails(j) \/ PrintFails(j) \/ BodyFails(j)
  BY <1>3 DEF TickFails, PrintFails, BodyFails, Fails, parentVars
<1>4. CASE PrintLine(j)
  BY <1>4 DEF PrintLine, parentVars
<1>5. CASE Request(j)
  BY <1>5 DEF Request, parentVars
<1>6. CASE Panic(j) \/ Return(j)
  BY <1>6 DEF Panic, Return, parentVars
<1> QED
  BY <1>1, <1>2, <1>3, <1>4, <1>5, <1>6 DEF WorkerStep

\* Steps keep the loops of the parent within the current batch.
LEMMA NumbersStep ==
    ASSUME NumbersOK, Counters, [Next]_vars
    PROVE  (NumbersOK /\ Counters)'
  <2>a. N \in Nat
    BY DEF NumbersOK, N
  <2>b. Workers \in Nat \ {0} /\ Steps \in Nat
    BY ParallelAssumption
  <2> USE <2>a, <2>b DEF NumbersOK, Counters, Batch, ChunkEnd, LastOutcome
  <2>1. CASE Enter
    BY <2>1 DEF Enter, N, parentVars, workerVars
  <2>2. CASE PrepareJob
    BY <2>2, SMTT(30) DEF PrepareJob, Tick, CanTick, N, parentVars, workerVars
  <2>3. CASE JobTickFails
    BY <2>3 DEF JobTickFails, CanTick, N, parentVars, workerVars
  <2>4. CASE ForkFails
    BY <2>4 DEF ForkFails, Tick, CanTick, N, parentVars, workerVars
  <2>5. CASE SpawnWorker
    <3>1. CASE next = ChunkEnd
      BY <2>5, <3>1 DEF SpawnWorker, N, workerVars
    <3>2. CASE next # ChunkEnd
      BY <2>5, <3>2 DEF SpawnWorker, N, workerVars
    <3> QED
      BY <3>1, <3>2
  <2>6. CASE SpawnFails
    BY <2>6 DEF SpawnFails, N, parentVars, workerVars
  <2>7. CASE Join
    BY <2>7 DEF Join, N, parentVars, workerVars
  <2>8. CASE AllJoined
    BY <2>8 DEF AllJoined, N, parentVars, workerVars
  <2>9. CASE ReplayLine
    BY <2>9 DEF ReplayLine, Replaying, MoreLines, N, parentVars, workerVars
  <2>10. CASE ReplayLineFails
    BY <2>10
       DEF ReplayLineFails, Replaying, MoreLines, N, parentVars, workerVars
  <2>11. CASE FinishOutcome
    BY <2>11 DEF FinishOutcome, Replaying, MoreLines, N, parentVars, workerVars
  <2>12. CASE EndBatch
    <3>1. CASE error # NoError \/ ChunkEnd = N
      BY <2>12, <3>1 DEF EndBatch, N, workerVars
    <3>2. CASE ~(error # NoError \/ ChunkEnd = N)
      BY <2>12, <3>2, SMTT(30) DEF EndBatch, N, workerVars
    <3> QED
      BY <3>1, <3>2
  <2>13. ASSUME NEW j \in Iterations, WorkerStep(j)
         PROVE  (NumbersOK /\ Counters)'
    <3>1. UNCHANGED <<body, pc, base, started, next, line>>
      BY <2>13, WorkerNumbers
    <3>2. steps' = steps \/ (CanTick /\ steps' = steps - 1)
      BY <2>13, WorkerNumbers
    <3>3. steps' \in 0 .. Steps
      BY <3>2 DEF CanTick
    <3> QED
      BY <3>1, <3>3 DEF N
  <2>14. CASE UNCHANGED vars
    BY <2>14 DEF vars, N, parentVars, workerVars
  <2> QED
    BY <2>1, <2>2, <2>3, <2>4, <2>5, <2>6, <2>7, <2>8, <2>9, <2>10, <2>11,
       <2>12, <2>13, <2>14
       DEF Next, ParentStep, Over

\* Taking a step of the budget keeps the history of the steps typed.
LEMMA TickOK ==
    ASSUME NumbersOK, Counters, DataOK, [Next]_vars, NEW i \in 0..N, Tick(i)
    PROVE  ticks' \in [0..N' -> Nat]
  <1>1. ticks \in [0..N -> Nat]
    BY DEF DataOK
  <1>2. N' = N
    BY BodyConstant
  <1> QED
    BY <1>1, <1>2 DEF Tick

\* Steps keep the types of the data.
LEMMA DataStep ==
    ASSUME NumbersOK, Counters, DataOK, [Next]_vars
    PROVE  DataOK'
  <2>a. /\ thread \in [Iterations ->
                        {"idle", "running", "returned", "panicked", "joined"}]
        /\ position \in [Iterations -> Nat \ {0}]
        /\ output \in [Iterations -> Seq(Nat)]
    BY DEF DataOK
  <2>b. /\ bytes \in [Iterations -> Nat]
        /\ failure \in [Iterations -> Causes]
        /\ effects \in Seq(Iterations)
    BY DEF DataOK
  <2>c. error \in Errors /\ printed \in Seq(Line) /\ ticks \in [0..N -> Nat]
    BY DEF DataOK
  <2>d. N' = N /\ Iterations' = Iterations /\ Line' = Line
    BY BodyConstant
  <2> USE <2>d
  <2>1. CASE Enter
    BY <2>1 DEF DataOK, Enter, parentVars, workerVars
  <2>2. CASE PrepareJob
    <3>1. ticks' \in [0..N -> Nat]
      BY <2>2, TickOK, LoopInRange DEF PrepareJob
    <3> QED
      BY <2>2, <3>1 DEF DataOK, PrepareJob, workerVars
  <2>3. CASE JobTickFails
    <3>1. error' \in Errors
      BY <2>3, ErrorFacts, CauseFacts, LoopInRange DEF JobTickFails
    <3> QED
      BY <2>3, <3>1 DEF DataOK, JobTickFails, workerVars
  <2>4. CASE ForkFails
    <3>1. error' \in Errors
      BY <2>4, ErrorFacts, CauseFacts, LoopInRange DEF ForkFails
    <3>2. ticks' \in [0..N -> Nat]
      BY <2>4, TickOK, LoopInRange DEF ForkFails
    <3> QED
      BY <2>4, <3>1, <3>2 DEF DataOK, ForkFails, workerVars
  <2>5. CASE SpawnWorker
    BY <2>5 DEF DataOK, SpawnWorker, parentVars, workerVars
  <2>6. CASE SpawnFails
    <3>1. failure' \in [Iterations -> Causes]
      BY <2>6, <2>b, CauseFacts DEF SpawnFails
    <3> QED
      BY <2>6, <3>1 DEF DataOK, SpawnFails, workerVars
  <2>7. CASE Join
    <3>1. thread' \in [Iterations ->
                        {"idle", "running", "returned", "panicked", "joined"}]
      BY <2>7, <2>a, <2>b, CauseFacts DEF Join
    <3>0. <<>> \in Seq(Nat) /\ next \in Iterations
      BY <2>7, LoopInRange DEF Join
    <3>2. output' \in [Iterations -> Seq(Nat)]
      BY <2>7, <2>a, <3>0 DEF Join
    <3>3. failure' \in [Iterations -> Causes]
      BY <2>7, <2>a, <2>b, CauseFacts DEF Join
    <3> QED
      BY <2>7, <3>1, <3>2, <3>3 DEF DataOK, Join
  <2>8. CASE AllJoined
    BY <2>8 DEF DataOK, AllJoined, parentVars, workerVars
  <2>9. CASE ReplayLine
    <3>1. next \in Iterations /\ output[next] \in Seq(Nat)
      BY <2>9, <2>a, LoopInRange DEF ReplayLine
    <3>2. line \in 1..Len(output[next])
      BY <2>9, <3>1 DEF ReplayLine, MoreLines, NumbersOK
    <3>3. output[next][line] \in Nat
      BY <3>1, <3>2
    <3>4. printed' \in Seq(Line)
      BY <2>9, <2>c, <3>1, <3>3 DEF ReplayLine, Line
    <3> QED
      BY <2>9, <3>4 DEF DataOK, ReplayLine, workerVars
  <2>10. CASE ReplayLineFails
    <3>1. error' \in Errors
      BY <2>10, <2>c, ErrorFacts, CauseFacts, LoopInRange DEF ReplayLineFails
    <3> QED
      BY <2>10, <3>1 DEF DataOK, ReplayLineFails, workerVars
  <2>11. CASE FinishOutcome
    <3>1. error' \in Errors
      BY <2>11, <2>b, <2>c, ErrorFacts, CauseFacts, LoopInRange
         DEF FinishOutcome
    <3> QED
      BY <2>11, <3>1 DEF DataOK, FinishOutcome, workerVars
  <2>12. CASE EndBatch
    BY <2>12 DEF DataOK, EndBatch, parentVars, workerVars
  <2>13. ASSUME NEW j \in Iterations, WorkerStep(j)
         PROVE  DataOK'
    <3>1. CASE Step(j)
      <4>1. position' \in [Iterations -> Nat \ {0}]
        BY <3>1, <2>a DEF Step, Advance
      <4>2. ticks' \in [0..N -> Nat]
        BY <3>1, TickOK, LoopInRange DEF Step
      <4> QED
        BY <3>1, <4>1, <4>2 DEF DataOK, Step, parentVars
    <3>2. CASE Spin(j)
      <4>1. ticks' \in [0..N -> Nat]
        BY <3>2, TickOK, LoopInRange DEF Spin
      <4> QED
        BY <3>2, <4>1 DEF DataOK, Spin, parentVars, workerVars
    <3>3. CASE TickFails(j)
      <4>1. failure' \in [Iterations -> Causes]
        BY <3>3, <2>b, CauseFacts DEF TickFails, Fails
      <4> QED
        BY <3>3, <4>1 DEF DataOK, TickFails, Fails, parentVars, workerVars
    <3>4. CASE PrintLine(j)
      <4>1. position' \in [Iterations -> Nat \ {0}]
        BY <3>4, <2>a DEF PrintLine, Advance
      <4>2. output' \in [Iterations -> Seq(Nat)]
        BY <3>4, <2>a DEF PrintLine
      <4>3. body[j][position[j]].len \in Nat
        <5>1. body[j] \in Seq(Op)
          BY DEF NumbersOK, Iterations, N
        <5>2. position[j] \in 1..Len(body[j])
          BY <3>4, <2>a, <5>1 DEF PrintLine, AtOp
        <5>3. body[j][position[j]] \in Op
          BY <5>1, <5>2
        <5> QED
          BY <5>3 DEF Op
      <4>4. bytes' \in [Iterations -> Nat]
        BY <3>4, <2>b, <4>3, SMTT(30) DEF PrintLine
      <4> QED
        BY <3>4, <4>1, <4>2, <4>4 DEF DataOK, PrintLine, parentVars
    <3>5. CASE PrintFails(j)
      <4>1. failure' \in [Iterations -> Causes]
        BY <3>5, <2>b, CauseFacts DEF PrintFails, Fails
      <4> QED
        BY <3>5, <4>1 DEF DataOK, PrintFails, Fails, parentVars, workerVars
    <3>6. CASE Request(j)
      <4>1. position' \in [Iterations -> Nat \ {0}]
        BY <3>6, <2>a DEF Request, Advance
      <4>2. effects' \in Seq(Iterations)
        BY <3>6, <2>b DEF Request
      <4> QED
        BY <3>6, <4>1, <4>2 DEF DataOK, Request, parentVars
    <3>7. CASE BodyFails(j)
      <4>1. failure' \in [Iterations -> Causes]
        BY <3>7, <2>b, CauseFacts DEF BodyFails, Fails
      <4> QED
        BY <3>7, <4>1 DEF DataOK, BodyFails, Fails, parentVars, workerVars
    <3>8. CASE Panic(j)
      BY <3>8 DEF DataOK, Panic, AtOp, parentVars, workerVars
    <3>9. CASE Return(j)
      BY <3>9 DEF DataOK, Return, AtOp, parentVars, workerVars
    <3> QED
      BY <2>13, <3>1, <3>2, <3>3, <3>4, <3>5, <3>6, <3>7, <3>8, <3>9
         DEF WorkerStep
  <2>14. CASE UNCHANGED vars
    BY <2>14 DEF DataOK, vars, parentVars, workerVars
  <2> QED
    BY <2>1, <2>2, <2>3, <2>4, <2>5, <2>6, <2>7, <2>8, <2>9, <2>10, <2>11,
       <2>12, <2>13, <2>14
       DEF Next, ParentStep, Over

\* Every thread has been joined, or not started, outside the spawn and join
\* loops.
LEMMA BarrierLemma ==
    ASSUME NumbersOK, Counters, Threads
    PROVE  BarrierHolds
  <1> SUFFICES ASSUME pc \notin {"spawn", "join"}, NEW i \in Iterations
               PROVE  thread[i] \in {"idle", "joined"}
    BY DEF BarrierHolds
  <1>1. i \in Nat /\ base \in Nat /\ started \in Nat
    BY LoopInRange DEF NumbersOK
  <1>2. pc \in {"enter", "prepare"} => started = base
    BY DEF Counters
  <1>3. ThreadOK(i)
    BY DEF Threads
  <1> QED
    BY <1>1, <1>2, <1>3 DEF ThreadOK, NumbersOK

\* A replay that ends without an error had a complete and successful batch.
LEMMA BatchSucceeded ==
    ASSUME NumbersOK, Counters, Threads, FirstErrorSoFar,
           pc = "replay", next > LastOutcome, error = NoError
    PROVE  /\ started = ChunkEnd
           /\ \A i \in Iterations :
                 i <= ChunkEnd => thread[i] = "joined" /\ failure[i] = "none"
<1>1. /\ N \in Nat /\ base \in Nat /\ started \in Nat /\ next \in Nat
      /\ Workers \in Nat
  BY LoopInRange, ParallelAssumption DEF NumbersOK
<1>2. \A k \in 1..(next - 1) : failure[k] = "none"
  BY DEF FirstErrorSoFar
<1>3. next = LastOutcome + 1 /\ base <= started /\ started <= ChunkEnd
  BY <1>1 DEF Counters, LastOutcome, Batch, ChunkEnd
<1>4. started = ChunkEnd
  <2>1. SUFFICES ASSUME started < ChunkEnd
                 PROVE  FALSE
    BY <1>1, <1>3 DEF ChunkEnd
  <2>2. started + 1 \in Iterations /\ next = started + 2
    BY <1>1, <1>3, <2>1 DEF LastOutcome, Iterations, ChunkEnd
  <2>3. failure[started + 1] = "spawn"
    BY <1>1, <2>1, <2>2 DEF Threads, ThreadOK, ChunkEnd
  <2> QED
    BY <1>1, <1>2, <2>2, <2>3
<1>5. ASSUME NEW i \in Iterations, i <= ChunkEnd
      PROVE  thread[i] = "joined" /\ failure[i] = "none"
  <2>1. ThreadOK(i) /\ i \in Nat /\ i >= 1
    BY DEF Threads, Iterations
  <2>2. next = ChunkEnd + 1
    BY <1>1, <1>3, <1>4 DEF LastOutcome
  <2> QED
    BY <1>1, <1>2, <1>4, <1>5, <2>1, <2>2 DEF ThreadOK
<1> QED
  BY <1>4, <1>5

\* Steps keep what the parent's position says of each thread.
LEMMA ThreadsStep ==
    ASSUME NumbersOK, Counters, DataOK, Threads, FirstErrorSoFar, [Next]_vars
    PROVE  Threads'
  <2> SUFFICES ASSUME NEW i \in Iterations
               PROVE  ThreadOK(i)'
    BY BodyConstant DEF Threads
  <2>a. ThreadOK(i)
    BY DEF Threads
  <2>b. i \in Nat /\ i \in 1..N
    BY LoopInRange DEF Iterations
  <2>c. /\ thread \in [Iterations ->
                        {"idle", "running", "returned", "panicked", "joined"}]
        /\ output \in [Iterations -> Seq(Nat)]
        /\ failure \in [Iterations -> Causes]
    BY DEF DataOK
  <2>d. N \in Nat /\ base \in Nat /\ started \in Nat /\ next \in Nat
    BY LoopInRange DEF NumbersOK
  <2>e. N' = N
    BY BodyConstant
  <2>f. Workers \in Nat
    BY ParallelAssumption
  <2> USE <2>a, <2>b, <2>c, <2>d, <2>e, <2>f, LoopInRange
      DEF ThreadOK, ChunkEnd
  <2>1. CASE Enter
    <3>1. started = base
      BY <2>1 DEF Enter, Counters
    <3> QED
      BY <2>1, <3>1 DEF Enter, parentVars, workerVars
  <2>2. CASE PrepareJob
    BY <2>2 DEF PrepareJob, Tick, CanTick, parentVars, workerVars
  <2>3. CASE JobTickFails
    BY <2>3 DEF JobTickFails, CanTick, parentVars, workerVars
  <2>4. CASE ForkFails
    BY <2>4 DEF ForkFails, Tick, CanTick, parentVars, workerVars
  <2>5. CASE SpawnWorker
    <3>1. started = next - 1 /\ next <= ChunkEnd /\ base < next
      BY <2>5 DEF SpawnWorker, Counters, Batch
    <3> QED
      BY <2>5, <3>1 DEF SpawnWorker, workerVars
  <2>6. CASE SpawnFails
    <3>1. started = next - 1 /\ next <= ChunkEnd /\ base < next
      BY <2>6 DEF SpawnFails, Counters, Batch
    <3> QED
      BY <2>6, <3>1 DEF SpawnFails, workerVars
  <2>7. CASE Join
    BY <2>7 DEF Join, parentVars, workerVars
  <2>8. CASE AllJoined
    BY <2>8 DEF AllJoined, parentVars, workerVars
  <2>9. CASE ReplayLine
    BY <2>9 DEF ReplayLine, Replaying, MoreLines, parentVars, workerVars
  <2>10. CASE ReplayLineFails
    BY <2>10 DEF ReplayLineFails, Replaying, MoreLines, parentVars, workerVars
  <2>11. CASE FinishOutcome
    BY <2>11 DEF FinishOutcome, Replaying, MoreLines, parentVars, workerVars
  <2>12. CASE EndBatch
    <3>1. CASE error # NoError \/ ChunkEnd = N
      BY <2>12, <3>1 DEF EndBatch, workerVars
    <3>2. CASE error = NoError /\ ChunkEnd # N
      <4>1. started = ChunkEnd
        BY <2>12, <3>2, BatchSucceeded DEF EndBatch
      <4>2. i <= ChunkEnd => thread[i] = "joined" /\ failure[i] = "none"
        BY <2>12, <3>2, BatchSucceeded DEF EndBatch
      <4> QED
        BY <2>12, <3>2, <4>1, <4>2 DEF EndBatch, workerVars
    <3> QED
      BY <3>1, <3>2
  <2>13. ASSUME NEW j \in Iterations, WorkerStep(j)
         PROVE  ThreadOK(i)'
    <3>1. CASE Step(j)
      BY <3>1 DEF Step, Tick, CanTick, Advance, AtOp, parentVars, workerVars
    <3>2. CASE Spin(j)
      BY <3>2 DEF Spin, Tick, CanTick, AtOp, parentVars, workerVars
    <3>3. CASE TickFails(j)
      BY <3>3 DEF TickFails, Fails, AtOp, parentVars, workerVars
    <3>4. CASE PrintLine(j)
      BY <3>4 DEF PrintLine, Advance, AtOp, parentVars, workerVars
    <3>5. CASE PrintFails(j)
      BY <3>5 DEF PrintFails, Fails, AtOp, parentVars, workerVars
    <3>6. CASE Request(j)
      BY <3>6 DEF Request, Advance, AtOp, parentVars, workerVars
    <3>7. CASE BodyFails(j)
      BY <3>7 DEF BodyFails, Fails, AtOp, parentVars, workerVars
    <3>8. CASE Panic(j)
      BY <3>8 DEF Panic, AtOp, parentVars, workerVars
    <3>9. CASE Return(j)
      BY <3>9 DEF Return, AtOp, parentVars, workerVars
    <3> QED
      BY <2>13, <3>1, <3>2, <3>3, <3>4, <3>5, <3>6, <3>7, <3>8, <3>9
         DEF WorkerStep
  <2>14. CASE UNCHANGED vars
    BY <2>14 DEF vars, parentVars, workerVars
  <2> QED
    BY <2>1, <2>2, <2>3, <2>4, <2>5, <2>6, <2>7, <2>8, <2>9, <2>10, <2>11,
       <2>12, <2>13, <2>14
       DEF Next, ParentStep, Over

\* Steps keep the error the first one in input order.
LEMMA ErrorStep ==
    ASSUME NumbersOK, Counters, DataOK, Threads, FirstErrorSoFar,
           FirstErrorInOrder, [Next]_vars
    PROVE  FirstErrorSoFar' /\ FirstErrorInOrder'
  <2>c. failure \in [Iterations -> Causes] /\ error \in Errors
    BY DEF DataOK
  <2>d. N \in Nat /\ base \in Nat /\ started \in Nat /\ next \in Nat
    BY LoopInRange DEF NumbersOK
  <2>e. N' = N /\ Iterations' = Iterations
    BY BodyConstant
  <2>j. \A k \in Iterations : k \in Nat /\ k > 0
    BY DEF Iterations
  <2>i. base <= N
    BY DEF NumbersOK
  <2>f. ASSUME NEW i \in Iterations, i <= base
        PROVE  thread[i] = "joined" /\ failure[i] = "none"
    BY <2>f DEF Threads, ThreadOK
  <2>g. ASSUME pc = "prepare", NEW i \in Iterations
        PROVE  failure[i] = "none"
    <3>1. started = base /\ ThreadOK(i) /\ i \in Nat
      BY <2>g, LoopInRange DEF Counters, Threads
    <3> QED
      BY <2>d, <2>g, <3>1 DEF ThreadOK
  <2>h. ASSUME Replaying, thread[next] = "idle"
        PROVE  output[next] = <<>> /\ failure[next] \in {"none", "spawn"}
    <3>1. next \in Iterations /\ base < next /\ ThreadOK(next)
      BY <2>d, <2>h, LoopInRange DEF Replaying, Counters, Threads
    <3> QED
      BY <2>d, <2>h, <3>1 DEF ThreadOK
  <2>1. CASE Enter
    BY <2>1, <2>c, <2>d, <2>e
       DEF FirstErrorSoFar, FirstErrorInOrder, Enter, parentVars, Iterations
  <2>2. CASE PrepareJob
    BY <2>2, <2>c, <2>d, <2>e
       DEF FirstErrorSoFar, FirstErrorInOrder, PrepareJob, Tick, CanTick,
           parentVars, workerVars
  <2>3. CASE JobTickFails
    <3>1. /\ error' = Error(next, "job limit") /\ pc' = "done"
          /\ thread' = thread /\ failure' = failure /\ next \in Iterations
      BY <2>3, LoopInRange DEF JobTickFails, workerVars
    <3>a. "job limit" \in ErrorCauses /\ "job limit" \notin Causes
      BY CauseFacts
    <3>c. next \in Iterations
      BY <3>1
    <3>b. next \in Nat /\ next > 0 /\ \A i \in 1..(next - 1) : i \in Iterations
      BY <2>d, <3>c DEF Iterations
    <3>2. error'.at = next /\ error'.cause = "job limit" /\ error' # NoError
      BY <3>1, <3>a, <3>b, ErrorFacts
    <3>3. \A i \in 1..(next - 1) : failure[i] = "none"
      BY <2>3, <2>g, <3>b DEF JobTickFails
    <3> QED
      BY <3>1, <3>2, <3>3, <3>a, <2>c, <2>d, <2>e
         DEF FirstErrorSoFar, FirstErrorInOrder
  <2>4. CASE ForkFails
    <3>1. /\ error' = Error(next, "fork") /\ pc' = "done"
          /\ thread' = thread /\ failure' = failure /\ next \in Iterations
      BY <2>4, LoopInRange DEF ForkFails, workerVars
    <3>a. "fork" \in ErrorCauses /\ "fork" \notin Causes
      BY CauseFacts
    <3>c. next \in Iterations
      BY <3>1
    <3>b. next \in Nat /\ next > 0 /\ \A i \in 1..(next - 1) : i \in Iterations
      BY <2>d, <3>c DEF Iterations
    <3>2. error'.at = next /\ error'.cause = "fork" /\ error' # NoError
      BY <3>1, <3>a, <3>b, ErrorFacts
    <3>3. \A i \in 1..(next - 1) : failure[i] = "none"
      BY <2>4, <2>g, <3>b DEF ForkFails
    <3> QED
      BY <3>1, <3>2, <3>3, <3>a, <2>c, <2>d, <2>e
         DEF FirstErrorSoFar, FirstErrorInOrder
  <2>5. CASE SpawnWorker
    BY <2>5, <2>c, <2>d, <2>e
       DEF FirstErrorSoFar, FirstErrorInOrder, SpawnWorker, parentVars,
           workerVars
  <2>6. CASE SpawnFails
    BY <2>6, <2>c, <2>d, <2>e
       DEF FirstErrorSoFar, FirstErrorInOrder, SpawnFails, parentVars,
           workerVars
  <2>7. CASE Join
    BY <2>7, <2>c, <2>d, <2>e
       DEF FirstErrorSoFar, FirstErrorInOrder, Join, parentVars, workerVars
  <2>8. CASE AllJoined
    <3>1. \A i \in 1..base : failure[i] = "none"
      BY <2>d, <2>f, <2>i DEF Iterations
    <3> QED
      BY <2>8, <3>1, <2>c, <2>d, <2>e
         DEF FirstErrorSoFar, FirstErrorInOrder, AllJoined, workerVars
  <2>9. CASE ReplayLine
    BY <2>9, <2>c, <2>d, <2>e
       DEF FirstErrorSoFar, FirstErrorInOrder, ReplayLine, Replaying,
           MoreLines, parentVars, workerVars
  <2>10. CASE ReplayLineFails
    <3>1. CASE error # NoError
      BY <2>10, <3>1, <2>c, <2>d, <2>e
         DEF FirstErrorSoFar, FirstErrorInOrder, ReplayLineFails, Replaying,
             workerVars
    <3>2. CASE error = NoError
      <4>1. /\ error' = Error(next, "print") /\ next' = next + 1
            /\ next \in Iterations /\ base < next
            /\ pc = "replay" /\ pc' = pc /\ base' = base
            /\ thread' = thread /\ failure' = failure
        BY <2>10, <3>2, LoopInRange DEF ReplayLineFails, Replaying, workerVars
      <4>a. "print" \in ErrorCauses /\ "print" \notin Causes
        BY CauseFacts
      <4>b. next \in Nat /\ next > 0
        BY <2>d, <4>1 DEF Iterations
      <4>2. error'.at = next /\ error'.cause = "print" /\ error' # NoError
        BY <4>1, <4>a, <4>b, ErrorFacts
      <4>3. thread[next] # "idle"
        <5>1. SUFFICES ASSUME thread[next] = "idle"
                       PROVE  FALSE
          OBVIOUS
        <5>2. output[next] = <<>>
          BY <2>10, <2>h, <5>1 DEF ReplayLineFails
        <5>3. line >= 1 /\ line <= Len(<<>>) /\ line \in Nat
          BY <2>10, <5>2 DEF ReplayLineFails, MoreLines, NumbersOK
        <5> QED
          BY <5>3
      <4> QED
        BY <3>2, <4>1, <4>2, <4>3, <4>a, <2>c, <2>d, <2>e
           DEF FirstErrorSoFar, FirstErrorInOrder
    <3> QED
      BY <3>1, <3>2, <2>c, <2>d, <2>e
         DEF FirstErrorSoFar, FirstErrorInOrder
  <2>11. CASE FinishOutcome
    <3>1. /\ next' = next + 1 /\ next \in Iterations /\ base < next
          /\ pc = "replay" /\ pc' = pc /\ base' = base
          /\ thread' = thread /\ failure' = failure
      BY <2>11, LoopInRange DEF FinishOutcome, Replaying, workerVars
    <3>2. CASE error' = error
      <4>1. error = NoError => failure[next] = "none"
        <5>0. next \in Iterations
          BY <3>1
        <5>1. failure[next] \in ErrorCauses /\ next \in Nat /\ next > 0
          BY <2>c, <2>d, <2>j, <5>0, CauseFacts
        <5>2. Error(next, failure[next]) # NoError
          BY <5>1, ErrorFacts
        <5> QED
          BY <2>11, <3>2, <5>2 DEF FinishOutcome
      <4> QED
        BY <3>1, <3>2, <4>1, <2>c, <2>d, <2>e
           DEF FirstErrorSoFar, FirstErrorInOrder
    <3>3. CASE error = NoError /\ failure[next] # "none"
               /\ error' = Error(next, failure[next])
      <4>1. /\ error'.at = next /\ error'.cause = failure[next]
            /\ error' # NoError
        <5>0. next \in Iterations
          BY <3>1
        <5>1. failure[next] \in ErrorCauses /\ next \in Nat /\ next > 0
          BY <2>c, <2>d, <2>j, <5>0, CauseFacts
        <5> QED
          BY <3>3, <5>1, ErrorFacts
      <4>2. thread[next] = "idle" => failure[next] = "spawn"
        BY <2>11, <2>h, <3>3 DEF FinishOutcome
      <4> QED
        BY <3>1, <3>3, <4>1, <4>2, <2>c, <2>d, <2>e
           DEF FirstErrorSoFar, FirstErrorInOrder
    <3> QED
      BY <2>11, <3>2, <3>3, <2>c, <2>d, <2>e
         DEF FirstErrorSoFar, FirstErrorInOrder, FinishOutcome
  <2>12. CASE EndBatch
    <3>1. CASE error # NoError
      BY <2>12, <3>1, <2>c, <2>d, <2>e
         DEF FirstErrorSoFar, FirstErrorInOrder, EndBatch, workerVars
    <3>2. CASE error = NoError /\ ChunkEnd # N
      BY <2>12, <3>2, <2>c, <2>d, <2>e
         DEF FirstErrorSoFar, FirstErrorInOrder, EndBatch
    <3>3. CASE error = NoError /\ ChunkEnd = N
      <4>1. \A i \in Iterations : thread[i] = "joined" /\ failure[i] = "none"
        BY <2>12, <3>3, BatchSucceeded DEF EndBatch, Iterations
      <4> QED
        BY <2>12, <3>3, <4>1, <2>c, <2>d, <2>e
           DEF FirstErrorSoFar, FirstErrorInOrder, EndBatch, workerVars
    <3> QED
      BY <3>1, <3>2, <3>3, <2>c, <2>d, <2>e
         DEF FirstErrorSoFar, FirstErrorInOrder
  <2>13. ASSUME NEW j \in Iterations, WorkerStep(j)
         PROVE  (FirstErrorSoFar /\ FirstErrorInOrder)'
    <3>1. thread[j] = "running" /\ pc' = pc /\ error' = error
      BY <2>13 DEF WorkerStep, AtOp, Fails, Step, Spin, TickFails, PrintLine,
                   PrintFails, Request, BodyFails, Panic, Return, parentVars
    <3>2. pc \in {"spawn", "join"}
      BY <3>1, BarrierLemma DEF BarrierHolds
    <3> QED
      BY <3>1, <3>2, <2>c, <2>d, <2>e
         DEF FirstErrorSoFar, FirstErrorInOrder
  <2>14. CASE UNCHANGED vars
    BY <2>14, <2>c, <2>d, <2>e
       DEF FirstErrorSoFar, FirstErrorInOrder, vars, parentVars, workerVars
  <2> QED
    BY <2>1, <2>2, <2>3, <2>4, <2>5, <2>6, <2>7, <2>8, <2>9, <2>10, <2>11,
       <2>12, <2>13, <2>14
       DEF Next, ParentStep, Over

\* Inv is an invariant.
THEOREM Invariance == Spec => []Inv
<1>1. Init => Inv
  <2>1. ASSUME Init
        PROVE  NumbersOK /\ Counters
    BY <2>1, ParallelAssumption
       DEF Init, NumbersOK, Counters, N, ChunkEnd
  <2>2. ASSUME Init
        PROVE  DataOK
    <3>1. error \in Errors
      BY <2>2, ErrorFacts DEF Init
    <3>2. failure \in [Iterations -> Causes]
      BY <2>2, CauseFacts DEF Init
    <3>3. printed \in Seq(Line) /\ effects \in Seq(Iterations)
      BY <2>2 DEF Init
    <3>4. output \in [Iterations -> Seq(Nat)]
      BY <2>2 DEF Init
    <3> QED
      BY <2>2, <3>1, <3>2, <3>3, <3>4 DEF Init, DataOK
  <2>3. ASSUME Init
        PROVE  Threads
    BY <2>3 DEF Init, Threads, ThreadOK, Iterations
  <2>4. ASSUME Init
        PROVE  FirstErrorSoFar /\ FirstErrorInOrder
    BY <2>4 DEF Init, FirstErrorSoFar, FirstErrorInOrder
  <2> QED
    BY <2>1, <2>2, <2>3, <2>4 DEF Inv, TypeOK
<1>2. Inv /\ [Next]_vars => Inv'
  BY NumbersStep, DataStep, ThreadsStep, ErrorStep DEF Inv, TypeOK
<1> QED
  BY <1>1, <1>2, PTL DEF Spec

\* Every state of a statement has the types of TypeOK.
THEOREM TypeCorrect == Spec => []TypeOK
<1>1. Inv => TypeOK
  BY DEF Inv
<1> QED
  BY <1>1, Invariance, PTL

\* No thread of a batch is left when the parent prepares the next batch,
\* prints, or has left the statement.
THEOREM BarrierTheorem == Spec => []BarrierHolds
<1>1. Inv => BarrierHolds
  BY BarrierLemma DEF Inv, TypeOK
<1> QED
  BY <1>1, Invariance, PTL

\* Workers touch the outside world only between their spawn and the barrier.
THEOREM EffectsTheorem == Spec => EffectsInsideBarrier
<1>1. Inv /\ [Next]_vars =>
        [effects' # effects => pc \in {"spawn", "join"}]_vars
  <2> SUFFICES ASSUME Inv, Next, effects' # effects
               PROVE  pc \in {"spawn", "join"}
    OBVIOUS
  <2>1. PICK i \in Iterations : Request(i)
    BY DEF Next, ParentStep, WorkerStep, Over, vars, workerVars, Enter,
           PrepareJob, JobTickFails, ForkFails, SpawnWorker, SpawnFails, Join,
           AllJoined, ReplayLine, ReplayLineFails, FinishOutcome, EndBatch,
           Step, Spin, TickFails, PrintLine, PrintFails, BodyFails, Panic,
           Return, Fails
  <2> QED
    BY <2>1, BarrierLemma DEF Inv, TypeOK, BarrierHolds, Request, AtOp
<1> QED
  BY <1>1, Invariance, PTL DEF Spec, EffectsInsideBarrier

\* Whatever the order in which workers fail, the statement ends with the first
\* error in input order, and without one every iteration succeeded.
THEOREM FirstErrorTheorem == Spec => []FirstErrorInOrder
<1>1. Inv => FirstErrorInOrder
  BY DEF Inv
<1> QED
  BY <1>1, Invariance, PTL

\* At most `parallel_workers' threads run at once.
THEOREM ConcurrencyTheorem == Spec => []ConcurrencyBounded
<1>1. Inv => ConcurrencyBounded
  <2> SUFFICES ASSUME Inv
               PROVE  Cardinality({i \in Iterations : thread[i] = "running"})
                        <= Workers
    BY DEF ConcurrencyBounded
  <2> DEFINE running == {i \in Iterations : thread[i] = "running"}
             window == (base + 1)..(base + Workers)
  <2>1. base \in Int /\ started \in Int /\ Workers \in Nat
        /\ started <= base + Workers
    BY ParallelAssumption DEF Inv, TypeOK, NumbersOK, Counters, ChunkEnd, N
  <2>2. running \subseteq window
    BY <2>1 DEF Inv, Threads, ThreadOK, Iterations
  <2>3. IsFiniteSet(window) /\ Cardinality(window) = Workers
    BY <2>1, FS_Interval
  <2>4. Cardinality(running) <= Cardinality(window)
    BY <2>2, <2>3, FS_Subset
  <2> QED
    BY <2>3, <2>4
<1> QED
  BY <1>1, Invariance, PTL

-----------------------------------------------------------------------------
(* The output of a statement is in order, and the statement as a whole     *)
(* implements ForkJoin.                                                    *)

\* The numbers of the lines a worker buffers only grow.
LEMMA OutputsStep ==
    ASSUME TypeOK, Counters, Threads, OutputsAscend, [Next]_vars
    PROVE  OutputsAscend'
<1> SUFFICES ASSUME NEW i \in Iterations
             PROVE  \A k \in 1..Len(output'[i]) :
                        /\ output'[i][k] < position'[i]
                        /\ \A l \in 1..(k - 1) : output'[i][l] < output'[i][k]
  BY BodyConstant DEF OutputsAscend
<1>1. /\ output \in [Iterations -> Seq(Nat)]
      /\ position \in [Iterations -> Nat \ {0}]
  BY DEF TypeOK, DataOK
<1>2. \A k \in 1..Len(output[i]) :
        /\ output[i][k] < position[i]
        /\ \A l \in 1..(k - 1) : output[i][l] < output[i][k]
  BY DEF OutputsAscend
<1>3. output[i] \in Seq(Nat) /\ position[i] \in Nat
  BY <1>1
<1>4. CASE /\ output'[i] = output[i]
           /\ position'[i] \in {position[i], position[i] + 1}
  BY <1>2, <1>3, <1>4
<1>5. CASE output'[i] = <<>>
  BY <1>5
<1>6. CASE /\ output'[i] = Append(output[i], position[i])
           /\ position'[i] = position[i] + 1
  BY <1>2, <1>3, <1>6
<1> DEFINE Kept == output'[i] = output[i]
                    /\ position'[i] \in {position[i], position[i] + 1}
           Cleared == output'[i] = <<>>
           Added == output'[i] = Append(output[i], position[i])
                    /\ position'[i] = position[i] + 1
<1>7. Kept \/ Cleared \/ Added
  <2>1. CASE ParentStep /\ ~Join
    BY <2>1 DEF ParentStep, workerVars, Enter, PrepareJob, JobTickFails,
                ForkFails, SpawnWorker, SpawnFails, AllJoined, ReplayLine,
                ReplayLineFails, FinishOutcome, EndBatch
  <2>2. CASE Join
    BY <2>2, <1>1 DEF Join
  <2>3. ASSUME NEW j \in Iterations, WorkerStep(j)
        PROVE  Kept \/ Cleared \/ Added
    <3>1. CASE PrintLine(j)
      <4>1. CASE i = j
        BY <3>1, <4>1, <1>1 DEF PrintLine, Advance
      <4>2. CASE i # j
        BY <3>1, <4>2, <1>1 DEF PrintLine, Advance
      <4> QED
        BY <4>1, <4>2
    <3>2. CASE Step(j) \/ Request(j)
      <4>1. output' = output /\ position' = [position EXCEPT ![j] = @ + 1]
        BY <3>2 DEF Step, Request, Advance
      <4> QED
        BY <4>1, <1>1
    <3>3. CASE UNCHANGED <<output, position>>
      BY <3>3
    <3> QED
      BY <2>3, <3>1, <3>2, <3>3
         DEF WorkerStep, workerVars, Spin, Panic, Return, TickFails,
             PrintFails,
             BodyFails, Fails
  <2>4. CASE UNCHANGED vars
    BY <2>4 DEF vars
  <2> QED
    BY <2>1, <2>2, <2>3, <2>4 DEF Next, Over, ParentStep
<1> QED
  BY <1>4, <1>5, <1>6, <1>7

\* A worker's step is invisible to the parent's loops and its output.
LEMMA WorkerQuiet ==
    ASSUME NumbersOK, Counters, Threads, NEW i \in Iterations, WorkerStep(i)
    PROVE  /\ pc \in {"spawn", "join"}
           /\ UNCHANGED <<pc, body, base, started, next, line, error, printed>>
  <1>1. thread[i] = "running"
        /\ UNCHANGED <<pc, body, base, started, next, line, error, printed>>
      BY DEF WorkerStep, AtOp, Fails, Step, Spin, TickFails, PrintLine,
             PrintFails, Request, BodyFails, Panic, Return, parentVars
  <1> QED
    BY <1>1, BarrierLemma DEF BarrierHolds

\* The replay reads a line that exists.
LEMMA LineFacts ==
    ASSUME TypeOK, Counters, OutputsAscend, ReplayLine
    PROVE  /\ next \in Iterations
           /\ output[next] \in Seq(Nat)
           /\ line \in 1..Len(output[next])
           /\ printed \in Seq(Line)
           /\ \A m \in (line + 1)..Len(output[next]) :
                 output[next][line] < output[next][m]
<1>1. next \in Iterations /\ line \in Nat \ {0}
  BY LoopInRange DEF TypeOK, NumbersOK, ReplayLine
<1>2. output[next] \in Seq(Nat) /\ printed \in Seq(Line)
  BY <1>1 DEF TypeOK, DataOK
<1>3. line \in 1..Len(output[next])
  BY <1>1, <1>2 DEF ReplayLine, MoreLines
<1> QED
  BY <1>1, <1>2, <1>3 DEF OutputsAscend

\* The replay keeps what it printed behind it.
LEMMA PrintedStep ==
    ASSUME TypeOK, Counters, Threads, FirstErrorSoFar, OutputsAscend,
           PrintedBehind, ReplayInOrder, [Next]_vars
    PROVE  PrintedBehind' /\ ReplayInOrder'
<1>n. /\ N \in Nat /\ base \in Nat /\ started \in Nat /\ next \in Nat
      /\ line \in Nat /\ started <= ChunkEnd /\ base <= started
      /\ Workers \in Nat
  BY LoopInRange, ParallelAssumption DEF TypeOK, NumbersOK, Counters
<1>p. /\ printed \in Seq(Line)
      /\ \A k \in 1..Len(printed) :
            printed[k].from \in Nat /\ printed[k].op \in Nat
  <2>1. printed \in Seq(Line)
    BY DEF TypeOK, DataOK
  <2>2. \A ln \in Line : ln.from \in Nat /\ ln.op \in Nat
    BY DEF Line, Iterations
  <2> QED
    BY <2>1, <2>2
<1>1. CASE ReplayLine
  <2> DEFINE new == [from |-> next, op |-> output[next][line]]
  <2>1. /\ pc = "replay" /\ pc' = "replay" /\ next' = next /\ line' = line + 1
        /\ printed' = Append(printed, new) /\ output' = output
        /\ started' = started /\ base' = base /\ body' = body
        /\ next <= LastOutcome
    BY <1>1 DEF ReplayLine, Replaying, workerVars
  <2>2. /\ line \in 1..Len(output[next]) /\ output[next] \in Seq(Nat)
        /\ \A m \in (line + 1)..Len(output[next]) : new.op < output[next][m]
    BY <1>1, LineFacts
  <2>3. LastOutcome' = LastOutcome
    BY <2>1 DEF LastOutcome, ChunkEnd, N
  <2>4. Len(printed') = Len(printed) + 1 /\ printed'[Len(printed) + 1] = new
        /\ \A k \in 1..Len(printed) : printed'[k] = printed[k]
    BY <1>p, <2>1
  <2>5. ASSUME NEW k \in Nat, k = Len(printed) + 1
        PROVE  Behind(printed[k])'
    <3>1. printed'[k] = new
      BY <2>4, <2>5
    <3>2. printed'[k].from = next /\ printed'[k].op = output[next][line]
      BY <3>1
    <3>3. \A m \in (line + 1)..Len(output[next]) :
             printed'[k].op < output[next][m]
      BY <2>2, <3>2
    <3> QED
      BY <2>1, <2>3, <3>2, <3>3 DEF Behind
  <2>6. ASSUME NEW k \in 1..Len(printed)
        PROVE  /\ Behind(printed[k])'
               /\ \/ printed[k].from < next
                  \/ printed[k].from = next /\ printed[k].op < new.op
    <3>1. Behind(printed[k]) /\ printed'[k] = printed[k]
      BY <2>1, <2>4 DEF PrintedBehind
    <3> QED
      BY <2>1, <2>2, <2>3, <3>1 DEF Behind
  <2>7. PrintedBehind'
    <3> SUFFICES ASSUME NEW k \in 1..Len(printed')
                 PROVE  Behind(printed[k])'
      BY DEF PrintedBehind
    <3>1. k \in Nat /\ (k \in 1..Len(printed) \/ k = Len(printed) + 1)
      BY <2>4, <1>p
    <3> QED
      BY <2>5, <2>6, <3>1
  <2>8. ReplayInOrder'
    <3> SUFFICES ASSUME NEW k \in 1..(Len(printed') - 1)
                 PROVE  \/ printed'[k].from < printed'[k + 1].from
                        \/ /\ printed'[k].from = printed'[k + 1].from
                           /\ printed'[k].op < printed'[k + 1].op
      BY DEF ReplayInOrder
    <3>1. k \in 1..Len(printed) /\ printed'[k] = printed[k]
      BY <2>4, <1>p
    <3>2. CASE k = Len(printed)
      BY <2>4, <2>6, <3>1, <3>2
    <3>3. CASE k # Len(printed)
      <4>1. k \in 1..(Len(printed) - 1) /\ k + 1 \in 1..Len(printed)
        BY <3>1, <3>3, <1>p
      <4>2. printed'[k + 1] = printed[k + 1]
        BY <2>4, <4>1
      <4> QED
        BY <3>1, <4>1, <4>2 DEF ReplayInOrder
    <3> QED
      BY <3>2, <3>3
  <2> QED
    BY <2>7, <2>8
<1>2. CASE UNCHANGED printed /\ ~ReplayLine
  <2>1. ReplayInOrder'
    BY <1>2 DEF ReplayInOrder
  <2>2. PrintedBehind'
    <3> SUFFICES ASSUME pc' # "done", NEW k \in 1..Len(printed)
                 PROVE  Behind(printed[k])'
      BY <1>2 DEF PrintedBehind
    <3>a. pc # "done" => Behind(printed[k])
      BY DEF PrintedBehind
    <3>b. printed[k].from \in Nat /\ printed[k].op \in Nat
      BY <1>p
    <3>1. CASE Enter \/ PrepareJob \/ SpawnWorker \/ SpawnFails \/ Join
      BY <3>1, <3>a
         DEF Enter, PrepareJob, SpawnWorker, SpawnFails, Join, Behind,
             parentVars
    <3>2. CASE JobTickFails \/ ForkFails
      BY <3>2 DEF JobTickFails, ForkFails
    <3>3. CASE AllJoined
      BY <3>3, <3>a, <3>b, <1>n DEF AllJoined, Behind
    <3>4. CASE ReplayLineFails \/ FinishOutcome
      BY <3>4, <3>a, <3>b, <1>n
         DEF ReplayLineFails, FinishOutcome, Replaying, Behind
    <3>5. CASE EndBatch
      <4>1. CASE error # NoError \/ ChunkEnd = N
        BY <3>5, <4>1 DEF EndBatch
      <4>2. CASE error = NoError /\ ChunkEnd # N
        <5>1. next = ChunkEnd + 1 /\ started = ChunkEnd
          BY <3>5, <4>2, <1>n, BatchSucceeded
             DEF EndBatch, TypeOK, Counters, LastOutcome
        <5>2. /\ next > LastOutcome /\ pc = "replay"
              /\ pc' = "prepare" /\ base' = ChunkEnd
          BY <3>5, <4>2 DEF EndBatch
        <5>3. ChunkEnd \in Nat
          BY <1>n DEF ChunkEnd
        <5>4. printed[k].from < next
          BY <1>n, <5>1, <5>2, <5>3, <3>a, <3>b DEF Behind, LastOutcome
        <5> QED
          BY <1>n, <1>2, <5>1, <5>2, <5>3, <5>4, <3>b DEF Behind
      <4> QED
        BY <4>1, <4>2
    <3>6. ASSUME NEW i \in Iterations, WorkerStep(i)
          PROVE  Behind(printed[k])'
      BY <3>6, <3>a, WorkerQuiet DEF TypeOK, Behind
    <3>7. CASE UNCHANGED vars
      <4>1. LastOutcome' = LastOutcome
        BY <3>7 DEF vars, LastOutcome, ChunkEnd, N
      <4> QED
        BY <3>7, <3>a, <4>1 DEF vars, Behind
    <3> QED
      BY <1>2, <3>1, <3>2, <3>3, <3>4, <3>5, <3>6, <3>7
         DEF Next, ParentStep, Over
  <2> QED
    BY <2>1, <2>2
<1>3. UNCHANGED printed \/ ReplayLine
    BY WorkerQuiet
       DEF TypeOK, Next, ParentStep, Over, vars, Enter, PrepareJob,
           JobTickFails, ForkFails, SpawnWorker, SpawnFails, Join, AllJoined,
           ReplayLineFails, FinishOutcome, EndBatch, parentVars
<1> QED
  BY <1>1, <1>2, <1>3

\* The states of the iterations as ForkJoin sees them.
State == [i \in Iterations |-> IterationState(i)]

\* The windows of the promise are the batches of the statement.
LEMMA CountFacts ==
    ASSUME TypeOK
    PROVE  /\ Promise!Count = N
           /\ Promise!WindowEnd = ChunkEnd
           /\ Promise!Window = Batch
           /\ Promise!Quiet <=> \A i \in Iterations : thread[i] # "running"
<1>1. N \in Nat
  BY DEF TypeOK, NumbersOK, N
<1>2. Promise!Count = N
  BY <1>1 DEF Promise!Count, Iterations
<1>3. Promise!WindowEnd = ChunkEnd
  BY <1>2 DEF Promise!WindowEnd, ChunkEnd
<1>4. Promise!Quiet <=> \A i \in Iterations : IterationState(i) # "running"
  BY <1>2 DEF Promise!Quiet, Iterations
<1>5. ASSUME NEW i \in Iterations
      PROVE  IterationState(i) = "running" <=> thread[i] = "running"
  BY DEF IterationState, TypeOK, DataOK
<1> QED
  BY <1>2, <1>3, <1>4, <1>5 DEF Promise!Window, Batch

\* A statement starts as the promise says.
LEMMA InitRefines == Init => Promise!Init
  <1> SUFFICES ASSUME Init
      PROVE  Promise!Init
    OBVIOUS
  <1>1. N \in Nat
    BY ParallelAssumption DEF Init, N
  <1>2. \A i \in Iterations : IterationState(i) = "waiting"
    BY DEF Init, IterationState
  <1>3. State \in Seq({"waiting"})
    BY <1>1, <1>2 DEF State, Iterations
  <1>4. Phase = "fork" /\ pc # "done"
    BY DEF Init, Phase
  <1> QED
    BY <1>3, <1>4 DEF Init, Promise!Init, State

\* A step that changes neither an iteration's state nor the place of the
\* parent, the output or the answer is a stuttering step of the promise.
LEMMA Stutter ==
    ASSUME [Next]_vars,
           \A i \in Iterations : IterationState(i)' = IterationState(i),
           base' = base, printed' = printed, Phase' = Phase,
           pc # "done", pc' # "done"
    PROVE  UNCHANGED Promise!vars
  BY BodyConstant DEF Promise!vars

\* Only the state of iteration i changes, within the fork phase.
LEMMA OneState ==
    ASSUME TypeOK, [Next]_vars, NEW i \in Iterations, NEW s,
           \A j \in Iterations :
              IterationState(j)' = IF j = i THEN s ELSE IterationState(j),
           base' = base, printed' = printed, Phase' = Phase,
           pc # "done", pc' # "done"
    PROVE  /\ State' = [State EXCEPT ![i] = s]
           /\ UNCHANGED <<base, Phase, printed,
                          (IF pc = "done" THEN error ELSE NoError)>>
  BY BodyConstant DEF State

\* Steps that leave every iteration's state alone.
LEMMA StateKept ==
    ASSUME [Next]_vars,
           \A i \in Iterations : IterationState(i)' = IterationState(i)
    PROVE  UNCHANGED [i \in Iterations |-> IterationState(i)]
  BY BodyConstant

\* The statement may end with an error of the current window.
LEMMA FailRefines ==
    ASSUME TypeOK, [Next]_vars, pc # "done", pc' = "done",
           \A i \in Iterations : thread[i] \in {"idle", "joined"},
           thread' = thread, failure' = failure,
           base' = base, printed' = printed,
           error' # NoError, error'.at \in Batch,
           \A i \in 1..(error'.at - 1) : failure[i] = "none"
    PROVE  Promise!Fail
<1>1. \A i \in Iterations : IterationState(i)' = IterationState(i)
  BY DEF IterationState
<1>a. /\ N \in Nat /\ base \in Nat /\ ChunkEnd <= N /\ ChunkEnd \in Nat
  BY ParallelAssumption DEF TypeOK, NumbersOK, ChunkEnd, N
<1>2. \A i \in 1..(error'.at - 1) : i \in Iterations
  BY <1>a DEF Batch, Iterations
<1>3. \A i \in 1..(error'.at - 1) : IterationState(i) # "failed"
  BY <1>2 DEF IterationState
<1> QED
  BY <1>1, <1>2, <1>3, StateKept, CountFacts
     DEF Promise!Fail, Phase, TypeOK, NumbersOK

\* While jobs are prepared every iteration before the current one succeeded.
LEMMA PrepareFacts ==
    ASSUME TypeOK, Counters, Threads, pc = "prepare"
    PROVE  /\ next \in Iterations /\ next \in Nat /\ next > 0
           /\ \A i \in 1..(next - 1) : failure[i] = "none"
<1>1. next \in Iterations /\ N \in Nat /\ started = base /\ base \in Nat
  BY LoopInRange DEF TypeOK, NumbersOK, Counters
<1>2. next \in Nat /\ next > 0 /\ next <= N
  BY <1>1 DEF Iterations
<1>3. ASSUME NEW i \in 1..(next - 1)
      PROVE  failure[i] = "none"
  <2>1. i \in Iterations /\ i \in Nat
    BY <1>1, <1>2 DEF Iterations
  <2>2. ThreadOK(i)
    BY <2>1 DEF Threads
  <2> QED
    BY <1>1, <2>1, <2>2 DEF ThreadOK
<1> QED
  BY <1>1, <1>2, <1>3

\* Every step is a step of the promise or invisible to it.
LEMMA StepRefines ==
    ASSUME OrderInv, [Next]_vars
    PROVE  [Promise!Next]_Promise!vars
<1>i. /\ TypeOK /\ Counters /\ Threads /\ FirstErrorSoFar
      /\ OutputsAscend /\ PrintedBehind
  BY DEF OrderInv, Inv
<1> USE <1>i
<1>s. UNCHANGED State <=> UNCHANGED [i \in Iterations |-> IterationState(i)]
  BY DEF State
<1>t. thread \in [Iterations ->
                    {"idle", "running", "returned", "panicked", "joined"}]
      /\ failure \in [Iterations -> Causes]
  BY DEF TypeOK, DataOK
<1>1. CASE Enter
  <2>1. CASE N = 0
    <3>1. Promise!Succeed
      <4>1. \A i \in Iterations : IterationState(i)' = IterationState(i)
        BY <1>1 DEF Enter, parentVars, IterationState
      <4>2. error = NoError /\ pc = "enter" /\ pc' = "done"
            /\ Promise!Count = 0
            /\ UNCHANGED <<base, printed, error>>
        BY <1>1, <2>1, CountFacts DEF Enter, parentVars, FirstErrorSoFar
      <4> QED
        BY <4>1, <4>2, StateKept DEF Promise!Succeed, Phase
    <3> QED
      BY <3>1 DEF Promise!Next
  <2>2. CASE N # 0
    BY <1>1, <2>2, Stutter DEF Enter, parentVars, Phase, IterationState
  <2> QED
    BY <2>1, <2>2
<1>2. CASE PrepareJob
  BY <1>2, Stutter DEF PrepareJob, Phase, IterationState
<1>3. CASE JobTickFails \/ ForkFails
  <2>1. /\ pc = "prepare" /\ pc' = "done"
        /\ next \in Iterations /\ next \in Batch
        /\ thread' = thread /\ failure' = failure
        /\ base' = base /\ printed' = printed
        /\ error' = Error(next, "job limit") \/ error' = Error(next, "fork")
    BY <1>3, LoopInRange
       DEF JobTickFails, ForkFails, workerVars, TypeOK, Counters
  <2>2. error'.at = next /\ error' # NoError
    <3>1. next \in Nat /\ next > 0
      BY <2>1, PrepareFacts
    <3>2. /\ Error(next, "job limit").at = next
          /\ Error(next, "job limit") # NoError
          /\ Error(next, "fork").at = next
          /\ Error(next, "fork") # NoError
      BY <3>1, ErrorFacts, CauseFacts
    <3> QED
      BY <2>1, <3>2
  <2>3. \A i \in Iterations : thread[i] \in {"idle", "joined"}
    BY <2>1, BarrierLemma DEF BarrierHolds, TypeOK
  <2>4. \A i \in 1..(next - 1) : failure[i] = "none"
    BY <2>1, PrepareFacts
  <2>5. Promise!Fail
    BY <2>1, <2>2, <2>3, <2>4, FailRefines
  <2> QED
    BY <2>5 DEF Promise!Next
<1>4. CASE SpawnWorker
  <2>1. next \in Iterations /\ next \in Batch /\ thread[next] = "idle"
    <3>1. next \in Iterations /\ next \in Batch /\ started = next - 1
      BY <1>4, LoopInRange DEF SpawnWorker, TypeOK, Counters
    <3> QED
      BY <3>1 DEF Threads, ThreadOK, Iterations, TypeOK, NumbersOK
  <2>2. \A j \in Iterations :
           IterationState(j)' = IF j = next THEN "running"
                                ELSE IterationState(j)
    BY <1>4, <1>t, <2>1 DEF SpawnWorker, IterationState
  <2>3. Phase' = Phase /\ Phase = "fork" /\ base' = base /\ printed' = printed
        /\ pc # "done" /\ pc' # "done" /\ IterationState(next) = "waiting"
    BY <1>4, <2>1 DEF SpawnWorker, Phase, IterationState
  <2>4. /\ State' = [State EXCEPT ![next] = "running"]
        /\ UNCHANGED <<base, Phase, printed,
                       (IF pc = "done" THEN error ELSE NoError)>>
    BY <2>1, <2>2, <2>3, OneState
  <2>5. Promise!Start(next)
    BY <2>1, <2>3, <2>4, CountFacts DEF Promise!Start, State
  <2> QED
    BY <2>1, <2>5, CountFacts DEF Promise!Next, Iterations
<1>5. CASE SpawnFails
  <2>1. next \in Iterations /\ thread[next] = "idle"
    <3>1. next \in Iterations /\ started = next - 1
      BY <1>5, LoopInRange DEF SpawnFails, TypeOK, Counters
    <3> QED
      BY <3>1 DEF Threads, ThreadOK, Iterations, TypeOK, NumbersOK
  <2>2. \A i \in Iterations : IterationState(i)' = IterationState(i)
    BY <1>5, <2>1, <1>t DEF SpawnFails, IterationState
  <2> QED
    BY <1>5, <2>2, Stutter DEF SpawnFails, Phase
<1>6. CASE Join
  <2>2. \A i \in Iterations : IterationState(i)' = IterationState(i)
    BY <1>6, <1>t DEF Join, IterationState
  <2> QED
    BY <1>6, <2>2, Stutter DEF Join, Phase
<1>7. CASE AllJoined
  <2>1. \A i \in Iterations : thread[i] # "running"
    <3>1. ASSUME NEW i \in Iterations
          PROVE  thread[i] # "running"
      <4>1. ThreadOK(i) /\ i \in Nat /\ next \in Nat /\ started \in Nat
        BY DEF Threads, Iterations, TypeOK, NumbersOK
      <4> QED
        BY <1>7, <4>1 DEF AllJoined, ThreadOK
    <3> QED
      BY <3>1
  <2>2. \A i \in Iterations : IterationState(i)' = IterationState(i)
    BY <1>7 DEF AllJoined, workerVars, IterationState
  <2>3. Promise!Close
    BY <1>7, <2>1, <2>2, StateKept, CountFacts
       DEF AllJoined, Phase, Promise!Close
  <2> QED
    BY <2>3 DEF Promise!Next
<1>8. CASE ReplayLine
  <2> DEFINE new == [from |-> next, op |-> output[next][line]]
  <2>1. /\ next \in Iterations /\ printed \in Seq(Line) /\ base < next
        /\ line \in 1..Len(output[next]) /\ output[next] \in Seq(Nat)
    BY <1>8, LineFacts, LoopInRange DEF ReplayLine, TypeOK
  <2>2. printed' = Append(printed, new) /\ pc = "replay" /\ pc' = "replay"
        /\ base' = base /\ next <= LastOutcome
    BY <1>8 DEF ReplayLine, Replaying
  <2>3. Len(printed') = Len(printed) + 1 /\ printed'[Len(printed')] = new
    BY <2>1, <2>2
  <2>4. next \in Batch
    <3>1. /\ N \in Nat /\ base \in Nat /\ started \in Nat /\ Workers \in Nat
          /\ next \in Nat /\ started <= ChunkEnd
      BY ParallelAssumption, LoopInRange DEF TypeOK, NumbersOK, Counters
    <3> QED
      BY <2>1, <2>2, <3>1 DEF Batch, LastOutcome, ChunkEnd
  <2>5. IterationState(next) \in {"ok", "failed"}
    <3>1. ThreadOK(next) /\ next \in Nat /\ started \in Nat /\ base \in Nat
      BY <2>1 DEF Threads, Iterations, TypeOK, NumbersOK
    <3>2. thread[next] = "joined"
      BY <2>1, <2>2, <3>1 DEF ThreadOK
    <3> QED
      BY <3>2 DEF IterationState
  <2>6. \A k \in 1..Len(printed) :
           \/ printed[k].from < next
           \/ printed[k].from = next /\ printed[k].op < output[next][line]
    BY <2>1, <2>2 DEF PrintedBehind, Behind
  <2>7. \A i \in Iterations : IterationState(i)' = IterationState(i)
    BY <1>8 DEF ReplayLine, workerVars, IterationState
  <2>8. Promise!Line
    BY <2>1, <2>2, <2>3, <2>4, <2>5, <2>6, <2>7, StateKept, CountFacts
       DEF Promise!Line, Phase
  <2> QED
    BY <2>8 DEF Promise!Next
<1>9. CASE ReplayLineFails \/ FinishOutcome
  BY <1>9, Stutter
     DEF ReplayLineFails, FinishOutcome, Replaying, Phase, IterationState,
         workerVars
<1>10. CASE EndBatch
  <2>0. /\ pc = "replay" /\ next > LastOutcome /\ thread' = thread
        /\ failure' = failure /\ printed' = printed /\ error' = error
    BY <1>10 DEF EndBatch, workerVars
  <2>1. \A i \in Iterations : IterationState(i)' = IterationState(i)
    BY <2>0 DEF IterationState
  <2>2. \A i \in Iterations : thread[i] \in {"idle", "joined"}
    BY <2>0, BarrierLemma DEF BarrierHolds, TypeOK
  <2>3. CASE error # NoError
    <3>1. pc' = "done" /\ base' = base
      BY <1>10, <2>3 DEF EndBatch
    <3>2. error.at \in (base + 1)..(next - 1)
          /\ \A i \in 1..(error.at - 1) : failure[i] = "none"
      BY <2>0, <2>3 DEF FirstErrorSoFar
    <3>3. error.at \in Batch
      BY <2>0, <3>2, ParallelAssumption, SMTT(30)
         DEF Batch, Counters, TypeOK, NumbersOK, LastOutcome, ChunkEnd, N
    <3>4. Promise!Fail
      BY <2>0, <2>2, <2>3, <3>1, <3>2, <3>3, FailRefines
    <3> QED
      BY <3>4 DEF Promise!Next
  <2>4. CASE error = NoError
    <3>1. ASSUME NEW i \in Iterations, i <= ChunkEnd
          PROVE  IterationState(i) = "ok"
      BY <2>0, <2>4, <3>1, BatchSucceeded DEF TypeOK, IterationState
    <3>2. CASE ChunkEnd = N
      <4>1. Promise!Succeed
        BY <1>10, <2>0, <2>1, <2>4, <3>1, <3>2, StateKept, CountFacts
           DEF EndBatch, Promise!Succeed, Phase, Iterations
      <4> QED
        BY <4>1 DEF Promise!Next
    <3>3. CASE ChunkEnd # N
      <4>1. pc' = "prepare" /\ base' = ChunkEnd
        BY <1>10, <2>4, <3>3 DEF EndBatch
      <4>2. ChunkEnd < N /\ \A i \in Batch : i \in Iterations /\ i <= ChunkEnd
        BY <3>3, ParallelAssumption
           DEF Batch, Iterations, ChunkEnd, TypeOK, NumbersOK, N
      <4>3. Promise!Proceed
        BY <2>0, <2>1, <2>4, <3>1, <4>1, <4>2, StateKept, CountFacts
           DEF Promise!Proceed, Phase
      <4> QED
        BY <4>3 DEF Promise!Next
    <3> QED
      BY <3>2, <3>3
  <2> QED
    BY <2>3, <2>4
<1>11. ASSUME NEW i \in Iterations, WorkerStep(i)
       PROVE  [Promise!Next]_Promise!vars
  <2>1. /\ pc \in {"spawn", "join"}
        /\ UNCHANGED <<pc, body, base, started, next, line, error, printed>>
    BY <1>11, WorkerQuiet DEF TypeOK
  <2>2. Phase' = Phase /\ Phase = "fork" /\ pc # "done" /\ pc' # "done"
    BY <2>1 DEF Phase
  <2>3. thread[i] = "running" /\ failure[i] = "none"
    <3>1. thread[i] = "running"
      BY <1>11 DEF WorkerStep, AtOp, Step, Spin, TickFails, PrintLine,
                   PrintFails, Request, BodyFails, Panic, Return
    <3> QED
      BY <3>1 DEF Threads, ThreadOK
  <2>4. CASE Step(i) \/ Spin(i) \/ PrintLine(i) \/ Request(i)
    <3>1. \A j \in Iterations : IterationState(j)' = IterationState(j)
      BY <2>4 DEF Step, Spin, PrintLine, Request, IterationState
    <3> QED
      BY <2>1, <2>2, <3>1, Stutter
  <2>5. CASE \/ TickFails(i) \/ PrintFails(i) \/ BodyFails(i)
             \/ Panic(i) \/ Return(i)
    <3>1. \E s \in {"ok", "failed"} : \A j \in Iterations :
             IterationState(j)' = IF j = i THEN s ELSE IterationState(j)
      <4>1. CASE TickFails(i) \/ PrintFails(i) \/ BodyFails(i)
        <5>1. \E c \in {"limit", "buffer", "body"} :
                 /\ thread' = [thread EXCEPT ![i] = "returned"]
                 /\ failure' = [failure EXCEPT ![i] = c]
          BY <4>1 DEF TickFails, PrintFails, BodyFails, Fails
        <5>2. \A j \in Iterations :
                 IterationState(j)' = IF j = i THEN "failed"
                                      ELSE IterationState(j)
          BY <5>1, <1>t DEF IterationState
        <5> QED
          BY <5>2
      <4>2. CASE Panic(i)
        <5>1. \A j \in Iterations :
                 IterationState(j)' = IF j = i THEN "failed"
                                      ELSE IterationState(j)
          BY <4>2, <1>t DEF Panic, IterationState
        <5> QED
          BY <5>1
      <4>3. CASE Return(i)
        <5>1. \A j \in Iterations :
                 IterationState(j)' = IF j = i THEN "ok" ELSE IterationState(j)
          BY <4>3, <2>3, <1>t DEF Return, IterationState
        <5> QED
          BY <5>1
      <4> QED
        BY <2>5, <4>1, <4>2, <4>3
    <3>2. PICK s \in {"ok", "failed"} : \A j \in Iterations :
             IterationState(j)' = IF j = i THEN s ELSE IterationState(j)
      BY <3>1
    <3>3. /\ State' = [State EXCEPT ![i] = s]
          /\ UNCHANGED <<base, Phase, printed,
                         (IF pc = "done" THEN error ELSE NoError)>>
      BY <2>1, <2>2, <3>2, OneState
    <3>4. IterationState(i) = "running"
      BY <2>3 DEF IterationState
    <3>5. Promise!End(i)
      BY <2>2, <3>3, <3>4 DEF Promise!End, State
    <3> QED
      BY <3>5, CountFacts DEF Promise!Next, Iterations
  <2> QED
    BY <1>11, <2>4, <2>5 DEF WorkerStep
<1>12. CASE UNCHANGED vars
  <2>1. \A i \in Iterations : IterationState(i)' = IterationState(i)
    BY <1>12 DEF vars, IterationState
  <2> QED
    BY <1>12, <2>1, BodyConstant DEF vars, Phase, Promise!vars
<1> QED
  BY <1>1, <1>2, <1>3, <1>4, <1>5, <1>6, <1>7, <1>8, <1>9, <1>10, <1>11, <1>12
     DEF Next, ParentStep, Over

\* OrderInv is an invariant.
THEOREM OrderInvariance == Spec => []OrderInv
<1>1. Init => OutputsAscend /\ PrintedBehind /\ ReplayInOrder
  BY DEF Init, OutputsAscend, PrintedBehind, ReplayInOrder
<1>2. ASSUME Inv, OutputsAscend, PrintedBehind, ReplayInOrder, [Next]_vars
      PROVE  OutputsAscend' /\ PrintedBehind' /\ ReplayInOrder'
  <2>1. TypeOK /\ Counters /\ Threads /\ FirstErrorSoFar
    BY <1>2 DEF Inv
  <2> QED
    BY <1>2, <2>1, OutputsStep, PrintedStep
<1> DEFINE Rest == OutputsAscend /\ PrintedBehind /\ ReplayInOrder
<1>3. Init => Rest
  BY <1>1
<1>4. Inv /\ Rest /\ [Next]_vars => Rest'
  BY <1>2
<1>5. OrderInv <=> Inv /\ Rest
  BY DEF OrderInv
<1> HIDE DEF Rest
<1> QED
  BY <1>3, <1>4, <1>5, Invariance, PTL DEF Spec

\* The program's output is in input order, and within an iteration in the order
\* of its print calls.
THEOREM ReplayTheorem == Spec => []ReplayInOrder
<1>1. OrderInv => ReplayInOrder
  BY DEF OrderInv
<1> QED
  BY <1>1, OrderInvariance, PTL

\* A parallel statement keeps the promise of ForkJoin.
THEOREM Refinement == Spec => ImplementsForkJoin
<1>1. Init => Promise!Init
  BY InitRefines
<1>2. OrderInv /\ [Next]_vars => [Promise!Next]_Promise!vars
  BY StepRefines
<1> QED
  BY <1>1, <1>2, OrderInvariance, PTL
     DEF Spec, ImplementsForkJoin, Promise!Spec

-----------------------------------------------------------------------------
(* Sums. *)

\* The sum of nothing.
LEMMA TotalZero ==
    ASSUME NEW f, \A k \in DOMAIN f : f[k] = 0
    PROVE  IsFiniteSet(Units(f)) /\ Total(f) = 0
<1>1. \A k \in DOMAIN f : 1..f[k] = {}
  OBVIOUS
<1>2. Units(f) = {}
  BY <1>1 DEF Units
<1> QED
  BY <1>2, FS_EmptySet DEF Total

\* One value grows by one.
LEMMA TotalAddOne ==
    ASSUME NEW f, NEW g, NEW k \in DOMAIN f, f[k] \in Nat,
           IsFiniteSet(Units(f)), g = [f EXCEPT ![k] = @ + 1]
    PROVE  IsFiniteSet(Units(g)) /\ Total(g) = Total(f) + 1
<1>1. /\ DOMAIN g = DOMAIN f /\ g[k] = f[k] + 1
      /\ \A x \in DOMAIN f : x # k => g[x] = f[x]
  OBVIOUS
<1>2. 1..g[k] = (1..f[k]) \cup {f[k] + 1}
  BY <1>1
<1>3. \A x \in DOMAIN f : {x} \X (1..g[x]) \subseteq Units(f) \cup {<<k, f[k] + 1>>}
  <2> SUFFICES ASSUME NEW x \in DOMAIN f, NEW n \in 1..g[x]
               PROVE  <<x, n>> \in Units(f) \cup {<<k, f[k] + 1>>}
    OBVIOUS
  <2>1. n \in 1..f[x] => <<x, n>> \in Units(f)
    BY DEF Units
  <2> QED
    BY <1>1, <1>2, <2>1
<1>4. ASSUME NEW x \in DOMAIN f
      PROVE  {x} \X (1..f[x]) \subseteq Units(g)
  <2>1. 1..f[x] \subseteq 1..g[x]
    BY <1>1, <1>2
  <2>2. {x} \X (1..g[x]) \subseteq Units(g)
    BY <1>1 DEF Units
  <2> QED
    BY <2>1, <2>2
<1>5. <<k, f[k] + 1>> \in Units(g)
  BY <1>1, <1>2 DEF Units
<1>6. Units(g) = Units(f) \cup {<<k, f[k] + 1>>}
  <2>1. Units(g) \subseteq Units(f) \cup {<<k, f[k] + 1>>}
    BY <1>1, <1>3 DEF Units
  <2>2. Units(f) \subseteq Units(g)
    BY <1>4 DEF Units
  <2> QED
    BY <1>5, <2>1, <2>2
<1>7. <<k, f[k] + 1>> \notin Units(f)
  <2> SUFFICES ASSUME NEW x \in DOMAIN f, <<k, f[k] + 1>> \in {x} \X (1..f[x])
               PROVE  FALSE
    BY DEF Units
  <2>1. x = k /\ f[k] + 1 \in 1..f[x]
    OBVIOUS
  <2> QED
    BY <2>1
<1>8. ASSUME NEW S, NEW e, IsFiniteSet(S), e \notin S
      PROVE  IsFiniteSet(S \cup {e}) /\ Cardinality(S \cup {e}) = Cardinality(S) + 1
  BY <1>8, FS_AddElement
<1> QED
  BY <1>6, <1>7, <1>8 DEF Total

\* One more value.
LEMMA TotalAddArgument ==
    ASSUME NEW f, NEW g, NEW k, NEW n \in Nat, k \notin DOMAIN f,
           DOMAIN g = DOMAIN f \cup {k}, g[k] = n,
           \A x \in DOMAIN f : g[x] = f[x],
           IsFiniteSet(Units(f))
    PROVE  IsFiniteSet(Units(g)) /\ Total(g) = Total(f) + n
<1> DEFINE new == {k} \X (1..n)
<1>1. IsFiniteSet(new) /\ Cardinality(new) = n
  <2>1. IsFiniteSet({k}) /\ Cardinality({k}) = 1
    BY FS_Singleton
  <2>2. IsFiniteSet(1..n) /\ Cardinality(1..n) = n
    BY FS_Interval
  <2>3. IsFiniteSet(new) /\ Cardinality(new) = Cardinality({k}) * Cardinality(1..n)
    BY <2>1, <2>2, FS_Product
  <2> QED
    BY <2>1, <2>2, <2>3
<1>2. Units(g) = Units(f) \cup new
  BY DEF Units
<1>3. Units(f) \cap new = {}
  <2> SUFFICES ASSUME NEW x \in DOMAIN f, NEW u \in {x} \X (1..f[x]), u \in new
               PROVE  FALSE
    BY DEF Units
  <2>1. u[1] = x /\ u[1] = k
    OBVIOUS
  <2> QED
    BY <2>1
<1>4. /\ IsFiniteSet(Units(g))
      /\ Cardinality(Units(g)) = Cardinality(Units(f)) + n - Cardinality({})
  BY <1>1, <1>2, <1>3, FS_Union
<1>5. Cardinality({}) = 0 /\ Cardinality(Units(f)) \in Nat
  BY FS_EmptySet, FS_CardinalityType
<1> QED
  BY <1>4, <1>5 DEF Total
-----------------------------------------------------------------------------
(* The budget. *)

\* Every step is counted, and nobody is refused one while some remain.
LEMMA BudgetStep ==
    ASSUME TypeOK, Counters, Budgeted, [Next]_vars
    PROVE  Budgeted'
<1>t. /\ ticks \in [0..N -> Nat] /\ steps \in Nat /\ Steps \in Nat
      /\ failure \in [Iterations -> Causes]
      /\ Iterations \subseteq 0..N /\ 0 \in 0..N
  BY LoopInRange, ParallelAssumption DEF TypeOK, NumbersOK, DataOK
<1>b. /\ IsFiniteSet(Units(ticks)) /\ steps + Total(ticks) = Steps
      /\ error.cause = "job limit" => steps = 0
      /\ \A i \in Iterations : failure[i] = "limit" => steps = 0
  BY DEF Budgeted, BudgetShared
<1>n. Total(ticks) \in Nat
  BY <1>b, FS_CardinalityType DEF Total
<1>e. \A j, c : Error(j, c).cause = c
  BY DEF Error
<1>z. ~CanTick => steps = 0
  BY <1>t DEF CanTick
<1>1. ASSUME NEW i \in 0..N, Tick(i)
      PROVE  /\ IsFiniteSet(Units(ticks')) /\ steps' + Total(ticks') = Steps
             /\ steps # 0
  <2>1. ticks' = [ticks EXCEPT ![i] = @ + 1] /\ steps' = steps - 1 /\ steps > 0
    BY <1>1 DEF Tick, CanTick
  <2>2. i \in DOMAIN ticks /\ ticks[i] \in Nat
    BY <1>t
  <2>3. IsFiniteSet(Units(ticks')) /\ Total(ticks') = Total(ticks) + 1
    BY ONLY <2>1, <2>2, <1>b, TotalAddOne
  <2>4. steps \in Nat /\ Steps \in Nat
    BY <1>t
  <2>a. steps + Total(ticks) = Steps
    BY ONLY <1>b
  <2>b. Total(ticks') = Total(ticks) + 1
    BY ONLY <2>3
  <2>c. steps' = steps - 1
    BY ONLY <2>1
  <2>5. steps' + Total(ticks') = Steps
    BY ONLY <2>a, <2>b, <2>c, <2>4, <1>n
  <2>6. steps # 0
    BY <2>1, <2>4
  <2> QED
    BY <2>3, <2>5, <2>6
<1>2. CASE /\ \E i \in 0..N : Tick(i)
           /\ error'.cause # error.cause => error'.cause # "job limit"
           /\ failure' = failure
  <2>1. /\ IsFiniteSet(Units(ticks')) /\ steps' + Total(ticks') = Steps
        /\ steps # 0
    BY <1>2, <1>1
  <2>2. error'.cause # "job limit" /\ \A i \in Iterations : failure'[i] # "limit"
    BY <2>1, <1>2, <1>b
  <2> QED
    BY <2>1, <2>2, BodyConstant DEF Budgeted, BudgetShared
<1>3. CASE /\ UNCHANGED <<steps, ticks>>
           /\ error'.cause = "job limit" => error.cause = "job limit" \/ steps = 0
           /\ \A i \in Iterations :
                 failure'[i] = "limit" => failure[i] = "limit" \/ steps = 0
  BY <1>3, <1>b, BodyConstant DEF Budgeted, BudgetShared
<1>4. CASE ParentStep
  <2>1. CASE PrepareJob \/ ForkFails
    <3>1. error'.cause # error.cause => error'.cause # "job limit"
      BY <2>1, <1>e DEF PrepareJob, ForkFails
    <3> QED
      BY <2>1, <3>1, <1>2, <1>t DEF PrepareJob, ForkFails
  <2>2. CASE JobTickFails
    BY <2>2, <1>3, <1>z DEF JobTickFails
  <2>3. CASE SpawnFails
    BY <2>3, <1>3, <1>t DEF SpawnFails, Causes
  <2>4. CASE Join
    BY <2>4, <1>3, <1>t DEF Join, Causes
  <2>5. CASE ReplayLineFails \/ FinishOutcome
    <3>1. next \in Iterations
      BY <2>5, LoopInRange DEF ReplayLineFails, FinishOutcome, TypeOK
    <3>2. failure[next] # "job limit"
      BY <3>1, <1>t DEF Causes
    <3>3. error'.cause = "job limit" => error.cause = "job limit"
      BY <2>5, <3>2, <1>e DEF ReplayLineFails, FinishOutcome
    <3> QED
      BY <2>5, <3>3, <1>3 DEF ReplayLineFails, FinishOutcome
  <2>6. CASE \/ Enter \/ SpawnWorker \/ AllJoined \/ ReplayLine \/ EndBatch
    BY <2>6, <1>3
       DEF Enter, SpawnWorker, AllJoined, ReplayLine, EndBatch, parentVars
  <2> QED
    BY <1>4, <2>1, <2>2, <2>3, <2>4, <2>5, <2>6 DEF ParentStep
<1>5. ASSUME NEW i \in Iterations, WorkerStep(i)
      PROVE  Budgeted'
  <2>1. CASE Step(i) \/ Spin(i)
    BY <2>1, <1>2, <1>t DEF Step, Spin, parentVars
  <2>2. CASE TickFails(i)
    BY <2>2, <1>3, <1>z DEF TickFails, Fails, parentVars
  <2>3. CASE PrintFails(i) \/ BodyFails(i)
    BY <2>3, <1>3, <1>t DEF PrintFails, BodyFails, Fails, parentVars
  <2>4. CASE PrintLine(i) \/ Request(i) \/ Panic(i) \/ Return(i)
    BY <2>4, <1>3 DEF PrintLine, Request, Panic, Return, parentVars
  <2> QED
    BY <1>5, <2>1, <2>2, <2>3, <2>4 DEF WorkerStep
<1>6. CASE UNCHANGED vars
  BY <1>6, <1>3 DEF vars
<1> QED
  BY <1>4, <1>5, <1>6 DEF Next, Over

-----------------------------------------------------------------------------
(* What the workers do. *)

\* One operation more: a line adds its size, anything else adds nothing.
LEMMA SizesGrow ==
    ASSUME NEW ops \in Seq(Op), NEW p \in 1..Len(ops),
           IsFiniteSet(Units(Sizes(ops, p - 1)))
    PROVE  /\ ops[p].kind = "print" =>
                 /\ Prints(ops, p) = Prints(ops, p - 1) \cup {p}
                 /\ IsFiniteSet(Units(Sizes(ops, p)))
                 /\ Total(Sizes(ops, p))
                        = Total(Sizes(ops, p - 1)) + ops[p].len + 1
           /\ ops[p].kind # "print" =>
                 /\ Prints(ops, p) = Prints(ops, p - 1)
                 /\ Sizes(ops, p) = Sizes(ops, p - 1)
<1>1. p \in Nat /\ 1..p = (1..(p - 1)) \cup {p} /\ p \notin 1..(p - 1)
  OBVIOUS
<1>2. CASE ops[p].kind # "print"
  BY <1>1, <1>2 DEF Prints, Sizes
<1>3. CASE ops[p].kind = "print"
  <2>1. Prints(ops, p) = Prints(ops, p - 1) \cup {p} /\ p \notin Prints(ops, p - 1)
    BY <1>1, <1>3 DEF Prints
  <2>2. ops[p].len \in Nat
    <3>1. ops[p] \in Op
      OBVIOUS
    <3> QED
      BY <3>1 DEF Op
  <2>3. PICK n \in Nat : n = ops[p].len + 1
    BY <2>2
  <2> DEFINE f == Sizes(ops, p - 1)
             g == Sizes(ops, p)
  <2>4. /\ p \notin DOMAIN f /\ DOMAIN g = DOMAIN f \cup {p} /\ g[p] = n
        /\ \A x \in DOMAIN f : g[x] = f[x]
    BY <2>1, <2>3 DEF Sizes
  <2> HIDE DEF f, g
  <2>5. IsFiniteSet(Units(f))
    BY DEF f
  <2>6. IsFiniteSet(Units(g)) /\ Total(g) = Total(f) + n
    BY ONLY <2>4, <2>5, TotalAddArgument, n \in Nat
  <2>7. Total(f) \in Nat
    BY <2>5, FS_CardinalityType DEF Total
  <2> QED
    BY <1>3, <2>1, <2>2, <2>3, <2>6, <2>7 DEF f, g
<1> QED
  BY <1>2, <1>3

\* One buffered line more.
LEMMA LineSizesGrow ==
    ASSUME NEW ops \in Seq(Op), NEW lines \in Seq(Nat),
           NEW p \in 1..Len(ops), NEW more, more = Append(lines, p),
           IsFiniteSet(Units(LineSizes(ops, lines)))
    PROVE  /\ IsFiniteSet(Units(LineSizes(ops, more)))
           /\ Total(LineSizes(ops, more))
                 = Total(LineSizes(ops, lines)) + ops[p].len + 1
           /\ Elements(more) = Elements(lines) \cup {p}
<1>1. ops[p].len \in Nat
  <2>1. ops[p] \in Op
    OBVIOUS
  <2> QED
    BY <2>1 DEF Op
<1>2. PICK n \in Nat : n = ops[p].len + 1
  BY <1>1
<1>4. PICK K \in Nat : K = Len(lines) + 1
  OBVIOUS
<1>5. /\ Len(more) = K /\ more[K] = p /\ K \notin 1..Len(lines)
      /\ 1..K = (1..Len(lines)) \cup {K}
      /\ \A k \in 1..Len(lines) : more[k] = lines[k]
  BY <1>4
<1> DEFINE f == LineSizes(ops, lines)
           g == LineSizes(ops, more)
<1>6. /\ K \notin DOMAIN f /\ DOMAIN g = DOMAIN f \cup {K} /\ g[K] = n
      /\ \A x \in DOMAIN f : g[x] = f[x]
  BY <1>2, <1>5 DEF LineSizes
<1> HIDE DEF f, g
<1>7. IsFiniteSet(Units(f))
  BY DEF f
<1>8. IsFiniteSet(Units(g)) /\ Total(g) = Total(f) + n
  BY ONLY <1>6, <1>7, TotalAddArgument, n \in Nat
<1>9. Elements(more) = Elements(lines) \cup {p}
  BY <1>5 DEF Elements
<1>10. Total(f) \in Nat
  BY <1>7, FS_CardinalityType DEF Total
<1>11. Total(g) = Total(f) + ops[p].len + 1
  BY <1>1, <1>2, <1>8, <1>10
<1> QED
  BY <1>8, <1>9, <1>11 DEF f, g

\* What a step may do to an iteration: nothing but to move its thread on, to
\* refuse to start it, to lose what it printed before a panic, or one of its
\* own steps.
Stays(i) ==
    /\ position'[i] = position[i] /\ output'[i] = output[i]
    /\ bytes'[i] = bytes[i] /\ failure'[i] = failure[i]
    /\ \/ thread'[i] = thread[i]
       \/ thread[i] = "idle" /\ thread'[i] = "running"
       \/ thread[i] = "returned" /\ thread'[i] = "joined"
NotStarted(i) ==
    /\ position'[i] = position[i] /\ output'[i] = output[i]
    /\ bytes'[i] = bytes[i] /\ thread'[i] = thread[i]
    /\ thread[i] = "idle" /\ failure'[i] = "spawn"
LosesOutput(i) ==
    /\ position'[i] = position[i] /\ bytes'[i] = bytes[i]
    /\ thread[i] = "panicked" /\ thread'[i] = "joined"
    /\ output'[i] = <<>> /\ failure'[i] = "panicked"

LEMMA IterationMoves ==
    ASSUME TypeOK, Counters, Threads, [Next]_vars, NEW i \in Iterations
    PROVE  Stays(i) \/ NotStarted(i) \/ LosesOutput(i) \/ WorkerStep(i)
<1>t. /\ thread \in [Iterations ->
                      {"idle", "running", "returned", "panicked", "joined"}]
      /\ position \in [Iterations -> Nat \ {0}]
      /\ output \in [Iterations -> Seq(Nat)]
      /\ bytes \in [Iterations -> Nat]
      /\ failure \in [Iterations -> Causes]
  BY DEF TypeOK, DataOK
<1>1. CASE UNCHANGED <<thread, position, output, bytes, failure>>
  BY <1>1 DEF Stays
<1>2. CASE SpawnWorker \/ SpawnFails
  <2>1. next \in Iterations /\ next > started /\ started \in Nat
    BY <1>2, LoopInRange
       DEF SpawnWorker, SpawnFails, TypeOK, NumbersOK, Counters, Batch
  <2>2. thread[next] = "idle"
    BY <2>1 DEF Threads, ThreadOK
  <2>3. CASE SpawnWorker
    BY <2>1, <2>2, <2>3, <1>t DEF SpawnWorker, workerVars, Stays
  <2>4. CASE SpawnFails
    BY <2>1, <2>2, <2>4, <1>t DEF SpawnFails, workerVars, Stays, NotStarted
  <2> QED
    BY <1>2, <2>3, <2>4
<1>3. CASE Join
  <2>1. CASE thread[next] = "panicked"
    BY <1>3, <2>1, <1>t DEF Join, Stays, LosesOutput
  <2>2. CASE thread[next] # "panicked"
    BY <1>3, <2>2, <1>t DEF Join, Stays
  <2> QED
    BY <2>1, <2>2
<1>4. ASSUME NEW j \in Iterations, WorkerStep(j), j # i
      PROVE  Stays(i)
  <2>1. CASE Step(j) \/ Request(j) \/ PrintLine(j)
    BY <2>1, <1>4, <1>t DEF Step, Request, PrintLine, Advance, Stays
  <2>2. CASE Spin(j) \/ Panic(j) \/ Return(j)
    BY <2>2, <1>4, <1>t DEF Spin, Panic, Return, workerVars, Stays
  <2>3. CASE TickFails(j) \/ PrintFails(j) \/ BodyFails(j)
    BY <2>3, <1>4, <1>t
       DEF TickFails, PrintFails, BodyFails, Fails, workerVars, Stays
  <2> QED
    BY <1>4, <2>1, <2>2, <2>3 DEF WorkerStep
<1> QED
  BY <1>1, <1>2, <1>3, <1>4
     DEF Next, ParentStep, Over, vars, workerVars, Enter, PrepareJob,
         JobTickFails, ForkFails, AllJoined, ReplayLine, ReplayLineFails,
         FinishOutcome, EndBatch

\* Each iteration has done what it does alone, as far as it has come.
LEMMA AccountsStep ==
    ASSUME TypeOK, Counters, Threads, Accounts, [Next]_vars
    PROVE  Accounts'
<1> SUFFICES ASSUME NEW i \in Iterations
             PROVE  AsAlone(i)' /\ Buffered(i)' /\ EndedAt(i)'
  BY BodyConstant DEF Accounts
<1>a. AsAlone(i) /\ Buffered(i) /\ EndedAt(i) /\ ThreadOK(i) /\ body' = body
  BY BodyConstant DEF Accounts, Threads
<1>t. /\ thread \in [Iterations ->
                      {"idle", "running", "returned", "panicked", "joined"}]
      /\ position \in [Iterations -> Nat \ {0}]
      /\ output \in [Iterations -> Seq(Nat)]
      /\ bytes \in [Iterations -> Nat]
      /\ failure \in [Iterations -> Causes]
  BY DEF TypeOK, DataOK
<1>o. body[i] \in Seq(Op) /\ Len(body[i]) \in Nat
  BY DEF TypeOK, NumbersOK, Iterations, N
<1>u. /\ position[i] \in Nat \ {0} /\ bytes[i] \in Nat /\ OutputLimit \in Nat
      /\ output[i] \in Seq(Nat)
  BY <1>t, ParallelAssumption
<1>1. ASSUME position'[i] = position[i], bytes'[i] = bytes[i]
      PROVE  AsAlone(i)'
  BY <1>1, <1>a DEF AsAlone
<1>2. ASSUME position'[i] = position[i], bytes'[i] = bytes[i],
             output'[i] = output[i], failure[i] # "panicked",
             failure'[i] # "panicked"
      PROVE  Buffered(i)'
  BY <1>2, <1>a DEF Buffered, PrintedBy
<1>3. CASE Stays(i)
  <2>1. AsAlone(i)'
    BY <1>1, <1>3 DEF Stays
  <2>2. Buffered(i)'
    BY <1>3, <1>a DEF Stays, Buffered, PrintedBy
  <2>3. EndedAt(i)'
    BY <1>3, <1>a DEF Stays, EndedAt, Halted, Fits
  <2> QED
    BY <2>1, <2>2, <2>3
<1>4. CASE NotStarted(i)
  <2>1. failure[i] # "panicked"
    BY <1>4, <1>a DEF NotStarted, EndedAt
  <2>2. AsAlone(i)' /\ Buffered(i)'
    BY <1>1, <1>2, <1>4, <2>1 DEF NotStarted
  <2>3. EndedAt(i)'
    BY <1>4 DEF NotStarted, EndedAt
  <2> QED
    BY <2>2, <2>3
<1>5. CASE LosesOutput(i)
  <2>1. AsAlone(i)'
    BY <1>1, <1>5 DEF LosesOutput
  <2>2. Buffered(i)'
    BY <1>5 DEF LosesOutput, Buffered
  <2>3. EndedAt(i)'
    BY <1>5, <1>a DEF LosesOutput, EndedAt, Halted
  <2> QED
    BY <2>1, <2>2, <2>3
<1>6. CASE WorkerStep(i)
  <2>1. thread[i] = "running" /\ failure[i] = "none"
    BY <1>6, <1>a
       DEF WorkerStep, AtOp, Step, Spin, TickFails, PrintLine, PrintFails,
           Request, BodyFails, Panic, Return, ThreadOK
  <2>2. CASE Step(i) \/ Request(i)
    <3>1. /\ position[i] \in 1..Len(body[i])
          /\ body[i][position[i]].kind \in {"step", "request"}
          /\ position'[i] = position[i] + 1 /\ output'[i] = output[i]
          /\ bytes'[i] = bytes[i] /\ failure'[i] = failure[i]
          /\ thread'[i] = "running"
      BY <2>1, <2>2, <1>t, <1>u, <1>o DEF Step, Request, AtOp, Advance
    <3>2. PICK p \in 1..Len(body[i]) : p = position[i]
      BY <3>1
    <3>3. IsFiniteSet(Units(Sizes(body[i], p - 1)))
      BY <3>2, <1>a DEF AsAlone
    <3>4. body[i][p].kind \notin {"print", "fail", "panic"}
      BY <3>1, <3>2
    <3>5. /\ Prints(body[i], p) = Prints(body[i], p - 1)
          /\ Sizes(body[i], p) = Sizes(body[i], p - 1)
      BY <3>3, <3>4, <1>o, SizesGrow
    <3>6. \A k \in Stops(body[i]) : p + 1 <= k
      <4> SUFFICES ASSUME NEW k \in Stops(body[i])
                   PROVE  p + 1 <= k
        OBVIOUS
      <4>1. k \in Nat /\ p <= k /\ p # k
        BY <3>2, <3>4, <1>a DEF AsAlone, Stops
      <4> QED
        BY <4>1
    <3>7. position'[i] - 1 = p /\ position'[i] = p + 1 /\ position[i] - 1 = p - 1
      BY <3>1, <3>2
    <3>8. AsAlone(i)'
      BY <3>1, <3>2, <3>5, <3>6, <3>7, <1>a, <1>o DEF AsAlone
    <3>9. Buffered(i)'
      BY <3>1, <3>2, <3>5, <3>7, <1>a DEF Buffered, PrintedBy
    <3>10. EndedAt(i)'
      BY <3>1, <2>1 DEF EndedAt
    <3> QED
      BY <3>8, <3>9, <3>10
  <2>3. CASE PrintLine(i)
    <3>1. /\ position[i] \in 1..Len(body[i])
          /\ body[i][position[i]].kind = "print"
          /\ position'[i] = position[i] + 1
          /\ output'[i] = Append(output[i], position[i])
          /\ bytes'[i] = bytes[i] + body[i][position[i]].len + 1
          /\ bytes'[i] <= OutputLimit
          /\ failure'[i] = failure[i] /\ thread'[i] = "running"
      BY <2>1, <2>3, <1>t, <1>u, <1>o DEF PrintLine, AtOp, Advance, Fits
    <3>2. PICK p \in 1..Len(body[i]) : p = position[i]
      BY <3>1
    <3>3. IsFiniteSet(Units(Sizes(body[i], p - 1)))
          /\ Total(Sizes(body[i], p - 1)) = bytes[i]
      BY <3>2, <1>a DEF AsAlone
    <3>4. body[i][p].kind = "print"
      BY <3>1, <3>2
    <3>5. /\ Prints(body[i], p) = Prints(body[i], p - 1) \cup {p}
          /\ IsFiniteSet(Units(Sizes(body[i], p)))
          /\ Total(Sizes(body[i], p)) = bytes'[i]
      BY <3>1, <3>2, <3>3, <3>4, <1>o, SizesGrow
    <3>6. \A k \in Stops(body[i]) : p + 1 <= k
      <4> SUFFICES ASSUME NEW k \in Stops(body[i])
                   PROVE  p + 1 <= k
        OBVIOUS
      <4>1. k \in Nat /\ p <= k
        BY <3>2, <1>a DEF AsAlone, Stops
      <4>2. ~(Total(Sizes(body[i], p)) > OutputLimit)
        <5>1. Total(Sizes(body[i], p)) \in Nat
          BY <3>5, FS_CardinalityType DEF Total
        <5> QED
          BY <3>1, <3>5, <5>1, <1>u
      <4>3. k # p
        BY <3>4, <4>2 DEF Stops
      <4> QED
        BY <4>1, <4>3
    <3>7. position'[i] - 1 = p /\ position'[i] = p + 1 /\ position[i] - 1 = p - 1
      BY <3>1, <3>2
    <3>8. AsAlone(i)'
      BY <3>1, <3>2, <3>5, <3>6, <3>7, <1>a, <1>o DEF AsAlone
    <3>9. /\ Elements(output[i]) = Prints(body[i], p - 1)
          /\ IsFiniteSet(Units(LineSizes(body[i], output[i])))
          /\ Total(LineSizes(body[i], output[i])) = bytes[i]
      BY <2>1, <3>7, <1>a DEF Buffered, PrintedBy
    <3>10. PICK more : more = Append(output[i], p)
      OBVIOUS
    <3>11. /\ IsFiniteSet(Units(LineSizes(body[i], more)))
           /\ Total(LineSizes(body[i], more)) = bytes[i] + body[i][p].len + 1
           /\ Elements(more) = Prints(body[i], p)
      <4>1. /\ IsFiniteSet(Units(LineSizes(body[i], more)))
            /\ Total(LineSizes(body[i], more))
                  = Total(LineSizes(body[i], output[i])) + body[i][p].len + 1
            /\ Elements(more) = Elements(output[i]) \cup {p}
        <5>1. body[i] \in Seq(Op) /\ output[i] \in Seq(Nat)
          BY <1>o, <1>u
        <5>2. IsFiniteSet(Units(LineSizes(body[i], output[i])))
          BY <3>9
        <5> QED
          BY ONLY <3>10, <5>1, <5>2, LineSizesGrow, p \in 1..Len(body[i])
      <4> QED
        BY <4>1, <3>5, <3>9
    <3>12. output'[i] = more /\ failure'[i] = "none" /\ body'[i] = body[i]
      BY <3>1, <3>2, <3>10, <2>1, <1>a
    <3>13. PrintedBy(i)' = Prints(body[i], p)
      BY <3>7, <3>12 DEF PrintedBy
    <3>14. Buffered(i)'
      BY <3>1, <3>2, <3>11, <3>12, <3>13 DEF Buffered
    <3>15. EndedAt(i)'
      BY <3>1, <2>1 DEF EndedAt
    <3> QED
      BY <3>8, <3>14, <3>15
  <2>4. CASE TickFails(i) \/ PrintFails(i) \/ BodyFails(i)
    <3>1. /\ position'[i] = position[i] /\ output'[i] = output[i]
          /\ bytes'[i] = bytes[i] /\ thread'[i] = "returned"
          /\ \/ failure'[i] = "limit"
             \/ /\ failure'[i] = "buffer" /\ ~Fits(i)
                /\ Halted(i, {"print"})
             \/ failure'[i] = "body" /\ Halted(i, {"fail"})
      BY <2>4, <1>t
         DEF TickFails, PrintFails, BodyFails, Fails, AtOp, Halted, workerVars
    <3>2. AsAlone(i)' /\ Buffered(i)'
      BY <2>1, <3>1, <1>1, <1>2
    <3>3. EndedAt(i)'
      BY <3>1, <1>a DEF EndedAt, Halted, Fits
    <3> QED
      BY <3>2, <3>3
  <2>5. CASE Panic(i) \/ Return(i)
    <3>1. /\ position'[i] = position[i] /\ output'[i] = output[i]
          /\ bytes'[i] = bytes[i] /\ failure'[i] = failure[i]
          /\ \/ thread'[i] = "panicked" /\ Halted(i, {"panic"})
             \/ thread'[i] = "returned" /\ position[i] > Len(body[i])
      BY <2>5, <1>t DEF Panic, Return, AtOp, Halted, workerVars
    <3>2. AsAlone(i)' /\ Buffered(i)'
      BY <2>1, <3>1, <1>1, <1>2
    <3>3. position[i] > Len(body[i]) => position[i] = Len(body[i]) + 1
      BY <1>a, <1>o DEF AsAlone
    <3>4. EndedAt(i)'
      BY <2>1, <3>1, <3>3, <1>a DEF EndedAt, Halted
    <3> QED
      BY <3>2, <3>4
  <2>6. CASE Spin(i)
    <3>1. Stays(i)
      BY <2>6 DEF Spin, workerVars, Stays
    <3> QED
      BY <3>1, <1>3
  <2> QED
    BY <1>6, <2>2, <2>3, <2>4, <2>5, <2>6 DEF WorkerStep
<1> QED
  BY <1>3, <1>4, <1>5, <1>6, IterationMoves

\* The bytes a worker counts are those of the lines it holds.
LEMMA BufferLemma ==
    ASSUME TypeOK, Accounts
    PROVE  BufferWithinLimit
<1> SUFFICES ASSUME NEW i \in Iterations
             PROVE  /\ Total(LineSizes(body[i], output[i])) <= OutputLimit
                    /\ failure[i] = "buffer" =>
                          Total(LineSizes(body[i], Append(output[i], position[i])))
                             > OutputLimit
  BY DEF BufferWithinLimit
<1>a. AsAlone(i) /\ Buffered(i) /\ EndedAt(i)
  BY DEF Accounts
<1>o. body[i] \in Seq(Op) /\ output[i] \in Seq(Nat)
      /\ bytes[i] \in Nat /\ OutputLimit \in Nat
  <2>1. body[i] \in Seq(Op)
    BY DEF TypeOK, NumbersOK, Iterations, N
  <2>2. output[i] \in Seq(Nat) /\ bytes[i] \in Nat
    BY DEF TypeOK, DataOK
  <2> QED
    BY <2>1, <2>2, ParallelAssumption
<1>1. CASE failure[i] = "panicked"
  <2>1. output[i] = <<>>
    BY <1>1, <1>a DEF Buffered
  <2>2. DOMAIN LineSizes(body[i], output[i]) = {}
    BY <2>1 DEF LineSizes
  <2>3. Total(LineSizes(body[i], output[i])) = 0
    BY <2>2, TotalZero
  <2> QED
    BY <1>1, <1>o, <2>3
<1>2. CASE failure[i] # "panicked"
  <2>1. /\ Total(LineSizes(body[i], output[i])) = bytes[i]
        /\ IsFiniteSet(Units(LineSizes(body[i], output[i])))
    BY <1>2, <1>a DEF Buffered
  <2>2. bytes[i] <= OutputLimit
    BY <1>a DEF AsAlone
  <2>3. ASSUME failure[i] = "buffer"
        PROVE  Total(LineSizes(body[i], Append(output[i], position[i])))
                  > OutputLimit
    <3>1. PICK p \in 1..Len(body[i]) : p = position[i]
      BY <2>3, <1>a, <1>o DEF EndedAt, Halted, AsAlone
    <3>2. ~(bytes[i] + body[i][p].len + 1 <= OutputLimit)
      BY <2>3, <3>1, <1>a DEF EndedAt, Fits
    <3>3. Total(LineSizes(body[i], Append(output[i], p)))
             = bytes[i] + body[i][p].len + 1
      <4>1. PICK more : more = Append(output[i], p)
        OBVIOUS
      <4>2. Total(LineSizes(body[i], more))
               = Total(LineSizes(body[i], output[i])) + body[i][p].len + 1
        BY ONLY <2>1, <4>1, <1>o, LineSizesGrow, p \in 1..Len(body[i])
      <4> QED
        BY <2>1, <4>1, <4>2
    <3>4. body[i][p].len \in Nat
      <4>1. body[i][p] \in Op
        BY <1>o
      <4> QED
        BY <4>1 DEF Op
    <3> QED
      BY <3>1, <3>2, <3>3, <3>4, <1>o
  <2> QED
    BY <2>1, <2>2, <2>3
<1> QED
  BY <1>1, <1>2

-----------------------------------------------------------------------------
(* What the parent prints. *)

\* A step leaves the buffered lines of an iteration where they are, unless it
\* loses them all.
LEMMA LinesStay ==
    ASSUME TypeOK, Counters, Threads, [Next]_vars, NEW i \in Iterations,
           ~LosesOutput(i), NEW m \in 1..Len(output[i])
    PROVE  m \in 1..Len(output'[i]) /\ output'[i][m] = output[i][m]
<1>1. output[i] \in Seq(Nat) /\ output \in [Iterations -> Seq(Nat)]
  BY DEF TypeOK, DataOK
<1>2. output'[i] = output[i] \/ output'[i] = Append(output[i], position[i])
  <2>1. CASE Stays(i) \/ NotStarted(i)
    BY <2>1 DEF Stays, NotStarted
  <2>2. CASE PrintLine(i)
    BY <2>2, <1>1 DEF PrintLine
  <2>3. CASE WorkerStep(i) /\ ~PrintLine(i)
    BY <2>3
       DEF WorkerStep, Step, Spin, TickFails, PrintFails, Request, BodyFails,
           Panic, Return, Fails, workerVars
  <2> QED
    BY <2>1, <2>2, <2>3, IterationMoves
<1> QED
  BY <1>1, <1>2

\* The iterations of the batches before have joined; those not started have
\* printed nothing.
LEMMA OutsideBatch ==
    ASSUME TypeOK, Counters, Threads, NEW i \in Iterations
    PROVE  /\ i <= base => thread[i] = "joined"
           /\ i > started => output[i] = <<>>
           /\ i \in Nat /\ base \in Nat /\ started \in Nat /\ next \in Nat
           /\ base <= started /\ started <= LastOutcome
           /\ LastOutcome \in Nat
<1>1. i \in Nat /\ base \in Nat /\ started \in Nat /\ base <= started
      /\ next \in Nat
  BY DEF TypeOK, NumbersOK, Counters, Iterations, N
<1>2. started <= LastOutcome /\ LastOutcome \in Nat
  BY <1>1 DEF LastOutcome
<1> QED
  BY <1>1, <1>2 DEF Threads, ThreadOK

\* Every printed line is one its iteration printed.
LEMMA InventedStep ==
    ASSUME TypeOK, Counters, Threads, OutputsAscend, PrintedBehind,
           NothingInvented, [Next]_vars
    PROVE  NothingInvented'
<1>p. /\ printed \in Seq(Line)
      /\ \A k \in 1..Len(printed) : printed[k].from \in Iterations
  <2>1. printed \in Seq(Line)
    BY DEF TypeOK, DataOK
  <2>2. \A ln \in Line : ln.from \in Iterations
    BY DEF Line
  <2> QED
    BY <2>1, <2>2
<1>1. CASE ReplayLine
  <2>1. /\ printed' = Append(printed, [from |-> next, op |-> output[next][line]])
        /\ output' = output
    BY <1>1 DEF ReplayLine, workerVars
  <2>2. line \in 1..Len(output[next])
    BY <1>1, LineFacts
  <2> SUFFICES ASSUME NEW k \in 1..Len(printed')
               PROVE  \E m \in 1..Len(output[printed'[k].from]) :
                         printed'[k].op = output[printed'[k].from][m]
    BY <2>1 DEF NothingInvented
  <2>3. CASE k \in 1..Len(printed)
    <3>1. printed'[k] = printed[k]
      BY <2>1, <2>3, <1>p
    <3> QED
      BY <2>3, <3>1 DEF NothingInvented
  <2>4. CASE k = Len(printed) + 1
    <3>1. printed'[k] = [from |-> next, op |-> output[next][line]]
      BY <2>1, <2>4, <1>p
    <3>2. printed'[k].from = next /\ printed'[k].op = output[next][line]
      BY <3>1
    <3> QED
      BY <2>2, <3>2
  <2>5. k \in 1..Len(printed) \/ k = Len(printed) + 1
    BY <2>1, <1>p
  <2> QED
    BY <2>3, <2>4, <2>5
<1>2. CASE UNCHANGED printed
  <2> SUFFICES ASSUME NEW k \in 1..Len(printed)
               PROVE  \E m \in 1..Len(output'[printed[k].from]) :
                         printed[k].op = output'[printed[k].from][m]
    BY <1>2 DEF NothingInvented
  <2>1. PICK i \in Iterations : i = printed[k].from
    BY <1>p
  <2>2. PICK m \in 1..Len(output[i]) : printed[k].op = output[i][m]
    BY <2>1 DEF NothingInvented
  <2>3. ~LosesOutput(i)
    <3> SUFFICES ASSUME thread[i] = "panicked"
                 PROVE  FALSE
      BY DEF LosesOutput
    <3>1. pc \in {"spawn", "join"}
      BY BarrierLemma DEF TypeOK, BarrierHolds
    <3>2. Behind(printed[k])
      BY <3>1 DEF PrintedBehind
    <3>3. i <= base
      BY <2>1, <3>1, <3>2 DEF Behind
    <3> QED
      BY <3>3, OutsideBatch
  <2>4. m \in 1..Len(output'[i]) /\ output'[i][m] = output[i][m]
    BY <2>3, LinesStay
  <2> QED
    BY <2>1, <2>2, <2>4
<1>3. UNCHANGED printed \/ ReplayLine
  BY WorkerQuiet
     DEF TypeOK, Next, ParentStep, Over, vars, Enter, PrepareJob,
         JobTickFails, ForkFails, SpawnWorker, SpawnFails, Join, AllJoined,
         ReplayLineFails, FinishOutcome, EndBatch, parentVars
<1> QED
  BY <1>1, <1>2, <1>3

\* Unless the host refuses one, every line the replay has passed is printed.
LEMMA LostStep ==
    ASSUME TypeOK, Counters, Threads, OutputsAscend, NothingLost, [Next]_vars
    PROVE  NothingLost'
<1> SUFFICES ASSUME "print" \notin Faults, NEW i \in Iterations,
                    NEW m \in 1..Len(output'[i]), Replayed(i, m)'
             PROVE  Printed(i, m)'
  BY BodyConstant DEF NothingLost
<1>t. /\ output[i] \in Seq(Nat) /\ output \in [Iterations -> Seq(Nat)]
      /\ printed \in Seq(Line)
      /\ line \in Nat \ {0} /\ started \in Nat /\ base \in Nat
      /\ next \in Nat /\ i \in Nat /\ m \in Nat /\ m >= 1
  <2>1. output'[i] \in Seq(Nat)
    BY DataStep, BodyConstant DEF TypeOK, DataOK
  <2>2. m \in Nat /\ m >= 1
    BY <2>1
  <2>3. /\ output \in [Iterations -> Seq(Nat)] /\ printed \in Seq(Line)
        /\ line \in Nat \ {0}
    BY DEF TypeOK, NumbersOK, DataOK
  <2> QED
    BY <2>2, <2>3, OutsideBatch
<1>p. ASSUME m \in 1..Len(output[i]), Replayed(i, m)
      PROVE  Printed(i, m)
  BY <1>p DEF NothingLost
<1>q. i > started => output[i] = <<>>
  BY OutsideBatch
<1>1. CASE ReplayLine
  <2>1. /\ printed' = Append(printed, [from |-> next, op |-> output[next][line]])
        /\ output' = output /\ pc = "replay" /\ pc' = "replay"
        /\ next' = next /\ line' = line + 1
    BY <1>1 DEF ReplayLine, Replaying, workerVars
  <2>2. i < next \/ (i = next /\ m < line + 1)
    BY <2>1 DEF Replayed
  <2>3. CASE Replayed(i, m)
    <3>1. PICK k \in 1..Len(printed) :
             printed[k] = [from |-> i, op |-> output[i][m]]
      BY <2>1, <2>3, <1>p DEF Printed
    <3>2. k \in 1..Len(printed') /\ printed'[k] = printed[k]
      BY <2>1, <1>t
    <3> QED
      BY <2>1, <3>1, <3>2 DEF Printed
  <2>4. CASE i = next /\ m = line
    <3>1. PICK k : k = Len(printed) + 1
      OBVIOUS
    <3>2. k \in 1..Len(printed')
          /\ printed'[k] = [from |-> i, op |-> output[i][m]]
      BY <2>1, <2>4, <3>1, <1>t
    <3> QED
      BY <2>1, <3>2 DEF Printed
  <2>5. Replayed(i, m) \/ (i = next /\ m = line)
    BY <2>1, <2>2, <1>t DEF Replayed
  <2> QED
    BY <2>3, <2>4, <2>5
<1>2. ASSUME UNCHANGED printed,
             m \in 1..Len(output[i]), output'[i][m] = output[i][m],
             Replayed(i, m)
      PROVE  Printed(i, m)'
  BY <1>2, <1>p DEF Printed
<1>3. CASE FinishOutcome
  <2>1. /\ output' = output /\ printed' = printed
        /\ pc = "replay" /\ pc' = "replay" /\ next' = next + 1 /\ line' = 1
        /\ ~(line <= Len(output[next]))
    BY <1>3 DEF FinishOutcome, Replaying, MoreLines, workerVars
  <2>2. i < next \/ i = next
    BY <2>1, <1>t DEF Replayed
  <2>3. i = next => m < line
    <3> SUFFICES ASSUME i = next
                 PROVE  m < line
      OBVIOUS
    <3>1. m \in 1..Len(output[i]) /\ ~(line <= Len(output[i]))
      BY <2>1
    <3>2. Len(output[i]) \in Nat
      BY <1>t
    <3> QED
      BY <3>1, <3>2, <1>t
  <2>4. Replayed(i, m)
    BY <2>1, <2>2, <2>3 DEF Replayed
  <2> QED
    BY <1>2, <2>1, <2>4
<1>4. CASE EndBatch
  <2>1. /\ output' = output /\ printed' = printed /\ pc = "replay"
        /\ next > LastOutcome
    BY <1>4 DEF EndBatch, workerVars
  <2>2. output[i] # <<>>
    BY <2>1, <1>t
  <2>3. i <= started /\ started < next
    BY <2>1, <2>2, <1>q, <1>t, OutsideBatch
  <2>4. Replayed(i, m)
    BY <2>1, <2>3, <1>t DEF Replayed
  <2> QED
    BY <1>2, <2>1, <2>4
<1>5. CASE JobTickFails \/ ForkFails
  <2>1. /\ output' = output /\ printed' = printed /\ pc = "prepare"
    BY <1>5 DEF JobTickFails, ForkFails, workerVars
  <2>2. output[i] # <<>> /\ started = base
    BY <2>1, <1>t DEF Counters
  <2>3. Replayed(i, m)
    BY <2>1, <2>2, <1>q, <1>t DEF Replayed
  <2> QED
    BY <1>2, <2>1, <2>3
<1>6. CASE Enter \/ AllJoined \/ PrepareJob \/ SpawnWorker \/ SpawnFails
  <2>1. /\ output' = output /\ printed' = printed /\ base' = base
        /\ pc \notin {"replay", "done"}
        /\ pc' = "done" => N = 0
        /\ pc' = "replay" => next' = base + 1 /\ line' = 1
    BY <1>6
       DEF Enter, AllJoined, PrepareJob, SpawnWorker, SpawnFails, parentVars,
           workerVars
  <2>2. N # 0
    BY DEF Iterations
  <2>3. i <= base
    BY <2>1, <2>2, <1>t DEF Replayed
  <2>4. Replayed(i, m)
    BY <2>1, <2>3 DEF Replayed
  <2> QED
    BY <1>2, <2>1, <2>4
<1>7. ASSUME UNCHANGED <<pc, base, printed>>, pc \in {"spawn", "join"}
      PROVE  Printed(i, m)'
  <2>1. i <= base /\ Replayed(i, m)
    BY <1>7 DEF Replayed
  <2>2. thread[i] = "joined"
    BY <2>1, OutsideBatch
  <2>3. output'[i] = output[i]
    <3>1. ~LosesOutput(i)
      BY <2>2 DEF LosesOutput
    <3>2. ~WorkerStep(i)
      BY <2>2
         DEF WorkerStep, AtOp, Step, Spin, TickFails, PrintLine, PrintFails,
             Request, BodyFails, Panic, Return
    <3> QED
      BY <3>1, <3>2, IterationMoves DEF Stays, NotStarted
  <2> QED
    BY <1>2, <1>7, <2>1, <2>3
<1>8. CASE Join
  BY <1>7, <1>8 DEF Join
<1>9. ASSUME NEW j \in Iterations, WorkerStep(j)
      PROVE  Printed(i, m)'
  BY <1>7, <1>9, WorkerQuiet DEF TypeOK
<1>10. CASE UNCHANGED vars
  <2>1. Replayed(i, m) /\ output' = output /\ printed' = printed
    BY <1>10 DEF vars, Replayed
  <2> QED
    BY <1>2, <2>1
<1>11. ~ReplayLineFails
  BY DEF ReplayLineFails
<1> QED
  BY <1>1, <1>3, <1>4, <1>5, <1>6, <1>8, <1>9, <1>10, <1>11
     DEF Next, ParentStep, Over

\* All is printed when the statement is over.
LEMMA SurvivesLemma ==
    ASSUME TypeOK, OutputsAscend, ReplayInOrder, Accounts, NothingInvented,
           NothingLost
    PROVE  OutputSurvivesErrors
<1> SUFFICES ASSUME pc = "done", "print" \notin Faults
             PROVE  Elements(printed)
                       = UNION {LinesOf(i, PrintedBy(i)) : i \in Iterations}
  BY DEF OutputSurvivesErrors, PrintedExactly
<1>1. \A i \in Iterations : Elements(output[i]) = PrintedBy(i)
  BY DEF Accounts, Buffered, PrintedBy, Elements
<1>p. /\ printed \in Seq(Line)
      /\ \A k \in 1..Len(printed) :
            /\ printed[k].from \in Iterations
            /\ printed[k] = [from |-> printed[k].from, op |-> printed[k].op]
  <2>1. printed \in Seq(Line)
    BY DEF TypeOK, DataOK
  <2>2. \A ln \in Line : /\ ln.from \in Iterations
                         /\ ln = [from |-> ln.from, op |-> ln.op]
    BY DEF Line
  <2> QED
    BY <2>1, <2>2
<1>2. ASSUME NEW k \in 1..Len(printed)
      PROVE  \E i \in Iterations : printed[k] \in LinesOf(i, PrintedBy(i))
  <2>1. PICK i \in Iterations : i = printed[k].from
    BY <1>p
  <2>2. PICK m \in 1..Len(output[i]) : printed[k].op = output[i][m]
    BY <2>1 DEF NothingInvented
  <2>3. output[i][m] \in PrintedBy(i)
    BY <1>1 DEF Elements
  <2>4. printed[k] = [from |-> i, op |-> output[i][m]]
    BY <1>p, <2>1, <2>2
  <2> QED
    BY <2>3, <2>4 DEF LinesOf
<1>3. ASSUME NEW i \in Iterations, NEW p \in PrintedBy(i)
      PROVE  [from |-> i, op |-> p] \in Elements(printed)
  <2>1. PICK m \in 1..Len(output[i]) : p = output[i][m]
    BY <1>1 DEF Elements
  <2>2. Replayed(i, m)
    BY DEF Replayed
  <2>3. Printed(i, m)
    BY <2>2 DEF NothingLost
  <2> QED
    BY <2>1, <2>3 DEF Printed, Elements
<1>4. Elements(printed) \subseteq UNION {LinesOf(i, PrintedBy(i)) : i \in Iterations}
  BY <1>2 DEF Elements
<1>5. UNION {LinesOf(i, PrintedBy(i)) : i \in Iterations} \subseteq Elements(printed)
  BY <1>3 DEF LinesOf
<1> QED
  BY <1>4, <1>5

-----------------------------------------------------------------------------
(* Where the statement ends. *)

\* The multiples of the number of workers.
LEMMA Multiples ==
    ASSUME NEW W \in Nat \ {0}, NEW b \in Nat
    PROVE  /\ b * W \in Nat /\ (b + 1) * W = b * W + W /\ b <= b * W
           /\ \A c \in Nat : b < c => b * W + W <= c * W
<1>1. b * W \in Nat /\ (b + 1) * W = b * W + W
  OBVIOUS
<1>2. b <= b * W
  <2>1. b * W = b + b * (W - 1) /\ W - 1 \in Nat
    OBVIOUS
  <2>2. b * (W - 1) \in Nat
    BY <2>1
  <2> QED
    BY <2>1, <2>2
<1>3. ASSUME NEW c \in Nat, b < c
      PROVE  b * W + W <= c * W
  <2>1. PICK d \in Nat : c = b + 1 + d
    <3>1. c - b - 1 \in Nat /\ c = b + 1 + (c - b - 1)
      BY <1>3
    <3> QED
      BY <3>1
  <2>2. d * W \in Nat
    OBVIOUS
  <2>3. c * W = b * W + W + d * W
    BY <2>1
  <2> QED
    BY <2>2, <2>3, <1>1
<1> QED
  BY <1>1, <1>2, <1>3

\* The arithmetic of the batches.
LEMMA BatchFacts ==
    ASSUME TypeOK, Counters
    PROVE  /\ N \in Nat /\ base \in Nat /\ started \in Nat
           /\ Workers \in Nat \ {0} /\ ChunkEnd \in Nat
           /\ started <= ChunkEnd /\ ChunkEnd <= N
           /\ ChunkEnd <= base + Workers
           /\ ChunkEnd # N => ChunkEnd = base + Workers
           /\ LastOutcome <= ChunkEnd /\ LastOutcome \in Nat
<1>1. /\ N \in Nat /\ base \in Nat /\ started \in Nat /\ base <= N
      /\ Workers \in Nat \ {0} /\ started <= ChunkEnd
  BY ParallelAssumption DEF TypeOK, NumbersOK, Counters, N
<1>2. /\ ChunkEnd \in Nat /\ ChunkEnd <= N /\ ChunkEnd <= base + Workers
      /\ ChunkEnd # N => ChunkEnd = base + Workers
  BY <1>1 DEF ChunkEnd
<1> QED
  BY <1>1, <1>2 DEF LastOutcome

\* The batches cut the array at multiples of the number of workers.
LEMMA BatchesStep ==
    ASSUME TypeOK, Counters, Threads, BatchesWhole, [Next]_vars
    PROVE  BatchesWhole'
<1>1. CASE base' = base
  BY <1>1, BodyConstant DEF BatchesWhole
<1>2. CASE base' = ChunkEnd /\ ChunkEnd # N
  <2>1. PICK b \in 0..N : base = b * Workers
    BY DEF BatchesWhole
  <2>2. b \in Nat /\ b + 1 \in Nat
    BY <2>1, BatchFacts
  <2>3. ChunkEnd = (b + 1) * Workers
    BY <1>2, <2>1, <2>2, BatchFacts, Multiples
  <2>4. b + 1 <= ChunkEnd
    BY <2>2, <2>3, BatchFacts, Multiples
  <2>5. b + 1 \in 0..N
    BY <2>2, <2>4, BatchFacts
  <2> QED
    BY <1>2, <2>3, <2>5, BodyConstant DEF BatchesWhole
<1> QED
  BY <1>1, <1>2, WorkerQuiet
     DEF TypeOK, Next, ParentStep, Over, vars, Enter, PrepareJob,
         JobTickFails, ForkFails, SpawnWorker, SpawnFails, Join, AllJoined,
         ReplayLine, ReplayLineFails, FinishOutcome, EndBatch, parentVars

\* An error that the environment causes needs the failure it names.
LEMMA FaultsStep ==
    ASSUME TypeOK, Counters, Threads, FaultsNamed, [Next]_vars
    PROVE  FaultsNamed'
<1>e. \A j, c : Error(j, c).cause = c
  BY DEF Error
<1>t. failure \in [Iterations -> Causes]
  BY DEF TypeOK, DataOK
<1>1. (\E i \in Iterations : failure'[i] = "spawn") => "spawn" \in Faults
  <2> SUFFICES ASSUME NEW i \in Iterations, failure'[i] = "spawn"
               PROVE  "spawn" \in Faults
    OBVIOUS
  <2>1. CASE failure[i] = "spawn"
    BY <2>1 DEF FaultsNamed
  <2>2. CASE failure[i] # "spawn"
    <3>1. ~Stays(i) /\ ~LosesOutput(i)
      BY <2>2 DEF Stays, LosesOutput
    <3>2. ~WorkerStep(i)
      BY <2>2, <1>t
         DEF WorkerStep, Step, Spin, TickFails, PrintLine, PrintFails,
             Request, BodyFails, Panic, Return, Fails
    <3>3. failure' # failure /\ NotStarted(i)
      BY <2>2, <3>1, <3>2, IterationMoves
    <3>4. SpawnFails \/ Join \/ \E j \in Iterations : WorkerStep(j)
      BY <3>3
         DEF Next, ParentStep, Over, vars, Enter, PrepareJob,
             JobTickFails, ForkFails, SpawnWorker, AllJoined, ReplayLine,
             ReplayLineFails, FinishOutcome, EndBatch
    <3>5. CASE Join
      BY <2>2, <3>5, <1>t DEF Join
    <3>6. ASSUME NEW j \in Iterations, WorkerStep(j)
          PROVE  FALSE
      BY <2>2, <3>6, <1>t
         DEF WorkerStep, Step, Spin, TickFails, PrintLine, PrintFails,
             Request, BodyFails, Panic, Return, Fails
    <3> QED
      BY <3>4, <3>5, <3>6 DEF SpawnFails
  <2> QED
    BY <2>1, <2>2
<1>2. error'.cause \in {"fork", "print"} => error'.cause \in Faults
  <2>1. CASE error' = error
    BY <2>1 DEF FaultsNamed
  <2>2. CASE JobTickFails \/ ForkFails \/ ReplayLineFails
    BY <2>2, <1>e DEF JobTickFails, ForkFails, ReplayLineFails, FaultsNamed
  <2>3. CASE FinishOutcome
    <3>1. next \in Iterations
      BY <2>3, LoopInRange DEF FinishOutcome, TypeOK
    <3>2. failure[next] \notin {"fork", "print"}
      BY <3>1, <1>t DEF Causes
    <3> QED
      BY <2>3, <3>2, <1>e DEF FinishOutcome, FaultsNamed
  <2> QED
    BY <2>1, <2>2, <2>3, WorkerQuiet
       DEF TypeOK, Next, ParentStep, Over, vars, Enter, PrepareJob,
           SpawnWorker, SpawnFails, Join, AllJoined, ReplayLine, EndBatch,
           parentVars
<1> QED
  BY <1>1, <1>2, BodyConstant DEF FaultsNamed

\* Where the statement ends there is the error, and its batch was complete.
LEMMA EndStep ==
    ASSUME TypeOK, Counters, Threads, FirstErrorSoFar, FaultsNamed,
           EndOfStatement, [Next]_vars
    PROVE  EndOfStatement'
<1>e. \A j, c : Error(j, c).cause = c
  BY DEF Error
<1>f. \A j, c : Error(j, c).at = j
  BY DEF Error
<1>1. error' # NoError => error'.cause # "none"
  <2>1. CASE error' = error
    BY <2>1 DEF EndOfStatement
  <2>2. CASE JobTickFails \/ ForkFails
    <3>1. error' = Error(next, "job limit") \/ error' = Error(next, "fork")
      BY <2>2 DEF JobTickFails, ForkFails
    <3>2. error'.cause \in {"job limit", "fork"}
      BY <3>1, <1>e
    <3> QED
      BY <3>2
  <2>3. CASE (ReplayLineFails \/ FinishOutcome) /\ error' # error
    <3>1. \/ error' = Error(next, "print")
          \/ failure[next] # "none" /\ error' = Error(next, failure[next])
      BY <2>3 DEF ReplayLineFails, FinishOutcome
    <3> QED
      BY <3>1, <1>e
  <2> QED
    BY <2>1, <2>2, <2>3, WorkerQuiet
       DEF TypeOK, Next, ParentStep, Over, vars, Enter, PrepareJob,
           SpawnWorker, SpawnFails, Join, AllJoined, ReplayLine, EndBatch,
           parentVars
<1> SUFFICES ASSUME pc' = "done"
             PROVE  /\ error' # NoError => error'.at \in Batch'
                    /\ error'.cause \notin {"job limit", "fork"} =>
                          started' = ChunkEnd' \/ "spawn" \in Faults
  BY <1>1 DEF EndOfStatement
<1>c. base' = base => Batch' = Batch /\ ChunkEnd' = ChunkEnd
  BY BodyConstant DEF Batch, ChunkEnd
<1>2. CASE Enter
  <2>1. error' = error /\ base' = base /\ started' = started /\ N = 0
        /\ pc = "enter"
    BY <1>2 DEF Enter, parentVars
  <2>2. error = NoError
    BY <2>1 DEF FirstErrorSoFar
  <2>3. started = ChunkEnd
    BY <2>1, BatchFacts
  <2> QED
    BY <2>1, <2>2, <2>3, <1>c
<1>3. CASE JobTickFails \/ ForkFails
  <2>1. /\ next \in Batch /\ base' = base
        /\ error'.at = next /\ error'.cause \in {"job limit", "fork"}
    <3>1. /\ pc = "prepare" /\ base' = base
          /\ error' = Error(next, "job limit") \/ error' = Error(next, "fork")
      BY <1>3 DEF JobTickFails, ForkFails
    <3>2. error'.cause \in {"job limit", "fork"}
      BY <3>1, <1>e
    <3>3. error'.at = next
      BY <3>1, <1>f
    <3> QED
      BY <3>1, <3>2, <3>3 DEF Counters
  <2> QED
    BY <2>1, <1>c
<1>4. CASE EndBatch
  <2>1. /\ error' = error /\ base' = base /\ started' = started /\ pc = "replay"
    BY <1>4 DEF EndBatch
  <2>2. error # NoError => error.at \in Batch
    <3>1. error # NoError => error.at \in (base + 1)..(next - 1)
      BY <2>1 DEF FirstErrorSoFar
    <3>2. next \in (base + 1)..(LastOutcome + 1)
      BY <2>1 DEF Counters
    <3>3. (base + 1)..(next - 1) \subseteq Batch
      BY <3>2, BatchFacts DEF Batch
    <3> QED
      BY <3>1, <3>3
  <2>3. started = ChunkEnd \/ "spawn" \in Faults
    <3>1. CASE started # ChunkEnd
      <4>1. started + 1 \in Iterations /\ started + 1 <= ChunkEnd
        BY <3>1, BatchFacts DEF Iterations
      <4>2. failure[started + 1] = "spawn"
        BY <4>1, <2>1 DEF Threads, ThreadOK
      <4> QED
        BY <4>1, <4>2 DEF FaultsNamed
    <3> QED
      BY <3>1
  <2> QED
    BY <2>1, <2>2, <2>3, <1>c
<1>5. CASE UNCHANGED vars
  <2>1. UNCHANGED <<pc, base, started, error>>
    BY <1>5 DEF vars
  <2> QED
    BY <2>1, <1>c DEF EndOfStatement
<1> QED
  BY <1>2, <1>3, <1>4, <1>5, WorkerQuiet
     DEF TypeOK, Next, ParentStep, Over, PrepareJob, SpawnWorker, SpawnFails,
         Join, AllJoined, ReplayLine, ReplayLineFails, FinishOutcome,
         Replaying

-----------------------------------------------------------------------------
(* The result of the statement. *)

\* A joined iteration that was not short of steps has the outcome it has alone.
LEMMA JoinedAlone ==
    ASSUME TypeOK, Accounts, NEW i \in Iterations, thread[i] = "joined",
           failure[i] \notin {"limit", "spawn"}
    PROVE  /\ CauseAlone(body[i]) = failure[i]
           /\ Stops(body[i]) = {} <=> failure[i] = "none"
           /\ PrintedBy(i) = LinesAlone(body[i])
<1>a. AsAlone(i) /\ Buffered(i) /\ EndedAt(i)
  BY DEF Accounts
<1>o. body[i] \in Seq(Op) /\ Len(body[i]) \in Nat /\ OutputLimit \in Nat
  BY ParallelAssumption DEF TypeOK, NumbersOK, Iterations, N
<1>p. /\ position[i] \in 1..(Len(body[i]) + 1)
      /\ \A k \in Stops(body[i]) : position[i] <= k
      /\ IsFiniteSet(Units(Sizes(body[i], position[i] - 1)))
      /\ Total(Sizes(body[i], position[i] - 1)) = bytes[i]
  BY <1>a DEF AsAlone
<1>s. \A k \in Stops(body[i]) : k \in 1..Len(body[i])
  BY DEF Stops
<1>1. CASE failure[i] = "none"
  <2>1. position[i] = Len(body[i]) + 1
    BY <1>1, <1>a DEF EndedAt
  <2>2. Stops(body[i]) = {}
    BY <2>1, <1>p, <1>s, <1>o
  <2>3. CauseAlone(body[i]) = "none"
    BY <2>2 DEF CauseAlone
  <2>4. position[i] - 1 = Len(body[i])
    BY <2>1, <1>o
  <2>5. LinesAlone(body[i]) = Prints(body[i], Len(body[i]))
    BY <2>2, <2>3 DEF LinesAlone
  <2>6. PrintedBy(i) = LinesAlone(body[i])
    BY <1>1, <2>4, <2>5 DEF PrintedBy
  <2> QED
    BY <1>1, <2>2, <2>3, <2>6
<1>2. CASE failure[i] # "none"
  <2>1. failure[i] \in {"buffer", "body", "panicked"}
    BY <1>2 DEF TypeOK, DataOK, Causes
  <2>2. PICK p \in 1..Len(body[i]) : p = position[i]
    BY <2>1, <1>a, <1>p, <1>o DEF EndedAt, Halted
  <2>3. /\ failure[i] = "body" => body[i][p].kind = "fail"
        /\ failure[i] = "panicked" => body[i][p].kind = "panic"
        /\ failure[i] = "buffer" => /\ body[i][p].kind = "print"
                                   /\ bytes[i] + body[i][p].len + 1 > OutputLimit
    <3>1. bytes[i] \in Nat /\ body[i][p].len \in Nat
      <4>1. body[i][p] \in Op
        BY <1>o
      <4> QED
        BY <4>1 DEF TypeOK, DataOK, Op
    <3>2. failure[i] = "buffer" => ~(bytes[i] + body[i][p].len + 1 <= OutputLimit)
      BY <2>2, <1>a DEF EndedAt, Fits
    <3>3. failure[i] = "buffer" => bytes[i] + body[i][p].len + 1 > OutputLimit
      BY <3>1, <3>2, <1>o
    <3> QED
      BY <2>2, <3>3, <1>a DEF EndedAt, Halted
  <2>4. p \in Stops(body[i])
    <3>1. CASE failure[i] \in {"body", "panicked"}
      BY <3>1, <2>3 DEF Stops
    <3>2. CASE failure[i] = "buffer"
      <4>1. Total(Sizes(body[i], p))
               = Total(Sizes(body[i], p - 1)) + body[i][p].len + 1
        BY <3>2, <2>2, <2>3, <1>o, <1>p, SizesGrow
      <4>2. Total(Sizes(body[i], p)) > OutputLimit
        BY <3>2, <4>1, <2>2, <2>3, <1>p
      <4> QED
        BY <3>2, <4>2, <2>3 DEF Stops
    <3> QED
      BY <2>1, <3>1, <3>2
  <2>5. \A k \in Stops(body[i]) : p <= k
    BY <2>2, <1>p
  <2>6. FirstStop(body[i]) = p
    <3>1. /\ FirstStop(body[i]) \in Stops(body[i])
          /\ \A l \in Stops(body[i]) : FirstStop(body[i]) <= l
      BY <2>4, <2>5 DEF FirstStop
    <3>2. FirstStop(body[i]) <= p /\ p <= FirstStop(body[i])
      BY <3>1, <2>4, <2>5
    <3> QED
      BY <3>1, <3>2, <1>s
  <2>7. CauseAlone(body[i]) = failure[i]
    BY <2>1, <2>3, <2>4, <2>6 DEF CauseAlone
  <2>8. PrintedBy(i) = LinesAlone(body[i])
    <3>1. CASE failure[i] = "panicked"
      BY <3>1, <2>7 DEF PrintedBy, LinesAlone
    <3>2. CASE failure[i] # "panicked"
      <4>1. PrintedBy(i) = Prints(body[i], p - 1)
        BY <3>2, <2>2 DEF PrintedBy
      <4>2. LinesAlone(body[i])
               = {q \in Prints(body[i], Len(body[i])) :
                     \A k \in Stops(body[i]) : q < k}
        BY <3>2, <2>7 DEF LinesAlone
      <4>3. ASSUME NEW q \in 1..Len(body[i])
            PROVE  (\A k \in Stops(body[i]) : q < k) <=> q <= p - 1
        <5>1. \A k \in Stops(body[i]) : k \in Nat /\ p <= k
          BY <2>5, <1>s
        <5> QED
          BY <2>4, <5>1
      <4>4. 1..(p - 1) \subseteq 1..Len(body[i])
        BY <1>o
      <4>5. \A q \in 1..Len(body[i]) : q \in 1..(p - 1) <=> q <= p - 1
        OBVIOUS
      <4>6. LinesAlone(body[i]) = Prints(body[i], p - 1)
        BY <4>2, <4>3, <4>4, <4>5 DEF Prints
      <4> QED
        BY <4>1, <4>6
    <3> QED
      BY <3>1, <3>2
  <2> QED
    BY <1>2, <2>4, <2>7, <2>8
<1> QED
  BY <1>1, <1>2

\* The statement ends with the batch of the first iteration that fails alone.
LEMMA ScheduleLemma ==
    ASSUME TypeOK, Counters, Threads, FirstErrorInOrder, OutputsAscend,
           ReplayInOrder, Budgeted, Accounts, NothingInvented, NothingLost,
           BatchesWhole, FaultsNamed, EndOfStatement
    PROVE  ScheduleIndependence
<1> SUFFICES ASSUME pc = "done", Faults = {}, steps > 0
             PROVE  /\ PrintedExactly(UNION {LinesOf(i, LinesAlone(body[i])) : i \in Ran})
                    /\ error = IF Failing = {} THEN NoError
                               ELSE Error(FirstFailing, CauseAlone(body[FirstFailing]))
  BY DEF ScheduleIndependence
<1>b. /\ N \in Nat /\ base \in Nat /\ ChunkEnd \in Nat
      /\ Workers \in Nat \ {0} /\ ChunkEnd <= N /\ ChunkEnd <= base + Workers
      /\ ChunkEnd # N => ChunkEnd = base + Workers
  BY BatchFacts
<1>n. \A i \in Iterations : i \in Nat /\ 1 <= i /\ i <= N
  BY <1>b DEF Iterations
<1>c. /\ error \in Errors /\ error.at \in Nat /\ error.cause \in ErrorCauses
  BY ErrorFacts DEF TypeOK, DataOK
<1>1. /\ steps # 0
      /\ \A i \in Iterations : failure[i] \notin {"limit", "spawn"}
      /\ error.cause \notin {"job limit", "fork", "print"}
  <2>1. steps # 0
    BY DEF TypeOK, NumbersOK
  <2> QED
    BY <2>1 DEF Budgeted, BudgetShared, FaultsNamed
<1>2. started = ChunkEnd
  BY <1>1 DEF EndOfStatement
<1>3. \A i \in Iterations :
         /\ i <= ChunkEnd => thread[i] = "joined"
         /\ i > ChunkEnd => thread[i] = "idle" /\ output[i] = <<>>
  <2> SUFFICES ASSUME NEW i \in Iterations
               PROVE  /\ i <= ChunkEnd => thread[i] = "joined"
                      /\ i > ChunkEnd => thread[i] = "idle" /\ output[i] = <<>>
    OBVIOUS
  <2>1. ThreadOK(i)
    BY DEF Threads
  <2>2. i <= ChunkEnd => i <= base \/ i \in (base + 1)..started
    BY <1>2, <1>b, <1>n
  <2> QED
    BY <1>2, <2>1, <2>2 DEF ThreadOK
<1>4. \A i \in Iterations : i <= ChunkEnd =>
         /\ CauseAlone(body[i]) = failure[i]
         /\ i \in Failing <=> failure[i] # "none"
         /\ PrintedBy(i) = LinesAlone(body[i])
  BY <1>1, <1>3, JoinedAlone DEF Failing
<1>5. \A i \in Iterations : i > ChunkEnd => PrintedBy(i) = {}
  <2> SUFFICES ASSUME NEW i \in Iterations, i > ChunkEnd
               PROVE  PrintedBy(i) = {}
    OBVIOUS
  <2>1. output[i] = <<>>
    BY <1>3
  <2>2. Elements(output[i]) = {}
    BY <2>1 DEF Elements
  <2> QED
    BY <2>2 DEF Accounts, Buffered, PrintedBy
<1>6. ASSUME error # NoError
      PROVE  /\ error.at \in Failing /\ error.at \in Batch
             /\ error.at <= ChunkEnd
             /\ \A j \in Failing : error.at <= j
             /\ error.cause = CauseAlone(body[error.at])
  <2>1. error.at \in Batch
    BY <1>6 DEF EndOfStatement
  <2>2. error.at \in Iterations /\ error.at <= ChunkEnd
    BY <2>1, <1>b DEF Batch, Iterations
  <2>3. error.cause \in Causes
    BY <1>1, <1>c DEF ErrorCauses
  <2>4. failure[error.at] = error.cause /\ error.cause # "none"
    BY <1>6, <2>3 DEF FirstErrorInOrder, EndOfStatement
  <2>5. error.at \in Failing /\ error.cause = CauseAlone(body[error.at])
    BY <1>4, <2>2, <2>4
  <2>6. ASSUME NEW j \in Failing
        PROVE  error.at <= j
    <3> SUFFICES ASSUME j < error.at
                 PROVE  FALSE
      BY <1>c, <1>n DEF Failing
    <3>1. j \in Iterations /\ j <= ChunkEnd /\ j \in 1..(error.at - 1)
      BY <2>2, <1>b, <1>c, <1>n DEF Failing
    <3>2. failure[j] = "none"
      BY <1>6, <3>1 DEF FirstErrorInOrder
    <3> QED
      BY <1>4, <3>1, <3>2
  <2> QED
    BY <2>1, <2>2, <2>5, <2>6
<1>7. ASSUME error = NoError
      PROVE  Failing = {} /\ \A i \in Iterations : i <= ChunkEnd
  <2>1. \A i \in Iterations : thread[i] = "joined" /\ failure[i] = "none"
    BY <1>7 DEF FirstErrorInOrder
  <2>2. \A i \in Iterations : i <= ChunkEnd
    BY <2>1, <1>3, <1>b, <1>n
  <2>3. \A i \in Iterations : i \notin Failing
    BY <1>4, <2>1, <2>2
  <2> QED
    BY <2>2, <2>3 DEF Failing
<1>8. \A i \in Iterations : i \in Ran <=> i <= ChunkEnd
  <2>1. PICK b \in 0..N : base = b * Workers
    BY DEF BatchesWhole
  <2>2. b \in Nat /\ b + 1 \in Nat
    BY <2>1, <1>b
  <2>3. ASSUME NEW i \in Iterations, i <= ChunkEnd, NEW j \in Failing,
               EarlierBatch(j, i)
        PROVE  FALSE
    <3>1. PICK c \in 1..N : j <= c * Workers /\ c * Workers < i
      BY <2>3 DEF EarlierBatch
    <3>2. c \in Nat /\ j \in Nat /\ i \in Nat
      BY <2>3, <1>b, <1>n DEF Failing
    <3>3. c * Workers \in Nat /\ base \in Nat
      BY <3>2, <1>b, Multiples
    <3>4. ~(b < c)
      <4> SUFFICES ASSUME b < c
                   PROVE  FALSE
        OBVIOUS
      <4>1. base + Workers <= c * Workers
        BY <2>1, <2>2, <3>2, <1>b, Multiples
      <4> QED
        BY <4>1, <2>3, <3>1, <3>2, <3>3, <1>b
    <3>5. c * Workers <= base
      <4>1. CASE c = b
        BY <4>1, <2>1, <1>b
      <4>2. CASE c < b
        <5>1. c * Workers + Workers <= base
          BY <2>1, <2>2, <3>2, <4>2, <1>b, Multiples
        <5> QED
          BY <5>1, <3>3, <1>b
      <4> QED
        BY <3>2, <3>4, <2>2, <4>1, <4>2
    <3>6. j <= base /\ j \in Iterations
      BY <3>1, <3>2, <3>3, <3>5 DEF Failing
    <3>7. failure[j] = "none" /\ j <= ChunkEnd
      <4>1. failure[j] = "none"
        BY <3>6 DEF Threads, ThreadOK
      <4>2. base <= ChunkEnd
        BY <1>2 DEF Counters
      <4> QED
        BY <3>2, <3>6, <4>1, <4>2, <1>b
    <3> QED
      BY <1>4, <2>3, <3>6, <3>7
  <2>4. ASSUME NEW i \in Iterations, i > ChunkEnd
        PROVE  \E j \in Failing : EarlierBatch(j, i)
    <3>1. error # NoError
      BY <2>4, <1>7, <1>b, <1>n
    <3>2. ChunkEnd = base + Workers /\ ChunkEnd < N
      BY <2>4, <1>b, <1>n
    <3>3. ChunkEnd = (b + 1) * Workers /\ b + 1 <= ChunkEnd
      BY <3>2, <2>1, <2>2, <1>b, Multiples
    <3>4. b + 1 \in 1..N
      BY <3>2, <3>3, <2>2, <1>b
    <3>5. EarlierBatch(error.at, i)
      <4>1. error.at <= (b + 1) * Workers /\ (b + 1) * Workers < i
        BY <1>6, <2>4, <3>1, <3>3, <1>b, <1>n
      <4> QED
        BY <3>4, <4>1 DEF EarlierBatch
    <3> QED
      BY <1>6, <3>1, <3>5
  <2>5. \A i \in Iterations : i <= ChunkEnd \/ i > ChunkEnd
    BY <1>b, <1>n
  <2>6. \A i \in Iterations : ~(i <= ChunkEnd /\ i > ChunkEnd)
    BY <1>b, <1>n
  <2> QED
    BY <2>3, <2>4, <2>5, <2>6 DEF Ran
<1>9. PrintedExactly(UNION {LinesOf(i, LinesAlone(body[i])) : i \in Ran})
  <2>1. PrintedExactly(UNION {LinesOf(i, PrintedBy(i)) : i \in Iterations})
    BY SurvivesLemma DEF OutputSurvivesErrors
  <2>2. Ran \subseteq Iterations
    BY DEF Ran
  <2>3. \A i \in Iterations :
           /\ i \in Ran => PrintedBy(i) = LinesAlone(body[i])
           /\ i \notin Ran => LinesOf(i, PrintedBy(i)) = {}
    BY <1>4, <1>5, <1>8, <1>b, <1>n DEF LinesOf
  <2>4. UNION {LinesOf(i, PrintedBy(i)) : i \in Iterations}
           = UNION {LinesOf(i, LinesAlone(body[i])) : i \in Ran}
    BY ONLY <2>2, <2>3
  <2> QED
    BY <2>1, <2>4 DEF PrintedExactly
<1>10. error = IF Failing = {} THEN NoError
               ELSE Error(FirstFailing, CauseAlone(body[FirstFailing]))
  <2>1. CASE error = NoError
    BY <1>7, <2>1
  <2>2. CASE error # NoError
    <3>1. /\ error.at \in Failing /\ \A j \in Failing : error.at <= j
          /\ error.cause = CauseAlone(body[error.at])
      BY <1>6, <2>2
    <3>2. /\ FirstFailing \in Failing
          /\ \A j \in Failing : FirstFailing <= j
      BY <3>1 DEF FirstFailing
    <3>3. FirstFailing \in Nat /\ FirstFailing <= error.at /\ error.at <= FirstFailing
      BY <3>1, <3>2, <1>n DEF Failing
    <3>4. FirstFailing = error.at
      BY <3>3, <1>c
    <3>5. error = Error(error.at, error.cause)
      BY <1>c DEF Errors, Error
    <3> QED
      BY <3>1, <3>4, <3>5
  <2> QED
    BY <2>1, <2>2
<1> QED
  BY <1>9, <1>10

\* ReferenceInv is an invariant.
THEOREM ReferenceInvariance == Spec => []ReferenceInv
<1> DEFINE Rest == /\ Budgeted /\ Accounts /\ NothingInvented /\ NothingLost
                   /\ BatchesWhole /\ FaultsNamed /\ EndOfStatement
<1>1. ASSUME Init
      PROVE  Rest
  <2>n. N \in Nat
    BY <1>1, ParallelAssumption DEF Init, N
  <2>1. Budgeted
    <3>1. \A i \in DOMAIN ticks : ticks[i] = 0
      BY <1>1 DEF Init
    <3>2. IsFiniteSet(Units(ticks)) /\ Total(ticks) = 0
      BY <3>1, TotalZero
    <3>3. steps + 0 = Steps
      BY <1>1, ParallelAssumption DEF Init
    <3> QED
      BY <1>1, <3>2, <3>3 DEF Init, Budgeted, BudgetShared, NoError
  <2>2. Accounts
    <3> SUFFICES ASSUME NEW i \in Iterations
                 PROVE  AsAlone(i) /\ Buffered(i) /\ EndedAt(i)
      BY DEF Accounts
    <3>1. /\ thread[i] = "idle" /\ position[i] = 1 /\ output[i] = <<>>
          /\ bytes[i] = 0 /\ failure[i] = "none"
      BY <1>1 DEF Init
    <3>2. body[i] \in Seq(Op)
      BY <1>1, ParallelAssumption DEF Init, Iterations, N
    <3>3. position[i] - 1 = 0 /\ OutputLimit \in Nat
      BY <3>1, ParallelAssumption
    <3>4. Prints(body[i], 0) = {}
      BY DEF Prints
    <3>5. DOMAIN Sizes(body[i], 0) = {} /\ DOMAIN LineSizes(body[i], <<>>) = {}
      BY <3>4 DEF Sizes, LineSizes
    <3>6. /\ IsFiniteSet(Units(Sizes(body[i], 0))) /\ Total(Sizes(body[i], 0)) = 0
          /\ IsFiniteSet(Units(LineSizes(body[i], <<>>)))
          /\ Total(LineSizes(body[i], <<>>)) = 0
      BY <3>5, TotalZero
    <3>7. AsAlone(i)
      <4>1. \A k \in Stops(body[i]) : 1 <= k
        BY <3>2 DEF Stops
      <4>2. 1 \in 1..(Len(body[i]) + 1)
        BY <3>2
      <4> QED
        BY <3>1, <3>3, <3>6, <4>1, <4>2 DEF AsAlone
    <3>8. Buffered(i)
      <4>1. Elements(<<>>) = {}
        BY DEF Elements
      <4> QED
        BY <3>1, <3>3, <3>4, <3>6, <4>1 DEF Buffered, PrintedBy
    <3>9. EndedAt(i)
      BY <3>1 DEF EndedAt
    <3> QED
      BY <3>7, <3>8, <3>9
  <2>3. NothingInvented /\ NothingLost
    BY <1>1 DEF Init, NothingInvented, NothingLost
  <2>4. BatchesWhole
    <3>1. 0 \in 0..N /\ 0 = 0 * Workers
      BY <2>n, ParallelAssumption
    <3> QED
      BY <1>1, <3>1 DEF Init, BatchesWhole
  <2>5. FaultsNamed /\ EndOfStatement
    BY <1>1 DEF Init, FaultsNamed, EndOfStatement, NoError
  <2> QED
    BY <2>1, <2>2, <2>3, <2>4, <2>5
<1>2. ASSUME OrderInv, Rest, [Next]_vars
      PROVE  Rest'
  <2>1. /\ TypeOK /\ Counters /\ Threads /\ FirstErrorSoFar /\ OutputsAscend
        /\ PrintedBehind
    BY <1>2 DEF OrderInv, Inv
  <2> QED
    BY <1>2, <2>1, BudgetStep, AccountsStep, InventedStep, LostStep,
       BatchesStep, FaultsStep, EndStep
<1>3. ReferenceInv <=> OrderInv /\ Rest
  BY DEF ReferenceInv
<1> HIDE DEF Rest
<1> QED
  BY <1>1, <1>2, <1>3, OrderInvariance, PTL DEF Spec

\* One budget serves the parent and all its workers: no step is taken twice
\* from it, none is lost, and none is refused while some remain.
THEOREM BudgetTheorem == Spec => []BudgetShared
<1>1. ReferenceInv => BudgetShared
  BY DEF ReferenceInv, Budgeted
<1> QED
  BY <1>1, ReferenceInvariance, PTL

\* No worker buffers more than its limit or refuses a line that would fit.
THEOREM BufferTheorem == Spec => []BufferWithinLimit
<1>1. ReferenceInv => BufferWithinLimit
  BY BufferLemma DEF ReferenceInv, OrderInv, Inv
<1> QED
  BY <1>1, ReferenceInvariance, PTL

\* What the workers of a statement printed is printed, errors or not.
THEOREM SurvivesTheorem == Spec => []OutputSurvivesErrors
<1>1. ReferenceInv => OutputSurvivesErrors
  BY SurvivesLemma DEF ReferenceInv, OrderInv, Inv
<1> QED
  BY <1>1, ReferenceInvariance, PTL

\* The output and the error of a statement do not depend on how its workers
\* were scheduled: they are those of its iterations run alone.
THEOREM ScheduleTheorem == Spec => []ScheduleIndependence
<1>1. ReferenceInv => ScheduleIndependence
  BY ScheduleLemma DEF ReferenceInv, OrderInv, Inv
<1> QED
  BY <1>1, ReferenceInvariance, PTL
=============================================================================
