# NetLang in TLA+

NetLang is a small language for network programs. Its interpreter, written in
Rust, walks a checked syntax tree, runs `parallel` statements on threads, owns
TCP and UDP sockets and sends HTTP requests. This directory holds TLA+ models of
the parser, the semantic analysis, the interpreter and its runtime, the TLC runs
that check them on small instances, and proofs, checked by TLAPS, of what matters
most.

Paths below are relative to the repository.

## The system

| Component | Source | State it keeps | Operations | Correct when |
|---|---|---|---|---|
| Lexer | `lexer/netlang.l`, `lexer/lexer_bridge.*`, `src/lexer/` | the scanner behind a C handle, line and column | `next_token`, `tokenize` | one terminal EOF or error, positions never go back |
| Parser | `src/parser/` | tokens, a position, a flag that allows constructors | `parse_program`, statements, expressions | a text is read as the documented grammar says, and only so |
| Syntax tree, pretty printer | `src/ast/` | none | formatting | (data) |
| Type registry | `src/types.rs` | record definitions | `resolve`, `has_required_cycle` | finds exactly the types that require themselves |
| Semantic analysis | `src/semantic/` | scopes, loop/function/parallel contexts | `analyze` | analysed programs do not fail at run time on names, contexts or captures |
| Interpreter | `src/interpreter/mod.rs`, `expression.rs` | arenas of bindings and functions, environment, call stack, depths, step budget | statements, expressions, calls | lexical scope, limits that hold and are restored, captures read-only in workers |
| Checked operations | `src/interpreter/operations.rs` | none | arithmetic, comparison | no wrap-around, no rounding in comparisons |
| Parallel statement | `src/interpreter/parallel.rs` | batches, workers, outcomes, one shared step counter | `parallel`, `execute_worker`, `WorkerRuntime` | a barrier per batch, output and error independent of the schedule |
| Transport runtime | `src/runtime/transport.rs`, `mod.rs` | a table of sockets per runtime, one process-wide counter | open, `accept`, `close`, `set_timeout`, send, receive, `fork` | handles unique and never reused, capacity, nothing lost silently |
| HTTP runtime | `src/runtime/http.rs` | a client built lazily | `request` | repeats only for cause, at most `retry` + 1 attempts, always ends |
| Values, builtins | `src/runtime/value.rs`, `builtin.rs` | none | conversions | (local) |
| Command line | `src/main.rs`, `diagnostic.rs`, `source.rs` | none | `tokens`, `ast`, `check`, `run` | each stage runs only on the success of the one before |

The command line reads a file and pipes it through lexer, parser, semantic
analysis and interpreter. The interpreter calls a `Runtime`. A `parallel`
statement forks the runtime once per iteration. Each worker thread runs an
interpreter of its own over a copy of the bindings and over a `WorkerRuntime`,
which buffers prints and passes network operations to the forked runtime.
Parent and workers share the step counter, and all runtimes of the process the
counter of handles. Everything else belongs to one thread.

Hard here are the interleavings of workers with each other and with the
parent's join and replay; a failure in the middle of a batch (no thread, a
panic, no steps, a host that refuses output); an `accept` that polls against a
clock while peers connect; runtimes on several threads that draw handles from one
counter; handles that outlive their sockets; and requests repeated against a server that
may have applied them. `PROJECT.json` lists each of these with its line.

## Modules

### The parallel statement

`Parallel.tla` is one statement outside any worker. The parent is a program
counter `pc` with the loop variables of `Interpreter::parallel`:

| Code (`src/src/interpreter/parallel.rs`) | Model |
|---|---|
| `values.is_empty()` and entering the loop | `Enter` |
| `self.tick()?`, `self.runtime.fork()`, `jobs.push` | `PrepareJob`, `JobTickFails`, `ForkFails` |
| `spawn_scoped` and `spawn_error` | `SpawnWorker`, `SpawnFails` |
| `handle.join()`, the pushed spawn error | `Join`, `AllJoined`, `LastOutcome` |
| the loop over outcomes, `runtime.print`, `first_error` | `ReplayLine`, `ReplayLineFails`, `FinishOutcome` |
| `if let Some(error) = first_error` | `EndBatch` |
| `execute_worker` | one `WorkerStep` per operation of the body |
| `WorkerRuntime::print` | `PrintLine`, `PrintFails`, `Fits` |
| `Interpreter::tick` | `CanTick`, `Tick`, `TickFails` |

A worker's body is a sequence of operations: `step` (anything that only ticks),
`spin` (a loop without end), `print`, `request` (any network operation of the
forked host), `fail` and `panic`. What a real body computes is not modelled. The
ticks that accompany a print or a request are written as `step` operations
before it. `output` holds positions instead of text, because the properties
only compare which line came out where. Each operation is one atomic step:
workers share nothing but the step counter, whose update is atomic in the code.
`effects` and `ticks` are history variables.

`ForkJoin.tla` is the abstract specification: windows of iterations, a barrier,
lines in input order, go on only after success, an answer that names the first
failure. `Parallel!ImplementsForkJoin` is the refinement.

`ParallelReference.tla` defines without threads what a statement computes and
states the properties that compare with it. `CauseAlone` is how an iteration run by
itself ends, `LinesAlone` the lines that its buffer keeps, `Ran` the iterations up
to the end of the first batch with a failure. Sizes and ticks are added up by
counting, and which lines are printed is stated apart from their order, so that no
definition is recursive and all of it can be proved about.

### Sockets

`Transport.tla` has one table per runtime. An operation that opens a socket is
two steps: the check of its own table and the system calls (`Open`), and the draw
of a handle with the insertion (`Insert`, `InsertFails`). Other runtimes may draw
theirs in between; nobody else reaches the table. `connect`, `bind_udp` and
`listen_tcp` differ in the kind of socket they make. `accept` is a loop over a clock (`StartAccept`, `AcceptSleeps`,
`AcceptTimesOut`, `AcceptTakes`, ...); `ClockRuns` lets time pass without a poll,
which is what a thread that is not scheduled sees (and what an interrupted
`accept` call amounts to). `holds` are the handles a program has as values; a
forked worker starts with its parent's, and closing does not remove one. `Rejected`
stands for every answer that is only an error: a closed or foreign handle, `accept`
on what is no listener or with a full table, data sent to a listener, a timeout out
of range.
`backlog` is the operating system's queue of a listener, `fate` the history of
each peer's connection. `Fork` is the fork of the main runtime or, through
`WorkerRuntime::fork`, of a worker's own; `above` says who waits for a runtime, the
whole way up. `Free` states who may start an operation: a runtime that exists and
is in no other call, and that no living worker was forked from, because it waits
for its workers at the end of the batch. `ParentUntouched` says of each runtime
that waits that nobody changes its table.

`Handles.tla` is the abstract specification: handles are issued once, to one
owner, and are never open again once closed.

External, and modelled from how the code uses them: the queue of a listener
(`Waiting`, `HangUp`) and the arriving connections (`PeerConnects`).

### HTTP

`HttpRequest.tla` is one call of `HttpRuntime::request`: the checks of
`Options::parse` and of the URL, the client, and the loop with its two ways to
`continue`. The server (`Apply`, `Lose`) is external and asynchronous: it may
apply an attempt the client has given up on. `MayRetry` is
`attempt < options.retries`. The code behind the loop, `unreachable!`, is a
program counter of its own that `TypeOK` excludes.

### Data on a socket

`Stream.tla` is `TransportRuntime::send` and `::receive` on one socket, with the
operating system and the peers around it. `write_all` is a loop over partial
writes (`WriteSome`, `WriteEnds`, `WriteFails`); a read takes any chunk, is
repeated after a signal, and may time out or meet a reset. Each byte is the pair
of its message and its place in it, so that a lost, repeated or reordered one
shows. A value that is neither a string nor bytes is refused like a wrong `TO`
(`RefuseSend`). `out` is what the operating system accepted, `unread` what the peer wrote and
no read has returned; both are external, and only appended to and taken from. For
datagrams, the network keeps a set of what was posted and delivers any
member of it at any time, as often as it likes or never. The system may take only a
beginning of a datagram; the code then compares the count and reports an error
(`SendDatagram`), so that only a SEND that failed posted one.

### The language

Four modules follow a program from its tree to its end.

`Syntax.tla` is the tree (`src/ast`) and the registry of type names
(`src/types.rs`): a statement or expression is a record with the source's kind
and parts, a body the sequence of its statements.

`Analyzer.tla` is the semantic analysis: a fold over the tree that threads the
analyser's state (`scopes`, `loops`, `functions`, `boundaries`, the return type,
the errors found), as the methods of `Analyzer` thread `self`. `KnownType` is
`known_type`. Three fields (`decided`, `open`, `resolved`) only record, for the
properties, what the analysis concluded.

`Interpreter.tla` executes a program that the analysis accepts. It is stated
without the analysis and without recursive operators, so that it can be proved
about: what the analyser finds is the constant `Analyser`, which the runs give as
`Analyze`, and the bodies and expressions that a program consists of are the
constant `Parts`. `CasesAssumption` asks that they are a tree in this sense: the
program is among the bodies, and what the members of `Parts` are made of belongs to
it again (`IsTree`). The recursion of the Rust functions is explicit: `control` holds the tasks still to do, `operands`
the values that are ready. There is one action per kind of statement and
expression, and one per place where a Rust function continues after a recursive
call returned:

| Code (`src/src/interpreter/`) | Model |
|---|---|
| `execute`, from the registry to `main`'s call | `Execute`, `EndProgram`, `Exit` |
| the loop over a body's statements | `statements` tasks, `NextStatement` and the actions `Execute...` |
| `bindings`, `functions`, environments | `interp.bindings`, `interp.functions`, the `env` of a task |
| a body declares its bindings and functions | `Begin`, in a new scope `Scope`; `Earlier` for what a function captures |
| lookup from the innermost scope | `DepthOf`, `Slot`, `Lookup` |
| `call`, and the restored depth, stack and return type | `EnterFunction`, `LeaveFunction`, `EndFunction` |
| `Flow::Break`, `Continue`, `Return` on their way up | `Jump`, `CatcherOf` |
| assignment: `target` down to the name (`ResolveTarget`) and back through the selectors, capture check, value, the root's value by now, `set` | `EvaluateAssignment`, `ResolveTarget`, `SelectTarget`, `SelectIndex`, `CheckWritable`, `LoadRoot`, `Store` with `Replaced` |
| `Expr::Construct`: the loop over the fields, each checked as soon as it has a value | `EvaluateConstruct`, `NextField`, `CheckField`, `EndConstruct` |
| `parallel`, `execute_worker`, `captured_bindings` | `StartParallel`, `PrepareBatch`, `StartWorker`, `EndWorker`, `ReplayOutcome`, `EndBatch`; the interpreter that waits is in `outer` |
| `tick` | the first argument of `Step` |

An error ends the execution at once, as `?` carries it up without a handler. The
jobs of a batch run here one after the other: `Parallel.tla` shows that their
order does not matter. Failing forks, failing thread creation and a top-level
host that refuses output are also left to `Parallel.tla`. Network operations
are calls of a runtime that answers with any value or error (`Transport.tla`,
`Stream.tla` and `HttpRequest.tla` say how it gets there).

`Operations.tla` are the checked operations, on integers of a given width and
floats on a grid of rationals; rounding is to the nearest member. They are pure,
and used by `Interpreter`. `Calculator.tla` lets them be checked and proved about
by themselves: its behaviours evaluate one operator on any two operands.

`Soundness.tla` states what the analysis promises about the execution; what the
interpreter keeps up for any program and any analysis is stated in its own module.
Equal expressions of a program are one value, so `NamesAsAnalysed` compares names and
depths over the whole program: a name is found at one of the depths at which the
analysis found that name, not occurrence by occurrence.
`AnnotationsHold` looks into the values of bindings down to `Nesting` levels of
records, objects and arrays, so that no recursive operator is needed; the constant
is any natural number.
`Equivalence.tla` executes a program and then its
rewriting: parallel statements as serial loops, or an assignment as separate
statements, one per index of its target (`IndicesOf`, from the innermost object
outwards), one for its value and one for the store. `MCInterpreter.tla` and
`MCEquivalence.tla` give the families of
programs; each family is every combination of some declarations, statements and
expressions, right or wrong, so that the analysis has programs to reject.

`TypeCycles.tla` is the search of `has_required_cycle`. The stack of the code is
a set, because neither its order nor duplicates matter to the answer.

### The parser

`Parser.tla` is the recursive descent parser as functions from a state (position
and the `constructors` flag) to a tree and the next state, or an error; `Rule`
is the call of one rule by another. The behaviours type a text token by token
and parse it at each step; a text is continued only while its error is its end,
because the parser does not look behind the token it rejects. So a run parses
every accepted text, and every shortest rejected one, over its alphabet and
length. `ParserReference.tla` prints a tree with the parentheses that the
grammar of `docs-internal/LANGUAGE_DESIGN.md` (117-169, 301-304, 457-460) asks
for, and compares: every accepted text has these parentheses
(`ReadAsDocumented`), and every way to write its tree is accepted and read as
the same tree (`SpellingsAgree`).

## Runs

| Run | What it shows | Size |
|---|---|---|
| `parallel_workers` | printed lines and error are those of the sequential reference for every interleaving of three workers; buffers stay within the limit; effects stay inside the barrier | three workers, 20 steps, 2645 states |
| `parallel_budget` | steps taken and remaining add up; output made before an error is printed; the statement ends although workers loop | two workers, 7 steps, 350 states |
| `parallel_faults` | barrier, first error, refinement of `ForkJoin` (windows of at most `Workers` iterations, lines in input order, no window after an error), with forks, spawns and prints failing | three workers, 8 steps, 1040 states |
| `transport_handles` | capacity, nobody touches the sockets of a runtime that waits for its workers, refinement of `Handles` | two workers, the second forked by the main runtime or by the first, 42698 states |
| `transport_accept` | timeouts agree, a waiting connection is at one position of one queue and a taken one at one place at most, none lost silently, every call returns | one worker, two peers, 170186 states |
| `http_request` | repetition rules, final answers, late effects, termination | up to two retries, 2101 states |
| `stream` | the peer sees each TCP message whole or, after an error, a beginning of it; null means the end; datagrams are received as a peer sent them, with their sender, and a SEND that succeeded posted its own whole; every call returns | a stream, a listener and datagram sockets connected and not; two sends, three receives, two writes of the peer, one signal, 433900 states |
| `calculator` | comparisons exact, mixed arithmetic loses no integer, the law of division, no wrap-around | 4-bit integers, floats with a 2-bit significand, every operator on every pair of operands, 64152 states |
| `interpreter` | analysed names exist, at a depth where the analysis found them; what fails all the same is what the analysis could not decide; jumps stay in their loop, function and worker; values keep the types of their annotations (`AnnotationsHold`); counters stay in their limits, captured bindings unchanged, depths restored and buffers bounded (`StateKept`); every execution ends | 12256 programs in three families, 339612 states |
| `equivalence` | a program with parallel statements has the output, result and steps of the one with loops, if it succeeds; an assignment evaluates its indices from the innermost object outwards, then its value, then stores into what these left | 2513 pairs of programs, 528826 states |
| `type_cycles` | the search ends with the right answer | every graph of four names, one hidden by a primitive, 683776 states |
| `parser` | texts are read as documented, and documented spellings are accepted | nine alphabets, texts of seven to nine tokens, 501730 states |

Bounds, and why they are enough:

* `Bodies` (in `MCParallel.tla`): one or two batches, with a second batch that
  is shorter than the first, and bodies that fail in a later iteration before
  an earlier one does. Three workers are needed for an error between two
  successes; a fourth adds no new order between a pair.
* `Steps`: ample in one run, too few for some statements in the others, so that
  the limit strikes at the first or second job of a later batch, inside a worker,
  and in two workers at once.
* `OutputLimit = 4`: a line that fits exactly and one that is too long by the
  newline alone.
* `MaxId` 5 and 4: the counter reaches its end with sockets in several tables.
  `Capacity = 2`: full tables, and room again after a socket was closed.
* Timeouts 1 and 2: an accept that polls once or twice, a stream that inherits
  a timeout different from the default.
* Workers are interchangeable in `transport_handles`, which has no liveness
  property; the symmetry is used there only.
* `Configs` (in `MCHttpRequest.tla`): no retry, up to two, values just outside
  each permitted range, unacceptable fields and URL. One status stands for the
  four that are retried. Up to `Attempts = 0..10` exist as in the code.

* Programs of `interpreter` (in `MCInterpreter.tla`). `Names`: three statements in
  a block that may shadow what is outside (a name, a capture and an assignment
  are three). `Control`: three levels of statements around a jump (a loop, a
  function or worker, and what is between them). `Types`: a value of each kind
  against each annotation, and two assignments into records that alias. No value in
  these programs is nested deeper than `Nesting = 4`.
  `equivalence`: three statements in a worker, one of them a worker again; two
  assignments, each of which may assign on the way to its own target, or one with
  two indices, each of which may assign to what the other index, the value or the
  target read.
* Limits of the interpreter come with the program, in the variable `limits`. In
  `Control` all are small (44 steps, three lines, three calls, four nested
  expressions) so that every one strikes; in the other families they are large
  enough that most programs reach their end.
* 4-bit integers and floats of two bits: the smallest integers without a float,
  the overflow at the most negative integer and negative fractions all occur;
  the code's widths have the same shape.
* Texts: each of the nine alphabets (in `MCParser.tla`) holds the tokens of one
  part of the grammar. Seven tokens hold two binary operators with parentheses;
  the statements need more: eight for a loop around a statement, nine for an
  `else if`, a typed parameter or a constructor in parentheses in a header.
* Messages up to two bytes: a write accepts nothing, a part or the whole, and
  messages can be told apart.

Deadlock is checked in the runs of `Parallel`, `Transport` and `HttpRequest`: a
finished statement, program or request stutters (`Over`), because what follows
it is not part of the model. In the other runs `CHECK_DEADLOCK` is off: an
execution, a search, an evaluated operator, a text that no token can continue and
a socket with its bounded calls made really have no next step. There, being stuck
early would violate `Terminates`, `Ends` and `CallsReturn`.

### Fairness

* `Parallel`: the parent keeps going, and every worker that can take a step
  eventually takes one. The operating system schedules threads, and the host's
  blocking calls end because each has a timeout (five seconds for sockets, at most
  24 hours if the program says so). No fairness is assumed for the failure of
  an operation or for the end of a loop: `Termination` follows from the budget.
* `Transport`: an accept or an insertion in progress goes on. Whether a peer
  ever connects is left open, and nothing forces a program to do anything.
* `HttpRequest`: the client goes on; a wait ends at the latest with the
  request's timeout. The server need not do anything.
* `Stream`: a call in progress ends, by progress or by its timeout; both timeouts
  of a stream are set when it is made, and `set_timeout` keeps them so. Nothing
  forces a peer to read, write or close, or the network to deliver.
* `Interpreter`, `TypeCycles`: one thread that goes on, `WF_vars(Next)`.

## Proofs

The theorems hold for all values of the constants that satisfy the modules' named
assumptions. Most only give the constants their types:

* 1 to 64 workers as `execute_with_limits` requires (`ParallelAssumption`), the
  default timeout among those permitted (`TransportAssumption`), statuses of three
  digits and at most one `retry` field in an options record (`HttpAssumption`),
  datagrams that fit into the buffer of `receive` (`StreamAssumption`; 65507 and 65535
  bytes).
* `CasesAssumption`: programs are trees of the kinds that `src/ast` can express, with
  limits as `execute_with_limits` admits them.
* `BuiltinsAssumption`: finitely many builtins, with names among those of
  `src/runtime/builtin.rs`; a builtin of another name has no defined results.
* `AnalyserAssumption` (only of `SoundnessProofs`) is what the theorems take from
  the semantic analysis, which is recursive: in a program without errors every
  field of a record type has a type that exists, and a construction names an
  existing record type and exactly its fields (`type_declaration` and the
  `Construct` case of `src/semantic/`); and `break`, `continue` and `return` are
  where the statements around them allow (`IsConfined`): some set of bodies has no
  such statement, has with a body those that the flow leaves together with it, and
  contains the program and the bodies that the flow may not leave. TLC
  evaluates it with the modelled `Analyze` for every program of the run
  `interpreter`.

`ParallelProofs.tla` proves `TypeOK`, `BarrierHolds`, `EffectsInsideBarrier`,
`FirstErrorInOrder` and `ConcurrencyBounded` from `Parallel!Inv`. None of these
is inductive: the barrier depends on where the parent's loops stand. `Inv`
therefore adds `Counters` (the loop variables in each phase), `Threads` (what
the parent's position says about each thread and its outcome) and
`FirstErrorSoFar` (the error found among the outcomes replayed so far). The
concurrency bound follows because running iterations lie in
`base + 1..started`, an interval of at most `Workers` numbers.

It then strengthens `Inv` to `OrderInv`: a worker's buffered
lines ascend, and everything printed is behind the place the replay has
reached. From it follow `ReplayInOrder` and `Spec => Promise!Spec`: each step
of the parent or of a worker maps to a step of `ForkJoin` or to a stutter.
`ConcurrencyBounded`, `ReplayInOrder` and the type invariant of `Parallel` are
proved and need no run of their own: the refinement that `parallel_faults` checks
would fail without them.

The same module proves `ScheduleIndependence`, `OutputSurvivesErrors`,
`BufferWithinLimit` and `BudgetShared` from `ReferenceInv`, which adds to `OrderInv`:

* `AsAlone` and `Buffered`: whatever the others do, an iteration has done what it
  does alone up to the same operation, and its buffer holds these lines. An
  iteration that ended, ended where it ends alone, or where the budget ran out.
* `NothingInvented` and `NothingLost`: each printed line is one that its iteration
  makes alone, and all lines of the outcomes replayed so far are printed. With the
  order from `OrderInv`, this determines the output.
* `BatchesWhole`: a batch starts at a multiple of `Workers`, and all earlier
  iterations succeeded. `FaultsNamed` and `EndOfStatement`: where an error comes
  from, and what it means that the statement is over.
* `Accounts` and `Budgeted`: ticks taken and remaining add up, also with a tick in
  the air.

`TransportProofs.tla` proves `TypeOK`, `CapacityRespected`, `TimeoutsAgree`,
`ParentUntouched`, `NoSilentLoss` and the refinement of `Handles` from
`Transport!Inv`. `Quiet` says that only living runtimes do or own something
and that whoever waits for workers lives and is idle; `Drawn` that open handles are
below the counter and in one table; `RoomLeft` that the room a runtime saw when
it started an operation is still there, because only this runtime inserts into its
table; `Agreeing` carries the timeouts of a
socket on its way into the table. `OneOwner` and `StaysClosed` of `Handles` are
then theorems about `Transport`. `ConnectionsAccountedFor` needs `Accounted` beside
it: a connection waits in one place of one queue (`Queued`), and a runtime that took
it keeps it in one table or carries it there, nobody else (`Owned`). Otherwise the
close of one socket could end the connection of another.

`StreamProofs.tla` proves `TypeOK`, `SentWholeOrCut` and `DeliveredAsSent` for messages of any
length and any number of calls. To send: a write in progress stands behind the first
n bytes of its message, of which the system accepted exactly those (`InTheMiddle`).
To receive: read and unread bytes together are the bytes written, in order, the
unread ones last (`NoneLeftOut`); so taking a chunk off the front keeps both. Messages
carry the number of their call (`SendsNumbered`, `WritesNumbered`).

`CalculatorProofs.tla` proves `NumbersExact` (`ComparisonExact` and
`MixedArithmeticExact`) and `IntegersExact` (`DivisionLaw` and `NoWrapAround`) for every width and every set of floats that
`Operations` admits. The result of an evaluation is what `Operate` gives
(`Evaluated`, an invariant); the rest is arithmetic: `TruncateFacts` and
`RemainderFacts` about division that truncates, `CompareExact` about
`compare_int_float`, split by the sign of the float and by whether its integral
part is inside the integers' range.

`TypeCyclesProofs.tla` proves `TypeOK` and `AnswerIsRight` for every set of names
and every graph. The invariant: everything held is needed by the type asked about
(`Reached`), and what was visited needs nothing that is not held, and not the
type itself (`Passed`). When nothing is left to visit, the visited types are a
closed set without the type, so it is on no cycle.

`HttpProofs.tla` proves `TypeOK`, `AppliedOncePerAttempt`, `AnswerIsFinal`,
`RepeatedForCause` and `LateEffectsOnlyAfterGivingUp` for every set of requests and
statuses. The invariant has two parts. `Attempted` says what an attempt has come
to: it is sent once, so its copies on the wire and its applications are at most
one together; it is answered if and only if it was applied; one that is still
under way is the current attempt or was given up. `Standing` says where the client
is: a response at hand, or returned, is that of the current attempt, and has a
status to retry only after the last one.

`InterpreterProofs.tla` proves `StateKept` (`TypeOK`, `CapturesUnchanged`,
`DepthsRestored`, `BuffersBounded`) of the interpreter, for every program, every
limit and whatever the analysis found: `Cases`, `Parts` and `Analyser` are
arbitrary. `StateKept` is not inductive, because what a step does
depends on the tasks in `control`, which earlier steps left there. `IInv` therefore says of
every interpreter, the one that runs and each that waits in `outer`:

* `Base`: its bindings, functions, calls and output have the form and the limits
  they must have; the bodies and types of functions are those of the program.
* `Ready`: each task stands in its place (`Placed`) and holds only parts of the
  program (`Holds`). A task is enclosed by a call, a worker or the program; at a
  statement no expression is under way; a call remembers the depth of the caller;
  a `let` is followed by the statements behind it, a load by its store, a test by
  its loop. No store names a slot that was captured: what `CheckWritable` found
  still holds when `Store` follows, whatever the value did in between.
* its `expression_depth` is the number of open expressions up to the innermost
  call (`Depth`).
* `Above`: a worker starts with the bindings and the calls of the interpreter
  that waits for it (`Joined`), and all calls beyond these are on its own `control`
  (`Inherited`). Who waits stands before a batch (`Waiting`).

`return`, `break` and `continue` drop tasks as far as the one that catches them.
That both depths are then those of the tasks left is the core of the proof
(`JumpKept`): the depth of a call's caller is the one it remembered, and a
statement, where loops catch, has none. There is one lemma per action, each from
a handful about pushing and dropping tasks. The model checker found `IInv` true in
all states of the run `interpreter` before it was proved.

`SoundnessProofs.tla` proves `AnnotationsHold`: in every program that the analysis
accepts, under any limits and whatever the network answers, each bound value has the
type of its annotation, and every record inside it, however deep, has the fields of its
type with values of theirs. That needs to be known of every value in the machine, not
only of the bound ones: a field of a record comes from an operand, the operand from a
name, a call or an answer. Next to `IInv` stands `VInv`, which says of every
interpreter, running or waiting (`Good`):

* `Valued`: a value belongs to a set of values that is closed under taking parts and
  in which every record fits the registry (`Sound`). This holds of operands, bindings,
  the values a loop or a batch has still to visit, the jobs it prepared, the fields of
  a record under construction, and the root that a store will change.
* `Scoped`: the environments of tasks and functions lead to bindings that exist, so a
  name or a place always finds one (`Bound`).
* `Runs`: going through `control` from the top, each task finds as many operands as it
  takes, and leaves what those below it expect (`Uses`, `Gives`, `Sane`). This is the
  discipline of a stack machine. Without it, `Store` could take the value of some
  other expression.
* `Fit`: behind a statement's own tasks is its body, its loop or its frame, so that a
  jump that drops them leaves `control` at a task that awaits no operand. A jump leaves
  operands of the expressions it cuts off; `Runs` stays true because there are only more
  of them.

The heart is `set` (`ReplacedOutcome`): a value replaced somewhere in a record, through any
selectors, either is refused or leaves a value of the type that was there. The code
checks only the innermost record; those around it stay as declared because the part
put back into them has the type of the part taken out. `Replaced` walks along the path
by recursive functions over its positions, so this is an induction over numbers, which
the prover can do. `InsideSound` carries the theorem from the closed sets
to the values at any nesting.

The same module proves `ControlStaysInside`, also for every program that the analysis
accepts: `break`, `continue` and `return` stop at a loop or a function of the same
iteration, and the interpreter's errors for one that leaves a function or a worker never
occur. The analysis looks at the text, but a flow is stopped by what is on `control`;
`CInv` joins the two. It says of every interpreter, running or waiting:

* `Secure`: for every statement still to execute and every kind of flow, either the flow
  does not leave the statement (`Kindly`: its bodies are among the `Calm` ones, chosen
  from the assumption), or the tasks behind the statement stop the flow where it may
  stop, before anything else does (`Caught`). A loop stops `break` and `continue` and leaves
  `return` to what is behind it; a worker stops `continue` and has no `break` or `return`
  in its body.
* `Bodied`: no `break` or `continue` leaves the body of a function, which can therefore
  begin behind any tasks: its frame stops `return`.
* No fault that is on its way from a worker to the result is one of a flow (`Mild`,
  `Escapes`).

Jumps keep this because what a task needs to know depends on the tasks behind it only
(`SuffixSecure`).

Only model-checked: all liveness properties (`Termination`, `Terminates`, `Ends`,
`CallsReturn`), because fairness and `ENABLED` are out of the prover's reach; what
relates the interpreter to the conclusions of the analysis about names and checks
(`NamesAsAnalysed`, `ErrorsAsAnalysed`), two programs to one another
(`ParallelAsFor`, `AssignmentsInOrder`) and texts to trees (`ReadAsDocumented`,
`SpellingsAgree`). `Analyzer`, `Parser` and the rewritings of `Equivalence` recurse over trees
with `RECURSIVE` operators, about which the prover cannot reason, and these
properties compare one recursion with another, which takes induction over trees.

## Notes on the code

* The lines of a batch are replayed also when the host refused a line of an
  earlier outcome, and the print error takes the place of that outcome's own
  error. `FirstErrorInOrder` is stated accordingly.
* A timed-out HTTP attempt may take effect after the statement has ended.
  `LateEffectsOnlyAfterGivingUp` says exactly when; the documentation's advice on
  repeated requests is consistent with it.
* `set_timeout` may leave a socket with two different timeouts; its error
  message says so, and `TimeoutsAgree` excludes exactly these sockets.
* The parser has no limit on nesting of its own; the interpreter's
  `expression_depth` only applies to what was parsed.
* Some errors remain for the run time although the analysis knows the names: a
  function that assigns to a capture when a worker calls it, and a function called
  before an initialiser that it reads has run. `RemainingErrorsNeedCalls` says
  that there are no others of these two kinds.
* The value of an assignment may itself assign to the same target. The store then
  goes into what that left, which `AssignmentsInOrder` states.

No disagreement between the code and its documents was found in what is
modelled.

## Not modelled

A natural extension is the order in which `connect` tries the addresses of a name,
and which error it reports when all of them fail: today one `Open` stands for all
attempts.

Left out for good:

* The lexer: the scanner is a table of regular expressions for a generator; the
  Rust side owns one C handle, which is neither shared nor copied, and calls it
  until the end or an error. Tokens are what `Parser` starts from.
* The pretty printer and the layout of diagnostics: formatting.
* What a builtin conversion computes, and the decoding of literals: local and
  without state.
* The command line: a sequence of stages that stops at the first that fails.
* Build files, CI, documentation site and editor support: no behaviour of the
  program.
