------------------------------ MODULE Transport ------------------------------
(***************************************************************************)
(* The socket tables of the interpreter's runtimes                         *)
(* (src/src/runtime/transport.rs).  The main runtime and the runtimes      *)
(* forked for parallel workers, and for their own parallel statements,     *)
(* each own a table from handles to sockets; handles are numbers drawn     *)
(* from one counter of the process.  A handle is an ordinary value of the  *)
(* program, so that a worker also holds the handles its parent held when   *)
(* it was forked, open or closed.                                          *)
(*                                                                         *)
(* An operation that opens a socket checks the capacity of its own table,  *)
(* asks the operating system, and then draws a number and inserts: other   *)
(* runtimes may draw theirs in between.  `accept' polls a non-blocking     *)
(* listener until its timeout.  The data that is sent and received is not  *)
(* modelled here.                                                          *)
(***************************************************************************)
EXTENDS Integers, Sequences, FiniteSets

CONSTANTS
    Main,           \* the runtime of the program
    Workers,        \* the runtimes that may be forked for parallel workers
    MaxId,          \* the counter's last value, u64::MAX in the code
    Capacity,       \* 1024 in the code
    Default,        \* TIMEOUT, five seconds in the code
    Timeouts,       \* the durations set_timeout accepts
    Peers,          \* connections that remote peers may make to listeners
    NoPeer,         \* of a socket that was not accepted
    Kinds,          \* which kinds of socket the program opens
    Faults          \* which operating system calls may fail

Runtimes == {Main} \cup Workers
Ids == 1..(MaxId - 1)
SocketKinds == {"tcp", "udp", "unconnected", "listener"}

ASSUME TransportAssumption ==
    /\ Main \notin Workers
    /\ MaxId \in Nat \ {0}
    /\ Capacity \in Nat
    /\ Timeouts \subseteq Nat \ {0}
    /\ Default \in Timeouts
    /\ NoPeer \notin Peers
    /\ Kinds \subseteq SocketKinds
    /\ Faults \subseteq {"open", "accept", "configure", "timeout"}

\* A listener has one timeout; it is kept in both fields.
Socket == [kind : SocketKinds, read : Timeouts, write : Timeouts,
           peer : Peers \cup {NoPeer}]
NoSocket == [kind |-> "none", read |-> 0, write |-> 0, peer |-> NoPeer]
NewSocket(kind, timeout, peer) ==
    [kind |-> kind, read |-> timeout, write |-> timeout, peer |-> peer]
Retimed(socket, read, write) ==
    [socket EXCEPT !.read = read, !.write = write]

VARIABLES
    nextId,     \* NEXT_ID
    alive,      \* the runtimes that exist
    above,      \* per runtime: the ones that wait for it, the whole way up
    table,      \* per runtime: TransportRuntime::sockets
    holds,      \* per runtime: the handles its program has as values
    call,       \* per runtime: the blocking operation it is in
    reply,      \* per runtime: how its last operation ended
    backlog,    \* per listener: the connections not yet accepted
    fate,       \* history, per peer: what became of its connection
    warned      \* history: sockets on which a set_timeout reported an error

vars == <<nextId, alive, above, table, holds, call, reply, backlog, fate,
          warned>>

NoTable == [id \in Ids |-> NoSocket]
Idle == [op |-> "idle", id |-> 0, elapsed |-> 0, socket |-> NoSocket]
Accepting(id, elapsed) ==
    [op |-> "accept", id |-> id, elapsed |-> elapsed, socket |-> NoSocket]
Inserting(socket) ==
    [op |-> "insert", id |-> 0, elapsed |-> 0, socket |-> socket]

Init ==
    /\ nextId = 1
    /\ alive = {Main}
    /\ above = [r \in Runtimes |-> {}]
    /\ table = [r \in Runtimes |-> NoTable]
    /\ holds = [r \in Runtimes |-> {}]
    /\ call = [r \in Runtimes |-> Idle]
    /\ reply = [r \in Runtimes |-> "none"]
    /\ backlog = [id \in Ids |-> <<>>]
    /\ fate = [p \in Peers |-> "away"]
    /\ warned = {}

-----------------------------------------------------------------------------
OpenIds(r) == {id \in Ids : table[r][id] # NoSocket}

\* Mutant: the capacity is checked with `>'.
FullTooLate(r) == Cardinality(OpenIds(r)) > Capacity

\* TransportRuntime::ensure_capacity
Full(r) == Cardinality(OpenIds(r)) >= Capacity

\* A runtime executes one operation at a time, and none while a worker lives
\* that was forked from it: it waits for its workers at the end of a batch,
\* and they for theirs.
Free(r) ==
    /\ r \in alive
    /\ call[r] = Idle
    /\ \A w \in Runtimes : r \notin above[w]

Replies(r, answer) == reply' = [reply EXCEPT ![r] = answer]
Waiting(id) == {backlog[id][k] : k \in 1..Len(backlog[id])}

\* The listeners `ids' disappear: the operating system resets what waits there.
HangUp(ids) ==
    /\ backlog' = [id \in Ids |-> IF id \in ids THEN <<>> ELSE backlog[id]]
    /\ fate' = [p \in Peers |->
                   IF \E id \in ids : p \in Waiting(id) THEN "refused"
                                                         ELSE fate[p]]

\* StandardRuntime::fork, also through WorkerRuntime::fork in a worker.  The
\* main runtime forks all runtimes of a batch before the workers run; what a
\* worker does never changes what a fork copies.  In a worker a batch is one
\* job.
Fork(r, w) ==
    /\ r \in alive /\ call[r] = Idle
    /\ r # Main => Free(r)
    /\ w \in Workers \ alive
    /\ alive' = alive \cup {w}
    /\ above' = [above EXCEPT ![w] = above[r] \cup {r}]
    /\ table' = [table EXCEPT ![w] = NoTable]
    /\ holds' = [holds EXCEPT ![w] = holds[r]]
    /\ UNCHANGED <<nextId, call, reply, backlog, fate, warned>>

\* The runtime is dropped, and its sockets with it: at the end of a worker,
\* or of the program.
Drop(r) ==
    /\ Free(r)
    /\ alive' = alive \ {r}
    /\ above' = [above EXCEPT ![r] = {}]
    /\ table' = [table EXCEPT ![r] = NoTable]
    /\ holds' = [holds EXCEPT ![r] = {}]
    /\ HangUp(OpenIds(r))
    /\ UNCHANGED <<nextId, call, reply, warned>>

\* connect, bind_udp and listen_tcp as far as the operating system's part.
Open(r, kind) ==
    /\ Free(r)
    /\ ~Full(r)
    /\ call' = [call EXCEPT ![r] =
                   Inserting(NewSocket(kind, Default, NoPeer))]
    /\ UNCHANGED <<nextId, alive, above, table, holds, reply, backlog, fate,
                   warned>>

OpenFails(r) ==
    /\ Free(r)
    /\ Full(r) \/ "open" \in Faults
    /\ Replies(r, "error")
    /\ UNCHANGED <<nextId, alive, above, table, holds, call, backlog, fate,
                   warned>>

\* Mutant: the number is the lowest one free in this runtime.
InsertLowest(r) ==
    /\ call[r].op = "insert"
    /\ \E id \in Ids \ OpenIds(r) :
          /\ \A lower \in Ids \ OpenIds(r) : id <= lower
          /\ table' = [table EXCEPT ![r][id] = call[r].socket]
          /\ holds' = [holds EXCEPT ![r] = @ \cup {id}]
          /\ nextId' = IF id = nextId THEN id + 1 ELSE nextId
    /\ fate' = IF call[r].socket.peer = NoPeer THEN fate
               ELSE [fate EXCEPT ![call[r].socket.peer] = "served"]
    /\ call' = [call EXCEPT ![r] = Idle]
    /\ Replies(r, "ok")
    /\ UNCHANGED <<alive, above, backlog, warned>>

\* Mutant: the counter wraps around.
InsertWrapping(r) ==
    /\ call[r].op = "insert"
    /\ table' = [table EXCEPT ![r][nextId] = call[r].socket]
    /\ holds' = [holds EXCEPT ![r] = @ \cup {nextId}]
    /\ nextId' = IF nextId = MaxId THEN 0 ELSE nextId + 1
    /\ call' = [call EXCEPT ![r] = Idle]
    /\ Replies(r, "ok")
    /\ UNCHANGED <<alive, above, backlog, fate, warned>>

\* TransportRuntime::insert: the atomic update of NEXT_ID, and the insertion
\* into a table nobody else can touch.
Insert(r) ==
    /\ call[r].op = "insert"
    /\ nextId < MaxId
    /\ table' = [table EXCEPT ![r][nextId] = call[r].socket]
    /\ holds' = [holds EXCEPT ![r] = @ \cup {nextId}]
    /\ nextId' = nextId + 1
    /\ fate' = IF call[r].socket.peer = NoPeer THEN fate
               ELSE [fate EXCEPT ![call[r].socket.peer] = "served"]
    /\ call' = [call EXCEPT ![r] = Idle]
    /\ Replies(r, "ok")
    /\ UNCHANGED <<alive, above, backlog, warned>>

\* The numbers are used up: the new socket is dropped.
InsertFails(r) ==
    /\ call[r].op = "insert"
    /\ nextId = MaxId
    /\ fate' = IF call[r].socket.peer = NoPeer THEN fate
               ELSE [fate EXCEPT ![call[r].socket.peer] = "lost"]
    /\ call' = [call EXCEPT ![r] = Idle]
    /\ Replies(r, "error")
    /\ UNCHANGED <<nextId, alive, above, table, holds, backlog, warned>>

-----------------------------------------------------------------------------
Live(r, id) == id \in holds[r] /\ id \in OpenIds(r)

\* Mutant: the handle is looked up in every table.
CloseAnywhere(r, id) ==
    /\ Free(r)
    /\ id \in holds[r]
    /\ \E q \in Runtimes : id \in OpenIds(q)
    /\ table' = [q \in Runtimes |-> [table[q] EXCEPT ![id] = NoSocket]]
    /\ HangUp({id})
    /\ Replies(r, "ok")
    /\ UNCHANGED <<nextId, alive, above, holds, call, warned>>

\* The handle stays in the program's values; a listener's accepted streams
\* stay open.
Close(r, id) ==
    /\ Free(r)
    /\ Live(r, id)
    /\ table' = [table EXCEPT ![r][id] = NoSocket]
    /\ HangUp({id})
    /\ Replies(r, "ok")
    /\ UNCHANGED <<nextId, alive, above, holds, call, warned>>

\* An operation that ends with an error and changes nothing: any one on a
\* handle that is closed or belongs to another runtime, an accept on what is
\* not a listener or when the table is full, a SEND to a listener or a RECEIVE
\* from one, and a set_timeout outside of its range, whatever the handle is
\* (local_address, accept, send, receive, set_timeout and the socket they ask).
Rejected(r, id) ==
    /\ Free(r)
    /\ id \in holds[r]
    /\ Replies(r, "error")
    /\ UNCHANGED <<nextId, alive, above, table, holds, call, backlog, fate,
                   warned>>

SetTimeout(r, id, timeout) ==
    /\ Free(r)
    /\ Live(r, id)
    /\ table' = [table EXCEPT ![r][id] = Retimed(@, timeout, timeout)]
    /\ Replies(r, "ok")
    /\ UNCHANGED <<nextId, alive, above, holds, call, backlog, fate, warned>>

\* The operating system refuses the read timeout, or only the write timeout.
SetTimeoutFails(r, id, timeout) ==
    /\ Free(r)
    /\ Live(r, id) /\ table[r][id].kind # "listener"
    /\ "timeout" \in Faults
    /\ \E read \in {timeout, table[r][id].read} :
          table' = [table EXCEPT ![r][id] = Retimed(@, read, @.write)]
    /\ warned' = warned \cup {id}
    /\ Replies(r, "error")
    /\ UNCHANGED <<nextId, alive, above, holds, call, backlog, fate>>

-----------------------------------------------------------------------------
(***************************************************************************)
(* accept.  At the top of the loop the elapsed time is compared with the   *)
(* timeout.  A thread that is not scheduled loses time without polling     *)
(* (ClockRuns), so that an accept may time out although a connection has   *)
(* arrived.                                                                *)
(***************************************************************************)
StartAccept(r, id) ==
    /\ Free(r)
    /\ ~Full(r)
    /\ Live(r, id) /\ table[r][id].kind = "listener"
    /\ call' = [call EXCEPT ![r] = Accepting(id, 0)]
    /\ UNCHANGED <<nextId, alive, above, table, holds, reply, backlog, fate,
                   warned>>

Listener(r) == table[r][call[r].id]
Polling(r) == call[r].op = "accept" /\ call[r].elapsed < Listener(r).read

\* Mutant: the clock is read after the connection was taken.
AcceptTimesOutLate(r) ==
    /\ call[r].op = "accept" /\ ~Polling(r)
    /\ IF backlog[call[r].id] = <<>> THEN UNCHANGED <<backlog, fate>>
       ELSE /\ backlog' = [backlog EXCEPT ![call[r].id] = Tail(@)]
            /\ fate' = [fate EXCEPT ![Head(backlog[call[r].id])] = "lost"]
    /\ call' = [call EXCEPT ![r] = Idle]
    /\ Replies(r, "timed out")
    /\ UNCHANGED <<nextId, alive, above, table, holds, warned>>

AcceptTimesOut(r) ==
    /\ call[r].op = "accept" /\ ~Polling(r)
    /\ call' = [call EXCEPT ![r] = Idle]
    /\ Replies(r, "timed out")
    /\ UNCHANGED <<nextId, alive, above, table, holds, backlog, fate, warned>>

\* Mutant: the listener's timeout is used for reads alone.
AcceptTakesHalfConfigured(r) ==
    /\ Polling(r)
    /\ backlog[call[r].id] # <<>>
    /\ LET peer == Head(backlog[call[r].id]) IN
       /\ call' = [call EXCEPT ![r] = Inserting(
           [NewSocket("tcp", Default, peer) EXCEPT !.read = Listener(r).read])]
       /\ fate' = [fate EXCEPT ![peer] = "taken"]
    /\ backlog' = [backlog EXCEPT ![call[r].id] = Tail(@)]
    /\ UNCHANGED <<nextId, alive, above, table, holds, reply, warned>>

\* Mutant: the connection is also left in the queue.
AcceptTakesACopy(r) ==
    /\ Polling(r)
    /\ backlog[call[r].id] # <<>>
    /\ LET peer == Head(backlog[call[r].id]) IN
       /\ call' = [call EXCEPT ![r] =
                      Inserting(NewSocket("tcp", Listener(r).read, peer))]
       /\ fate' = [fate EXCEPT ![peer] = "taken"]
    /\ UNCHANGED <<nextId, alive, above, table, holds, reply, backlog, warned>>

\* The new stream starts with the listener's timeout.
AcceptTakes(r) ==
    /\ Polling(r)
    /\ backlog[call[r].id] # <<>>
    /\ LET peer == Head(backlog[call[r].id]) IN
       /\ call' = [call EXCEPT ![r] =
                      Inserting(NewSocket("tcp", Listener(r).read, peer))]
       /\ fate' = [fate EXCEPT ![peer] = "taken"]
    /\ backlog' = [backlog EXCEPT ![call[r].id] = Tail(@)]
    /\ UNCHANGED <<nextId, alive, above, table, holds, reply, warned>>

\* The accepted stream cannot be configured and is dropped.
AcceptConfigureFails(r) ==
    /\ Polling(r)
    /\ backlog[call[r].id] # <<>>
    /\ "configure" \in Faults
    /\ fate' = [fate EXCEPT ![Head(backlog[call[r].id])] = "lost"]
    /\ backlog' = [backlog EXCEPT ![call[r].id] = Tail(@)]
    /\ call' = [call EXCEPT ![r] = Idle]
    /\ Replies(r, "error")
    /\ UNCHANGED <<nextId, alive, above, table, holds, warned>>

AcceptFails(r) ==
    /\ Polling(r)
    /\ "accept" \in Faults
    /\ call' = [call EXCEPT ![r] = Idle]
    /\ Replies(r, "error")
    /\ UNCHANGED <<nextId, alive, above, table, holds, backlog, fate, warned>>

\* Mutant: the clock starts again with every poll.
AcceptSleepsAnew(r) ==
    /\ Polling(r)
    /\ backlog[call[r].id] = <<>>
    /\ call' = [call EXCEPT ![r] = Accepting(call[r].id, 0)]
    /\ UNCHANGED <<nextId, alive, above, table, holds, reply, backlog, fate,
                   warned>>

\* WouldBlock: sleep 5 ms, or what is left of the timeout.
AcceptSleeps(r) ==
    /\ Polling(r)
    /\ backlog[call[r].id] = <<>>
    /\ \E now \in (call[r].elapsed + 1)..Listener(r).read :
          call' = [call EXCEPT ![r] = Accepting(call[r].id, now)]
    /\ UNCHANGED <<nextId, alive, above, table, holds, reply, backlog, fate,
                   warned>>

ClockRuns(r) ==
    /\ Polling(r)
    /\ \E now \in (call[r].elapsed + 1)..Listener(r).read :
          call' = [call EXCEPT ![r] = Accepting(call[r].id, now)]
    /\ UNCHANGED <<nextId, alive, above, table, holds, reply, backlog, fate,
                   warned>>

AcceptStep(r) ==
    \/ AcceptTakes(r) \/ AcceptConfigureFails(r) \/ AcceptFails(r)
    \/ AcceptSleeps(r) \/ AcceptTimesOut(r)

-----------------------------------------------------------------------------
\* A remote peer's connection reaches an open listener.
PeerConnects(p, id) ==
    /\ fate[p] = "away"
    /\ \E r \in Runtimes : table[r][id].kind = "listener"
    /\ backlog' = [backlog EXCEPT ![id] = Append(@, p)]
    /\ fate' = [fate EXCEPT ![p] = "waiting"]
    /\ UNCHANGED <<nextId, alive, above, table, holds, call, reply, warned>>

Operation(r) ==
    \/ \E kind \in Kinds : Open(r, kind)
    \/ OpenFails(r)
    \/ Insert(r) \/ InsertFails(r)
    \/ \E id \in Ids :
          \/ Close(r, id) \/ Rejected(r, id)
          \/ StartAccept(r, id)
          \/ \E timeout \in Timeouts :
                SetTimeout(r, id, timeout) \/ SetTimeoutFails(r, id, timeout)
    \/ AcceptStep(r) \/ ClockRuns(r)

\* The program is over.
Over == alive = {} /\ UNCHANGED vars

Next ==
    \/ \E r \in Runtimes, w \in Workers : Fork(r, w)
    \/ \E r \in Runtimes : Operation(r) \/ Drop(r)
    \/ \E p \in Peers, id \in Ids : PeerConnects(p, id)
    \/ Over

\* A blocked operation goes on: its thread is scheduled and time passes.
Fairness ==
    \A r \in Runtimes :
        WF_vars(Insert(r) \/ InsertFails(r) \/ AcceptStep(r))

Spec == Init /\ [][Next]_vars /\ Fairness

-----------------------------------------------------------------------------
(***************************************************************************)
(* Properties.                                                             *)
(***************************************************************************)
Call ==
    [op : {"idle", "accept", "insert"}, id : Nat, elapsed : Nat,
     socket : Socket \cup {NoSocket}]
Fates == {"away", "waiting", "taken", "served", "refused", "lost"}

TablesOK ==
    /\ nextId \in 1..MaxId
    /\ alive \subseteq Runtimes
    /\ above \in [Runtimes -> SUBSET Runtimes]
    /\ table \in [Runtimes -> [Ids -> Socket \cup {NoSocket}]]
    /\ holds \in [Runtimes -> SUBSET Ids]
CallsOK ==
    /\ call \in [Runtimes -> Call]
    /\ \A r \in Runtimes :
          /\ call[r].op = "idle" => call[r] = Idle
          /\ call[r].op = "accept" =>
                call[r].id \in Ids /\ Listener(r).kind = "listener"
          /\ call[r].op = "insert" => call[r].socket \in Socket
HistoryOK ==
    /\ reply \in [Runtimes -> {"none", "ok", "error", "timed out"}]
    /\ backlog \in [Ids -> Seq(Peers)]
    /\ fate \in [Peers -> Fates]
    /\ warned \subseteq Ids

\* Every variable has its type; an accept in progress still has its listener.
TypeOK == TablesOK /\ CallsOK /\ HistoryOK

\* No runtime ever has more than Capacity sockets, its own accepted and opened
\* ones together.
CapacityRespected ==
    \A r \in Runtimes : Cardinality(OpenIds(r)) <= Capacity

\* While a worker lives, no operation of any runtime touches the sockets of its
\* parent, or of its parent's parent, although it holds their handles.
ParentUntouched ==
    [][\A w, r \in Runtimes : r \in above[w] => table'[r] = table[r]]_vars

\* The read and write timeouts of a socket agree, unless a set_timeout on it
\* reported an error: also on a stream that inherited its timeout.
TimeoutsAgree ==
    \A r \in Runtimes : \A id \in OpenIds(r) \ warned :
        table[r][id].read = table[r][id].write

\* A waiting connection waits at one open listener, at one position of its
\* queue; a connection that was taken from there is in one runtime's hands or
\* tables at most (its stream may have been closed), and any other nowhere.
ConnectionsAccountedFor ==
    \A p \in Peers :
        /\ \A id, other \in Ids :
              \A k \in 1..Len(backlog[id]), l \in 1..Len(backlog[other]) :
                 backlog[id][k] = p =>
                    /\ fate[p] = "waiting"
                    /\ \E r \in Runtimes : table[r][id].kind = "listener"
                    /\ backlog[other][l] = p => id = other /\ k = l
        /\ fate[p] = "waiting" => \E id \in Ids : p \in Waiting(id)
        /\ Cardinality({place \in Runtimes \X Ids :
                            table[place[1]][place[2]].peer = p})
             + Cardinality({r \in Runtimes : call[r].socket.peer = p})
           <= IF fate[p] \in {"taken", "served"} THEN 1 ELSE 0

\* A connection that was taken from the queue and not delivered is reported:
\* the accept ends with an error, and never with the timeout.
NoSilentLoss ==
    [][\A p \in Peers :
          (fate[p] # "lost" /\ fate'[p] = "lost") =>
              \E r \in Runtimes :
                 call[r] # Idle /\ call'[r] = Idle /\ reply'[r] = "error"]_vars

\* Every accept and every open returns to the program.
CallsReturn == \A r \in Runtimes : (call[r] # Idle) ~> (call[r] = Idle)

-----------------------------------------------------------------------------
(***************************************************************************)
(* The inductive invariant behind the safety properties.                   *)
(***************************************************************************)
\* Only living runtimes do something, own something or keep others waiting,
\* and those that wait live and do nothing.
Quiet ==
    /\ \A r \in Runtimes \ alive :
          call[r] = Idle /\ OpenIds(r) = {} /\ above[r] = {}
    /\ \A w \in Runtimes : \A r \in above[w] : r \in alive /\ call[r] = Idle

\* Open handles were drawn from the counter, each for one runtime.
Drawn ==
    /\ \A r \in Runtimes : \A id \in OpenIds(r) : id < nextId
    /\ \A r, q \in Runtimes : r # q => OpenIds(r) \cap OpenIds(q) = {}

\* The room that an operation found when it started is still there: only this
\* runtime inserts into its table.
RoomLeft ==
    /\ CapacityRespected
    /\ \A r \in Runtimes :
          call[r] # Idle => Cardinality(OpenIds(r)) + 1 <= Capacity

\* The same holds of a socket on its way into the table.
Agreeing ==
    /\ TimeoutsAgree
    /\ \A r \in Runtimes : call[r].socket.read = call[r].socket.write

Inv == TypeOK /\ Quiet /\ Drawn /\ RoomLeft /\ Agreeing

\* A queue belongs to an open listener, and nobody waits twice.
Queued ==
    /\ \A id \in Ids : backlog[id] # <<>> =>
          \E r \in Runtimes : table[r][id].kind = "listener"
    /\ \A id, other \in Ids :
          \A k \in 1..Len(backlog[id]), l \in 1..Len(backlog[other]) :
              backlog[id][k] = backlog[other][l] => id = other /\ k = l
    /\ \A p \in Peers :
          fate[p] = "waiting" <=> \E id \in Ids : p \in Waiting(id)

\* The peer of a connection that is in a table, or on its way into one.
Kept(r, id) == table[r][id].peer
Carried(r) == call[r].socket.peer

\* A connection is kept or carried once, and only after it was taken.
Owned ==
    /\ \A r, q \in Runtimes, id, other \in Ids :
          Kept(r, id) = Kept(q, other) /\ Kept(r, id) \in Peers =>
              r = q /\ id = other
    /\ \A r, q \in Runtimes :
          Carried(r) = Carried(q) /\ Carried(r) \in Peers => r = q
    /\ \A r, q \in Runtimes, id \in Ids :
          Kept(r, id) \in Peers => Kept(r, id) # Carried(q)
    /\ \A r \in Runtimes, id \in Ids :
          Kept(r, id) \in Peers => fate[Kept(r, id)] \in {"taken", "served"}
    /\ \A r \in Runtimes :
          Carried(r) \in Peers => fate[Carried(r)] \in {"taken", "served"}

Accounted == Queued /\ Owned

\* The handles of all runtimes together keep the promise of Handles.
Promise == INSTANCE Handles WITH
    Owners <- Runtimes,
    issued <- 1..(nextId - 1),
    owned <- [r \in Runtimes |-> OpenIds(r)]
ImplementsHandles == Promise!Spec
=============================================================================
