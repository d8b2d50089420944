--------------------------- MODULE TransportProofs ---------------------------
(***************************************************************************)
(* What holds of Transport for every number of workers, peers, handles and *)
(* sockets, every set of timeouts and every combination of failures.       *)
(***************************************************************************)
EXTENDS Transport, TLAPS, FiniteSetTheorems

\* Sockets are told from the absence of one by their kind.
LEMMA SocketFacts ==
    /\ NoSocket \notin Socket
    /\ NoSocket.kind = "none" /\ NoSocket.read = NoSocket.write
    /\ \A s \in Socket : /\ s.kind \in SocketKinds
                         /\ s.read \in Timeouts /\ s.write \in Timeouts
    /\ \A kind \in SocketKinds, t \in Timeouts, p \in Peers \cup {NoPeer} :
          /\ NewSocket(kind, t, p) \in Socket
          /\ NewSocket(kind, t, p).kind = kind
          /\ NewSocket(kind, t, p).read = t
          /\ NewSocket(kind, t, p).write = t
    /\ "none" \notin SocketKinds
    /\ "listener" \in SocketKinds /\ "tcp" \in SocketKinds
  BY DEF NoSocket, Socket, NewSocket, SocketKinds

\* A socket with other timeouts is a socket of the same kind.
LEMMA RetimedFacts ==
    ASSUME NEW s \in Socket, NEW read \in Timeouts, NEW write \in Timeouts
    PROVE  /\ Retimed(s, read, write) \in Socket
           /\ Retimed(s, read, write).kind = s.kind
           /\ Retimed(s, read, write).read = read
           /\ Retimed(s, read, write).write = write
  BY DEF Socket, Retimed

\* The three kinds of call.
LEMMA CallFacts ==
    /\ Idle \in Call /\ Idle.op = "idle" /\ Idle.socket = NoSocket
    /\ \A id \in Nat, e \in Nat :
          /\ Accepting(id, e) \in Call /\ Accepting(id, e).op = "accept"
          /\ Accepting(id, e).id = id
          /\ Accepting(id, e).socket = NoSocket
    /\ \A s \in Socket :
          /\ Inserting(s) \in Call /\ Inserting(s).op = "insert"
          /\ Inserting(s).socket = s
    /\ \A c \in Call :
          /\ c.op \in {"idle", "accept", "insert"}
          /\ c.elapsed \in Nat
  BY DEF Idle, Accepting, Inserting, Call

\* The counter, the set of runtimes and the tables keep their types.
LEMMA TablesStep ==
    ASSUME Inv, [Next]_vars
    PROVE  TablesOK'
  <1> USE TransportAssumption, SocketFacts DEF Inv, TypeOK
  <1>1. ASSUME NEW r \in Runtimes, NEW w \in Workers, Fork(r, w)
        PROVE  TablesOK'
    BY <1>1 DEF Fork, TablesOK, NoTable, Runtimes
  <1>2. ASSUME NEW r \in Runtimes, Drop(r)
        PROVE  TablesOK'
    BY <1>2 DEF Drop, TablesOK, NoTable
  <1>3. ASSUME NEW r \in Runtimes, NEW kind \in Kinds, Open(r, kind)
        PROVE  TablesOK'
    BY <1>3 DEF Open, TablesOK
  <1>4. ASSUME NEW r \in Runtimes, OpenFails(r)
        PROVE  TablesOK'
    BY <1>4 DEF OpenFails, TablesOK
  <1>5. ASSUME NEW r \in Runtimes, Insert(r)
        PROVE  TablesOK'
    BY <1>5 DEF Insert, TablesOK, CallsOK, Ids
  <1>6. ASSUME NEW r \in Runtimes, InsertFails(r)
        PROVE  TablesOK'
    BY <1>6 DEF InsertFails, TablesOK
  <1>7. ASSUME NEW r \in Runtimes, NEW id \in Ids, Close(r, id)
        PROVE  TablesOK'
    BY <1>7 DEF Close, TablesOK
  <1>8. ASSUME NEW r \in Runtimes, NEW id \in Ids, Rejected(r, id)
        PROVE  TablesOK'
    BY <1>8 DEF Rejected, TablesOK
  <1>9. ASSUME NEW r \in Runtimes, NEW id \in Ids,
             NEW timeout \in Timeouts, SetTimeout(r, id, timeout)
        PROVE  TablesOK'
    <2>1. table[r][id] \in Socket
      BY <1>9 DEF SetTimeout, Live, OpenIds, TablesOK
    <2> QED
      BY <1>9, <2>1, RetimedFacts DEF SetTimeout, TablesOK
  <1>10. ASSUME NEW r \in Runtimes, NEW id \in Ids,
             NEW timeout \in Timeouts, SetTimeoutFails(r, id, timeout)
        PROVE  TablesOK'
    <2>1. table[r][id] \in Socket
      BY <1>10 DEF SetTimeoutFails, Live, OpenIds, TablesOK
    <2>2. PICK read \in {timeout, table[r][id].read} :
             table' = [table EXCEPT ![r][id] = Retimed(@, read, @.write)]
      BY <1>10 DEF SetTimeoutFails
    <2>3. read \in Timeouts /\ table[r][id].write \in Timeouts
      BY <2>1, <2>2
    <2>4. Retimed(table[r][id], read, table[r][id].write) \in Socket
      BY <2>1, <2>3, RetimedFacts
    <2> QED
      BY <1>10, <2>2, <2>4 DEF SetTimeoutFails, TablesOK
  <1>11. ASSUME NEW r \in Runtimes, NEW id \in Ids, StartAccept(r, id)
        PROVE  TablesOK'
    BY <1>11 DEF StartAccept, TablesOK
  <1>12. ASSUME NEW r \in Runtimes, AcceptTakes(r)
        PROVE  TablesOK'
    BY <1>12 DEF AcceptTakes, TablesOK
  <1>13. ASSUME NEW r \in Runtimes, AcceptConfigureFails(r)
        PROVE  TablesOK'
    BY <1>13 DEF AcceptConfigureFails, TablesOK
  <1>14. ASSUME NEW r \in Runtimes, AcceptFails(r)
        PROVE  TablesOK'
    BY <1>14 DEF AcceptFails, TablesOK
  <1>15. ASSUME NEW r \in Runtimes, AcceptSleeps(r)
        PROVE  TablesOK'
    BY <1>15 DEF AcceptSleeps, TablesOK
  <1>16. ASSUME NEW r \in Runtimes, AcceptTimesOut(r)
        PROVE  TablesOK'
    BY <1>16 DEF AcceptTimesOut, TablesOK
  <1>17. ASSUME NEW r \in Runtimes, ClockRuns(r)
        PROVE  TablesOK'
    BY <1>17 DEF ClockRuns, TablesOK
  <1>18. ASSUME NEW p \in Peers, NEW id \in Ids, PeerConnects(p, id)
        PROVE  TablesOK'
    BY <1>18 DEF PeerConnects, TablesOK
  <1>19. CASE UNCHANGED vars
    BY <1>19 DEF vars, TablesOK
  <1> QED
    BY <1>1, <1>2, <1>3, <1>4, <1>5, <1>6, <1>7, <1>8, <1>9, <1>10, <1>11,
       <1>12, <1>13, <1>14, <1>15, <1>16, <1>17, <1>18, <1>19
       DEF Next, Operation, AcceptStep, Over

\* A call that ends leaves the other calls as they are.
LEMMA CallEnds ==
    ASSUME Inv, NEW r \in Runtimes,
           call' = [call EXCEPT ![r] = Idle], UNCHANGED table
    PROVE  CallsOK'
  BY CallFacts DEF Inv, TypeOK, CallsOK, Listener

\* Calls keep their type, and the listener of an accept stays in its table.
LEMMA CallsStep ==
    ASSUME Inv, [Next]_vars
    PROVE  CallsOK'
  <1> USE TransportAssumption, SocketFacts, CallFacts
      DEF Inv, TypeOK, TablesOK, CallsOK
  <1>1. ASSUME NEW r \in Runtimes, NEW w \in Workers, Fork(r, w)
        PROVE  CallsOK'
    BY <1>1 DEF Fork, Listener, Quiet
  <1>2. ASSUME NEW r \in Runtimes, Drop(r)
        PROVE  CallsOK'
    BY <1>2 DEF Drop, Free, Listener
  <1>3. ASSUME NEW r \in Runtimes, NEW kind \in Kinds, Open(r, kind)
        PROVE  CallsOK'
    BY <1>3 DEF Open, Free, Listener
  <1>4. ASSUME NEW r \in Runtimes, OpenFails(r)
        PROVE  CallsOK'
    BY <1>4 DEF OpenFails, Listener
  <1>5. ASSUME NEW r \in Runtimes, Insert(r)
        PROVE  CallsOK'
    BY <1>5 DEF Insert, Listener
  <1>6. ASSUME NEW r \in Runtimes, InsertFails(r)
        PROVE  CallsOK'
    BY <1>6, CallEnds DEF InsertFails
  <1>7. ASSUME NEW r \in Runtimes, NEW id \in Ids, Close(r, id)
        PROVE  CallsOK'
    BY <1>7 DEF Close, Free, Listener
  <1>8. ASSUME NEW r \in Runtimes, NEW id \in Ids, Rejected(r, id)
        PROVE  CallsOK'
    BY <1>8 DEF Rejected, Listener
  <1>9. ASSUME NEW r \in Runtimes, NEW id \in Ids,
             NEW timeout \in Timeouts, SetTimeout(r, id, timeout)
        PROVE  CallsOK'
    BY <1>9 DEF SetTimeout, Free, Listener
  <1>10. ASSUME NEW r \in Runtimes, NEW id \in Ids,
             NEW timeout \in Timeouts, SetTimeoutFails(r, id, timeout)
        PROVE  CallsOK'
    BY <1>10 DEF SetTimeoutFails, Free, Listener
  <1>11. ASSUME NEW r \in Runtimes, NEW id \in Ids, StartAccept(r, id)
        PROVE  CallsOK'
    <2>1. id \in Nat
      BY DEF Ids
    <2> QED
      BY <1>11, <2>1 DEF StartAccept, Free, Live, Listener
  <1>12. ASSUME NEW r \in Runtimes, AcceptTakes(r)
        PROVE  CallsOK'
    <2>1. call[r].op = "accept" /\ call[r].id \in Ids
      BY <1>12 DEF AcceptTakes, Polling
    <2>2. Listener(r) \in Socket
      BY <2>1 DEF Listener
    <2>a. backlog[call[r].id] \in Seq(Peers) /\ backlog[call[r].id] # <<>>
      BY <1>12, <2>1 DEF AcceptTakes, HistoryOK
    <2>3. Head(backlog[call[r].id]) \in Peers
      BY <2>a
    <2> DEFINE socket == NewSocket("tcp", Listener(r).read,
                                   Head(backlog[call[r].id]))
    <2>4. socket \in Socket
      BY <2>2, <2>3
    <2>5. call' = [call EXCEPT ![r] = Inserting(socket)] /\ UNCHANGED table
      BY <1>12 DEF AcceptTakes
    <2> HIDE DEF socket
    <2> QED
      BY <2>4, <2>5 DEF Listener
  <1>13. ASSUME NEW r \in Runtimes, AcceptConfigureFails(r)
        PROVE  CallsOK'
    BY <1>13, CallEnds DEF AcceptConfigureFails
  <1>14. ASSUME NEW r \in Runtimes, AcceptFails(r)
        PROVE  CallsOK'
    BY <1>14, CallEnds DEF AcceptFails
  <1>15. ASSUME NEW r \in Runtimes, AcceptSleeps(r)
        PROVE  CallsOK'
    <2>1. PICK now \in (call[r].elapsed + 1)..Listener(r).read :
             call' = [call EXCEPT ![r] = Accepting(call[r].id, now)]
      BY <1>15 DEF AcceptSleeps
    <2>2. call[r].op = "accept" /\ call[r].id \in Ids
      BY <1>15 DEF AcceptSleeps, Polling
    <2>a. Listener(r) \in Socket
      BY <2>2 DEF Listener
    <2>3. Listener(r).read \in Nat
      BY <2>a
    <2>4. call[r].id \in Nat /\ now \in Nat
      BY <2>1, <2>2, <2>3 DEF Ids
    <2> QED
      BY <1>15, <2>1, <2>2, <2>4 DEF AcceptSleeps, Listener
  <1>16. ASSUME NEW r \in Runtimes, AcceptTimesOut(r)
        PROVE  CallsOK'
    BY <1>16, CallEnds DEF AcceptTimesOut
  <1>17. ASSUME NEW r \in Runtimes, ClockRuns(r)
        PROVE  CallsOK'
    <2>1. PICK now \in (call[r].elapsed + 1)..Listener(r).read :
             call' = [call EXCEPT ![r] = Accepting(call[r].id, now)]
      BY <1>17 DEF ClockRuns
    <2>2. call[r].op = "accept" /\ call[r].id \in Ids
      BY <1>17 DEF ClockRuns, Polling
    <2>a. Listener(r) \in Socket
      BY <2>2 DEF Listener
    <2>3. Listener(r).read \in Nat
      BY <2>a
    <2>4. call[r].id \in Nat /\ now \in Nat
      BY <2>1, <2>2, <2>3 DEF Ids
    <2> QED
      BY <1>17, <2>1, <2>2, <2>4 DEF ClockRuns, Listener
  <1>18. ASSUME NEW p \in Peers, NEW id \in Ids, PeerConnects(p, id)
        PROVE  CallsOK'
    BY <1>18 DEF PeerConnects, Listener
  <1>19. CASE UNCHANGED vars
    BY <1>19 DEF vars, Listener
  <1> QED
    BY <1>1, <1>2, <1>3, <1>4, <1>5, <1>6, <1>7, <1>8, <1>9, <1>10, <1>11,
       <1>12, <1>13, <1>14, <1>15, <1>16, <1>17, <1>18, <1>19
       DEF Next, Operation, AcceptStep, Over

\* A listener that disappears takes what waits there with it.
LEMMA HangUpFacts ==
    ASSUME HistoryOK, NEW ids, HangUp(ids)
    PROVE  backlog' \in [Ids -> Seq(Peers)] /\ fate' \in [Peers -> Fates]
  <1>0. <<>> \in Seq(Peers)
    OBVIOUS
  <1>1. backlog' \in [Ids -> Seq(Peers)]
    BY <1>0 DEF HangUp, HistoryOK
  <1>2. fate' \in [Peers -> Fates]
    BY DEF HangUp, HistoryOK, Fates
  <1> QED
    BY <1>1, <1>2

\* The replies, the queues and the histories keep their types.
LEMMA HistoryStep ==
    ASSUME Inv, [Next]_vars
    PROVE  HistoryOK'
  <1> USE DEF Inv, TypeOK, Replies
  <1>1. ASSUME NEW r \in Runtimes, NEW w \in Workers, Fork(r, w)
        PROVE  HistoryOK'
    BY <1>1 DEF Fork, HistoryOK
  <1>2. ASSUME NEW r \in Runtimes, Drop(r)
        PROVE  HistoryOK'
    BY <1>2, HangUpFacts DEF Drop, HistoryOK
  <1>3. ASSUME NEW r \in Runtimes, NEW kind \in Kinds, Open(r, kind)
        PROVE  HistoryOK'
    BY <1>3 DEF Open, HistoryOK
  <1>4. ASSUME NEW r \in Runtimes, OpenFails(r)
        PROVE  HistoryOK'
    BY <1>4 DEF OpenFails, HistoryOK
  <1>5. ASSUME NEW r \in Runtimes, Insert(r)
        PROVE  HistoryOK'
    BY <1>5 DEF Insert, HistoryOK, Fates
  <1>6. ASSUME NEW r \in Runtimes, InsertFails(r)
        PROVE  HistoryOK'
    BY <1>6 DEF InsertFails, HistoryOK, Fates
  <1>7. ASSUME NEW r \in Runtimes, NEW id \in Ids, Close(r, id)
        PROVE  HistoryOK'
    BY <1>7, HangUpFacts DEF Close, HistoryOK
  <1>8. ASSUME NEW r \in Runtimes, NEW id \in Ids, Rejected(r, id)
        PROVE  HistoryOK'
    BY <1>8 DEF Rejected, HistoryOK
  <1>9. ASSUME NEW r \in Runtimes, NEW id \in Ids,
             NEW timeout \in Timeouts, SetTimeout(r, id, timeout)
        PROVE  HistoryOK'
    BY <1>9 DEF SetTimeout, HistoryOK
  <1>10. ASSUME NEW r \in Runtimes, NEW id \in Ids,
             NEW timeout \in Timeouts, SetTimeoutFails(r, id, timeout)
        PROVE  HistoryOK'
    BY <1>10 DEF SetTimeoutFails, HistoryOK
  <1>11. ASSUME NEW r \in Runtimes, NEW id \in Ids, StartAccept(r, id)
        PROVE  HistoryOK'
    BY <1>11 DEF StartAccept, HistoryOK
  <1>12. ASSUME NEW r \in Runtimes, AcceptTakes(r)
        PROVE  HistoryOK'
    <2>1. call[r].op = "accept" /\ call[r].id \in Ids
      BY <1>12 DEF AcceptTakes, Polling, CallsOK
    <2>2. backlog[call[r].id] \in Seq(Peers) /\ backlog[call[r].id] # <<>>
      BY <1>12, <2>1 DEF AcceptTakes, HistoryOK
    <2>3. /\ Head(backlog[call[r].id]) \in Peers
          /\ Tail(backlog[call[r].id]) \in Seq(Peers)
      BY <2>2
    <2> QED
      BY <1>12, <2>1, <2>3 DEF AcceptTakes, HistoryOK, Fates
  <1>13. ASSUME NEW r \in Runtimes, AcceptConfigureFails(r)
        PROVE  HistoryOK'
    <2>1. call[r].op = "accept" /\ call[r].id \in Ids
      BY <1>13 DEF AcceptConfigureFails, Polling, CallsOK
    <2>2. backlog[call[r].id] \in Seq(Peers) /\ backlog[call[r].id] # <<>>
      BY <1>13, <2>1 DEF AcceptConfigureFails, HistoryOK
    <2>3. /\ Head(backlog[call[r].id]) \in Peers
          /\ Tail(backlog[call[r].id]) \in Seq(Peers)
      BY <2>2
    <2> QED
      BY <1>13, <2>1, <2>3 DEF AcceptConfigureFails, HistoryOK, Fates
  <1>14. ASSUME NEW r \in Runtimes, AcceptFails(r)
        PROVE  HistoryOK'
    BY <1>14 DEF AcceptFails, HistoryOK
  <1>15. ASSUME NEW r \in Runtimes, AcceptSleeps(r)
        PROVE  HistoryOK'
    BY <1>15 DEF AcceptSleeps, HistoryOK
  <1>16. ASSUME NEW r \in Runtimes, AcceptTimesOut(r)
        PROVE  HistoryOK'
    BY <1>16 DEF AcceptTimesOut, HistoryOK
  <1>17. ASSUME NEW r \in Runtimes, ClockRuns(r)
        PROVE  HistoryOK'
    BY <1>17 DEF ClockRuns, HistoryOK
  <1>18. ASSUME NEW p \in Peers, NEW id \in Ids, PeerConnects(p, id)
        PROVE  HistoryOK'
    <2>0. backlog[id] \in Seq(Peers)
      BY DEF HistoryOK
    <2>1. Append(backlog[id], p) \in Seq(Peers)
      BY <2>0
    <2> QED
      BY <1>18, <2>1 DEF PeerConnects, HistoryOK, Fates
  <1>19. CASE UNCHANGED vars
    BY <1>19 DEF vars, HistoryOK
  <1> QED
    BY <1>1, <1>2, <1>3, <1>4, <1>5, <1>6, <1>7, <1>8, <1>9, <1>10, <1>11,
       <1>12, <1>13, <1>14, <1>15, <1>16, <1>17, <1>18, <1>19
       DEF Next, Operation, AcceptStep, Over

-----------------------------------------------------------------------------
\* What a step does to the open handles: nothing, or it inserts the number
\* drawn, closes one handle, or drops a runtime with all of its handles.
SameHandles ==
    nextId' = nextId /\ \A q \in Runtimes : OpenIds(q)' = OpenIds(q)
Inserts(r) ==
    /\ Insert(r)
    /\ nextId \in Ids /\ nextId' = nextId + 1
    /\ \A q \in Runtimes :
          OpenIds(q)' = IF q = r THEN OpenIds(q) \cup {nextId} ELSE OpenIds(q)
Closes(r, id) ==
    /\ Close(r, id)
    /\ nextId' = nextId /\ id \in OpenIds(r)
    /\ \A q \in Runtimes :
          OpenIds(q)' = IF q = r THEN OpenIds(q) \ {id} ELSE OpenIds(q)
Drops(r) ==
    /\ Drop(r)
    /\ nextId' = nextId
    /\ \A q \in Runtimes : OpenIds(q)' = IF q = r THEN {} ELSE OpenIds(q)
HandlesStep ==
    \/ SameHandles
    \/ \E r \in Runtimes : Inserts(r)
    \/ \E r \in Runtimes, id \in Ids : Closes(r, id)
    \/ \E r \in Runtimes : Drops(r)

\* No step does anything else to the open handles.
LEMMA HandlesLemma ==
    ASSUME Inv, [Next]_vars
    PROVE  HandlesStep
  <1> USE DEF Inv, TypeOK, TablesOK
  <1>a. ASSUME UNCHANGED <<nextId, table>> PROVE HandlesStep
    BY <1>a DEF HandlesStep, SameHandles, OpenIds
  <1>1. ASSUME NEW r \in Runtimes, NEW w \in Workers, Fork(r, w)
        PROVE  HandlesStep
    BY <1>1 DEF Fork, NoTable, Quiet, OpenIds, HandlesStep,
       SameHandles, Runtimes
  <1>2. ASSUME NEW r \in Runtimes, Drop(r)
        PROVE  HandlesStep
    <2>1. \A q \in Runtimes : OpenIds(q)' = IF q = r THEN {} ELSE OpenIds(q)
      BY <1>2 DEF Drop, NoTable, OpenIds
    <2> QED
      BY <1>2, <2>1 DEF HandlesStep, Drops, Drop
  <1>3. ASSUME NEW r \in Runtimes, NEW kind \in Kinds, Open(r, kind)
        PROVE  HandlesStep
    BY <1>3, <1>a DEF Open
  <1>4. ASSUME NEW r \in Runtimes, OpenFails(r)
        PROVE  HandlesStep
    BY <1>4, <1>a DEF OpenFails
  <1>5. ASSUME NEW r \in Runtimes, Insert(r)
        PROVE  HandlesStep
    <2>1. call[r].socket \in Socket
      BY <1>5 DEF Insert, CallsOK
    <2>2. call[r].socket # NoSocket
      BY <2>1, SocketFacts
    <2>3. nextId \in Ids /\ nextId' = nextId + 1
      BY <1>5, TransportAssumption DEF Insert, Ids
    <2>4. table' = [table EXCEPT ![r][nextId] = call[r].socket]
      BY <1>5 DEF Insert
    <2>5. \A q \in Runtimes :
             OpenIds(q)' = IF q = r THEN OpenIds(q) \cup {nextId}
                                    ELSE OpenIds(q)
      BY <2>2, <2>3, <2>4 DEF OpenIds
    <2> QED
      BY <1>5, <2>3, <2>5 DEF HandlesStep, Inserts
  <1>6. ASSUME NEW r \in Runtimes, InsertFails(r)
        PROVE  HandlesStep
    BY <1>6, <1>a DEF InsertFails
  <1>7. ASSUME NEW r \in Runtimes, NEW id \in Ids, Close(r, id)
        PROVE  HandlesStep
    <2>1. table' = [table EXCEPT ![r][id] = NoSocket] /\ nextId' = nextId
      BY <1>7 DEF Close
    <2>2. id \in OpenIds(r)
      BY <1>7 DEF Close, Live
    <2>3. \A q \in Runtimes :
             OpenIds(q)' = IF q = r THEN OpenIds(q) \ {id} ELSE OpenIds(q)
      BY <2>1 DEF OpenIds
    <2> QED
      BY <1>7, <2>1, <2>2, <2>3 DEF HandlesStep, Closes
  <1>8. ASSUME NEW r \in Runtimes, NEW id \in Ids, Rejected(r, id)
        PROVE  HandlesStep
    BY <1>8, <1>a DEF Rejected
  <1>9. ASSUME NEW r \in Runtimes, NEW id \in Ids,
             NEW timeout \in Timeouts, SetTimeout(r, id, timeout)
        PROVE  HandlesStep
    <2>1. table[r][id] \in Socket
      BY <1>9 DEF SetTimeout, Live, OpenIds
    <2> DEFINE new == Retimed(table[r][id], timeout, timeout)
    <2>4. new \in Socket
      BY <2>1, RetimedFacts
    <2>5. table' = [table EXCEPT ![r][id] = new] /\ nextId' = nextId
      BY <1>9 DEF SetTimeout
    <2> HIDE DEF new
    <2>6. table[r][id] # NoSocket /\ new # NoSocket
      BY <2>1, <2>4, SocketFacts
    <2> QED
      BY <2>5, <2>6 DEF HandlesStep, SameHandles, OpenIds
  <1>10. ASSUME NEW r \in Runtimes, NEW id \in Ids,
             NEW timeout \in Timeouts, SetTimeoutFails(r, id, timeout)
        PROVE  HandlesStep
    <2>1. table[r][id] \in Socket
      BY <1>10 DEF SetTimeoutFails, Live, OpenIds
    <2>2. PICK read \in {timeout, table[r][id].read} :
             table' = [table EXCEPT ![r][id] = Retimed(@, read, @.write)]
      BY <1>10 DEF SetTimeoutFails
    <2> DEFINE new == Retimed(table[r][id], read, table[r][id].write)
    <2>3. read \in Timeouts /\ table[r][id].write \in Timeouts
      BY <2>1, SocketFacts
    <2>4. new \in Socket
      BY <2>1, <2>3, RetimedFacts
    <2>5. table' = [table EXCEPT ![r][id] = new] /\ nextId' = nextId
      BY <1>10, <2>2 DEF SetTimeoutFails
    <2> HIDE DEF new
    <2>6. table[r][id] # NoSocket /\ new # NoSocket
      BY <2>1, <2>4, SocketFacts
    <2> QED
      BY <2>5, <2>6 DEF HandlesStep, SameHandles, OpenIds
  <1>11. ASSUME NEW r \in Runtimes, NEW id \in Ids, StartAccept(r, id)
        PROVE  HandlesStep
    BY <1>11, <1>a DEF StartAccept
  <1>12. ASSUME NEW r \in Runtimes, AcceptTakes(r)
        PROVE  HandlesStep
    BY <1>12, <1>a DEF AcceptTakes
  <1>13. ASSUME NEW r \in Runtimes, AcceptConfigureFails(r)
        PROVE  HandlesStep
    BY <1>13, <1>a DEF AcceptConfigureFails
  <1>14. ASSUME NEW r \in Runtimes, AcceptFails(r)
        PROVE  HandlesStep
    BY <1>14, <1>a DEF AcceptFails
  <1>15. ASSUME NEW r \in Runtimes, AcceptSleeps(r)
        PROVE  HandlesStep
    BY <1>15, <1>a DEF AcceptSleeps
  <1>16. ASSUME NEW r \in Runtimes, AcceptTimesOut(r)
        PROVE  HandlesStep
    BY <1>16, <1>a DEF AcceptTimesOut
  <1>17. ASSUME NEW r \in Runtimes, ClockRuns(r)
        PROVE  HandlesStep
    BY <1>17, <1>a DEF ClockRuns
  <1>18. ASSUME NEW p \in Peers, NEW id \in Ids, PeerConnects(p, id)
        PROVE  HandlesStep
    BY <1>18, <1>a DEF PeerConnects
  <1>19. CASE UNCHANGED vars
    BY <1>19, <1>a DEF vars
  <1> QED
    BY <1>1, <1>2, <1>3, <1>4, <1>5, <1>6, <1>7, <1>8, <1>9, <1>10, <1>11,
       <1>12, <1>13, <1>14, <1>15, <1>16, <1>17, <1>18, <1>19
       DEF Next, Operation, AcceptStep, Over

\* Open handles stay numbers drawn from the counter, each in one table.
LEMMA DrawnStep ==
    ASSUME Inv, [Next]_vars
    PROVE  Drawn'
  <1> USE DEF Inv, TypeOK, TablesOK
  <1>0. nextId \in Nat /\ \A r \in Runtimes : OpenIds(r) \subseteq Nat
    BY TransportAssumption DEF OpenIds, Ids
  <1>1. CASE SameHandles
    BY <1>1 DEF SameHandles, Drawn
  <1>2. ASSUME NEW r \in Runtimes, Inserts(r) PROVE Drawn'
    <2>1. \A q \in Runtimes : nextId \notin OpenIds(q)
      BY <1>0 DEF Drawn
    <2> QED
      BY <1>0, <1>2, <2>1 DEF Inserts, Drawn
  <1>3. ASSUME NEW r \in Runtimes, NEW id \in Ids, Closes(r, id)
        PROVE  Drawn'
    BY <1>0, <1>3 DEF Closes, Drawn
  <1>4. ASSUME NEW r \in Runtimes, Drops(r) PROVE Drawn'
    BY <1>0, <1>4 DEF Drops, Drawn
  <1> QED
    BY <1>1, <1>2, <1>3, <1>4, HandlesLemma DEF HandlesStep

-----------------------------------------------------------------------------
\* Whoever starts or ends a call lives, and nobody that others keep waiting
\* starts one.
LEMMA QuietStep ==
    ASSUME Inv, [Next]_vars
    PROVE  Quiet'
  <1> USE TransportAssumption, CallFacts
      DEF Inv, TypeOK, TablesOK, CallsOK, Quiet, Runtimes
  <1>a. ASSUME UNCHANGED <<table, alive, above, call>> PROVE Quiet'
    BY <1>a DEF OpenIds
  <1>b. ASSUME NEW r \in Runtimes, r \in alive,
               \A w \in Runtimes : r \notin above[w],
               NEW c, call' = [call EXCEPT ![r] = c],
               UNCHANGED <<table, alive, above>>
        PROVE  Quiet'
    BY <1>b DEF OpenIds
  <1>c. ASSUME NEW r \in Runtimes, call' = [call EXCEPT ![r] = Idle],
               UNCHANGED <<table, alive, above>>
        PROVE  Quiet'
    BY <1>c DEF OpenIds
  <1>d. ASSUME NEW r \in Runtimes, call[r].op = "accept"
        PROVE  r \in alive /\ \A w \in Runtimes : r \notin above[w]
    BY <1>d
  <1>1. ASSUME NEW r \in Runtimes, NEW w \in Workers, Fork(r, w)
        PROVE  Quiet'
    BY <1>1 DEF Fork, Free, OpenIds, NoTable
  <1>2. ASSUME NEW r \in Runtimes, Drop(r)
        PROVE  Quiet'
    BY <1>2 DEF Drop, Free, OpenIds, NoTable
  <1>3. ASSUME NEW r \in Runtimes, NEW kind \in Kinds, Open(r, kind)
        PROVE  Quiet'
    BY <1>3, <1>b DEF Open, Free
  <1>4. ASSUME NEW r \in Runtimes, OpenFails(r)
        PROVE  Quiet'
    BY <1>4, <1>a DEF OpenFails
  <1>5. ASSUME NEW r \in Runtimes, Insert(r)
        PROVE  Quiet'
    BY <1>5 DEF Insert, Free, OpenIds, NoTable
  <1>6. ASSUME NEW r \in Runtimes, InsertFails(r)
        PROVE  Quiet'
    BY <1>6, <1>c DEF InsertFails
  <1>7. ASSUME NEW r \in Runtimes, NEW id \in Ids, Close(r, id)
        PROVE  Quiet'
    BY <1>7 DEF Close, Free, OpenIds, NoTable
  <1>8. ASSUME NEW r \in Runtimes, NEW id \in Ids, Rejected(r, id)
        PROVE  Quiet'
    BY <1>8, <1>a DEF Rejected
  <1>9. ASSUME NEW r \in Runtimes, NEW id \in Ids,
             NEW timeout \in Timeouts, SetTimeout(r, id, timeout)
        PROVE  Quiet'
    BY <1>9 DEF SetTimeout, Free, OpenIds, NoTable
  <1>10. ASSUME NEW r \in Runtimes, NEW id \in Ids,
             NEW timeout \in Timeouts, SetTimeoutFails(r, id, timeout)
        PROVE  Quiet'
    BY <1>10 DEF SetTimeoutFails, Free, OpenIds, NoTable
  <1>11. ASSUME NEW r \in Runtimes, NEW id \in Ids, StartAccept(r, id)
        PROVE  Quiet'
    BY <1>11, <1>b DEF StartAccept, Free
  <1>12. ASSUME NEW r \in Runtimes, AcceptTakes(r)
        PROVE  Quiet'
    <2>1. r \in alive /\ \A w \in Runtimes : r \notin above[w]
      BY <1>12, <1>d DEF AcceptTakes, Polling
    <2>2. PICK c : call' = [call EXCEPT ![r] = c]
      BY <1>12 DEF AcceptTakes
    <2>3. UNCHANGED <<table, alive, above>>
      BY <1>12 DEF AcceptTakes
    <2> QED
      BY <1>b, <2>1, <2>2, <2>3
  <1>13. ASSUME NEW r \in Runtimes, AcceptConfigureFails(r)
        PROVE  Quiet'
    BY <1>13, <1>c DEF AcceptConfigureFails
  <1>14. ASSUME NEW r \in Runtimes, AcceptFails(r)
        PROVE  Quiet'
    BY <1>14, <1>c DEF AcceptFails
  <1>15. ASSUME NEW r \in Runtimes, AcceptSleeps(r)
        PROVE  Quiet'
    <2>1. r \in alive /\ \A w \in Runtimes : r \notin above[w]
      BY <1>15, <1>d DEF AcceptSleeps, Polling
    <2>2. PICK c : call' = [call EXCEPT ![r] = c]
      BY <1>15 DEF AcceptSleeps
    <2>3. UNCHANGED <<table, alive, above>>
      BY <1>15 DEF AcceptSleeps
    <2> QED
      BY <1>b, <2>1, <2>2, <2>3
  <1>16. ASSUME NEW r \in Runtimes, AcceptTimesOut(r)
        PROVE  Quiet'
    BY <1>16, <1>c DEF AcceptTimesOut
  <1>17. ASSUME NEW r \in Runtimes, ClockRuns(r)
        PROVE  Quiet'
    <2>1. r \in alive /\ \A w \in Runtimes : r \notin above[w]
      BY <1>17, <1>d DEF ClockRuns, Polling
    <2>2. PICK c : call' = [call EXCEPT ![r] = c]
      BY <1>17 DEF ClockRuns
    <2>3. UNCHANGED <<table, alive, above>>
      BY <1>17 DEF ClockRuns
    <2> QED
      BY <1>b, <2>1, <2>2, <2>3
  <1>18. ASSUME NEW p \in Peers, NEW id \in Ids, PeerConnects(p, id)
        PROVE  Quiet'
    BY <1>18, <1>a DEF PeerConnects
  <1>19. CASE UNCHANGED vars
    BY <1>19, <1>a DEF vars
  <1> QED
    BY <1>1, <1>2, <1>3, <1>4, <1>5, <1>6, <1>7, <1>8, <1>9, <1>10, <1>11,
       <1>12, <1>13, <1>14, <1>15, <1>16, <1>17, <1>18, <1>19
       DEF Next, Operation, AcceptStep, Over

\* Tables are finite.
LEMMA TableFinite ==
    ASSUME NEW r \in Runtimes
    PROVE  IsFiniteSet(OpenIds(r)) /\ Cardinality(OpenIds(r)) \in Nat
  <1>1. IsFiniteSet(Ids)
    BY TransportAssumption, FS_Interval DEF Ids
  <1>2. OpenIds(r) \subseteq Ids
    BY DEF OpenIds
  <1> QED
    BY <1>1, <1>2, FS_Subset, FS_CardinalityType

\* A call starts only in a runtime with room.
CallsStart ==
    \/ \A q \in Runtimes : call'[q] # Idle => call[q] # Idle
    \/ \E r \in Runtimes :
          ~Full(r) /\ \A q \in Runtimes \ {r} : call'[q] = call[q]

\* No step starts a call in a full runtime.
LEMMA CallsStartWithRoom ==
    ASSUME Inv, [Next]_vars
    PROVE  CallsStart
  <1> USE DEF Inv, TypeOK, CallsOK, CallsStart
  <1>a. ASSUME NEW r \in Runtimes, NEW c, call[r] # Idle \/ c = Idle,
               call' = [call EXCEPT ![r] = c]
        PROVE  CallsStart
    BY <1>a
  <1>b. ASSUME UNCHANGED call PROVE CallsStart
    BY <1>b
  <1>1. ASSUME NEW r \in Runtimes, NEW w \in Workers, Fork(r, w)
        PROVE  CallsStart
    BY <1>1, <1>b DEF Fork
  <1>2. ASSUME NEW r \in Runtimes, Drop(r)
        PROVE  CallsStart
    BY <1>2, <1>b DEF Drop
  <1>3. ASSUME NEW r \in Runtimes, NEW kind \in Kinds, Open(r, kind)
        PROVE  CallsStart
    BY <1>3 DEF Open
  <1>4. ASSUME NEW r \in Runtimes, OpenFails(r)
        PROVE  CallsStart
    BY <1>4, <1>b DEF OpenFails
  <1>5. ASSUME NEW r \in Runtimes, Insert(r)
        PROVE  CallsStart
    BY <1>5, <1>a DEF Insert
  <1>6. ASSUME NEW r \in Runtimes, InsertFails(r)
        PROVE  CallsStart
    BY <1>6, <1>a DEF InsertFails
  <1>7. ASSUME NEW r \in Runtimes, NEW id \in Ids, Close(r, id)
        PROVE  CallsStart
    BY <1>7, <1>b DEF Close
  <1>8. ASSUME NEW r \in Runtimes, NEW id \in Ids, Rejected(r, id)
        PROVE  CallsStart
    BY <1>8, <1>b DEF Rejected
  <1>9. ASSUME NEW r \in Runtimes, NEW id \in Ids,
             NEW timeout \in Timeouts, SetTimeout(r, id, timeout)
        PROVE  CallsStart
    BY <1>9, <1>b DEF SetTimeout
  <1>10. ASSUME NEW r \in Runtimes, NEW id \in Ids,
             NEW timeout \in Timeouts, SetTimeoutFails(r, id, timeout)
        PROVE  CallsStart
    BY <1>10, <1>b DEF SetTimeoutFails
  <1>11. ASSUME NEW r \in Runtimes, NEW id \in Ids, StartAccept(r, id)
        PROVE  CallsStart
    BY <1>11 DEF StartAccept
  <1>12. ASSUME NEW r \in Runtimes, AcceptTakes(r)
        PROVE  CallsStart
    BY <1>12, <1>a, CallFacts DEF AcceptTakes, Polling
  <1>13. ASSUME NEW r \in Runtimes, AcceptConfigureFails(r)
        PROVE  CallsStart
    BY <1>13, <1>a DEF AcceptConfigureFails
  <1>14. ASSUME NEW r \in Runtimes, AcceptFails(r)
        PROVE  CallsStart
    BY <1>14, <1>a DEF AcceptFails
  <1>15. ASSUME NEW r \in Runtimes, AcceptSleeps(r)
        PROVE  CallsStart
    BY <1>15, <1>a, CallFacts DEF AcceptSleeps, Polling
  <1>16. ASSUME NEW r \in Runtimes, AcceptTimesOut(r)
        PROVE  CallsStart
    BY <1>16, <1>a DEF AcceptTimesOut
  <1>17. ASSUME NEW r \in Runtimes, ClockRuns(r)
        PROVE  CallsStart
    BY <1>17, <1>a, CallFacts DEF ClockRuns, Polling
  <1>18. ASSUME NEW p \in Peers, NEW id \in Ids, PeerConnects(p, id)
        PROVE  CallsStart
    BY <1>18, <1>b DEF PeerConnects
  <1>19. CASE UNCHANGED vars
    BY <1>19, <1>b DEF vars
  <1> QED
    BY <1>1, <1>2, <1>3, <1>4, <1>5, <1>6, <1>7, <1>8, <1>9, <1>10, <1>11,
       <1>12, <1>13, <1>14, <1>15, <1>16, <1>17, <1>18, <1>19
       DEF Next, Operation, AcceptStep, Over

\* The insertion finds the room that was there when the call started: between
\* the two only this runtime could have used it.
LEMMA RoomStep ==
    ASSUME Inv, [Next]_vars
    PROVE  RoomLeft'
  <1> DEFINE Size(q) == Cardinality(OpenIds(q))
             Good(q, n, idle) == n \in Nat /\ n <= Capacity
                                  /\ (~idle => n + 1 <= Capacity)
  <1>0. Capacity \in Nat
    BY TransportAssumption
  <1>1. \A q \in Runtimes : Good(q, Size(q), call[q] = Idle)
    BY TableFinite DEF Inv, RoomLeft, CapacityRespected
  <1>2. SUFFICES \A q \in Runtimes :
                    Good(q, Cardinality(OpenIds(q)'), call'[q] = Idle)
    BY DEF RoomLeft, CapacityRespected
  <1>3. CASE SameHandles
    <2>1. CASE \A q \in Runtimes : call'[q] # Idle => call[q] # Idle
      BY <1>1, <1>3, <2>1 DEF SameHandles
    <2>2. ASSUME NEW r \in Runtimes, ~Full(r),
                 \A q \in Runtimes \ {r} : call'[q] = call[q]
          PROVE  \A q \in Runtimes :
                    Good(q, Cardinality(OpenIds(q)'), call'[q] = Idle)
      <3>1. Size(r) + 1 <= Capacity
        BY <1>0, <1>1, <2>2 DEF Full
      <3> QED
        BY <1>1, <1>3, <2>2, <3>1 DEF SameHandles
    <2> QED
      BY <2>1, <2>2, CallsStartWithRoom DEF CallsStart
  <1>4. ASSUME NEW r \in Runtimes, Inserts(r), NEW q \in Runtimes
        PROVE  Good(q, Cardinality(OpenIds(q)'), call'[q] = Idle)
    <2>1. /\ call[r] # Idle
          /\ call' = [call EXCEPT ![r] = Idle]
      BY <1>4, CallFacts DEF Inserts, Insert
    <2>2. CASE q # r
      BY <1>1, <1>4, <2>1, <2>2 DEF Inserts, Inv, TypeOK, CallsOK
    <2>3. CASE q = r
      <3>1. OpenIds(r)' = OpenIds(r) \cup {nextId}
        BY <1>4 DEF Inserts
      <3>2. Cardinality(OpenIds(r)') \in {Size(r), Size(r) + 1}
        BY <3>1, TableFinite, FS_AddElement
      <3>3. call'[r] = Idle
        BY <2>1 DEF Inv, TypeOK, CallsOK
      <3> QED
        BY <1>0, <1>1, <2>1, <2>3, <3>2, <3>3
    <2> QED
      BY <2>2, <2>3
  <1>5. ASSUME UNCHANGED call,
               \A q \in Runtimes : OpenIds(q)' \subseteq OpenIds(q),
               NEW q \in Runtimes
        PROVE  Good(q, Cardinality(OpenIds(q)'), call'[q] = Idle)
    <2>1. /\ Cardinality(OpenIds(q)') \in Nat
          /\ Cardinality(OpenIds(q)') <= Size(q)
      BY <1>5, TableFinite, FS_Subset, FS_CardinalityType
    <2> QED
      BY <1>0, <1>1, <1>5, <2>1
  <1>6. ASSUME NEW r \in Runtimes, NEW id \in Ids, Closes(r, id),
               NEW q \in Runtimes
        PROVE  Good(q, Cardinality(OpenIds(q)'), call'[q] = Idle)
    BY <1>5, <1>6 DEF Closes, Close
  <1>7. ASSUME NEW r \in Runtimes, Drops(r), NEW q \in Runtimes
        PROVE  Good(q, Cardinality(OpenIds(q)'), call'[q] = Idle)
    BY <1>5, <1>7 DEF Drops, Drop
  <1> QED
    BY <1>3, <1>4, <1>6, <1>7, HandlesLemma DEF HandlesStep

-----------------------------------------------------------------------------
\* Sockets in the tables and on the way there keep equal timeouts.
LEMMA AgreeingStep ==
    ASSUME Inv, [Next]_vars
    PROVE  Agreeing'
  <1> USE DEF Inv, TypeOK
  <1> DEFINE Even(s) == s.read = s.write
  <1>0. /\ \A q \in Runtimes : \A i \in OpenIds(q) \ warned : Even(table[q][i])
        /\ \A q \in Runtimes : Even(call[q].socket)
    BY DEF Agreeing, TimeoutsAgree
  <1>s. SUFFICES
          /\ \A q \in Runtimes :
                \A i \in OpenIds(q)' \ warned' : Even(table'[q][i])
          /\ \A q \in Runtimes : Even(call'[q].socket)
    BY DEF Agreeing, TimeoutsAgree
  <1> DEFINE Tables == \A q \in Runtimes :
                          \A i \in OpenIds(q)' \ warned' : Even(table'[q][i])
             Calls == \A q \in Runtimes : Even(call'[q].socket)
  <1>a. ASSUME UNCHANGED <<table, warned>> PROVE Tables
    BY <1>0, <1>a DEF OpenIds
  <1>b. ASSUME UNCHANGED call PROVE Calls
    BY <1>0, <1>b
  <1>c. ASSUME NEW r \in Runtimes, NEW c, call' = [call EXCEPT ![r] = c],
               Even(c.socket)
        PROVE  Calls
    BY <1>0, <1>c DEF CallsOK
  <1>d. Even(Idle.socket)
    BY CallFacts, SocketFacts
  <1>e. ASSUME NEW r \in Runtimes, NEW i \in Ids, NEW s,
               table' = [table EXCEPT ![r][i] = s], warned' = warned,
               s = NoSocket \/ Even(s)
        PROVE  Tables
    BY <1>0, <1>e DEF OpenIds, TablesOK
  <1> HIDE DEF Even
  <1>1. ASSUME NEW r \in Runtimes, NEW w \in Workers, Fork(r, w)
        PROVE  Tables /\ Calls
    <2>1. Tables
      BY <1>0, <1>1 DEF Fork, OpenIds, NoTable, TablesOK
    <2> QED
      BY <1>1, <1>b, <2>1 DEF Fork
  <1>2. ASSUME NEW r \in Runtimes, Drop(r)
        PROVE  Tables /\ Calls
    <2>1. Tables
      BY <1>0, <1>2 DEF Drop, OpenIds, NoTable, TablesOK
    <2> QED
      BY <1>2, <1>b, <2>1 DEF Drop
  <1>3. ASSUME NEW r \in Runtimes, NEW kind \in Kinds, Open(r, kind)
        PROVE  Tables /\ Calls
    <2>1. Even(NewSocket(kind, Default, NoPeer))
      BY SocketFacts, TransportAssumption DEF Even
    <2>2. Inserting(NewSocket(kind, Default, NoPeer)).socket
             = NewSocket(kind, Default, NoPeer)
      BY DEF Inserting
    <2> QED
      BY <1>3, <1>a, <1>c, <2>1, <2>2 DEF Open
  <1>4. ASSUME NEW r \in Runtimes, OpenFails(r)
        PROVE  Tables /\ Calls
    BY <1>4, <1>a, <1>b DEF OpenFails
  <1>5. ASSUME NEW r \in Runtimes, Insert(r)
        PROVE  Tables /\ Calls
    <2>1. nextId \in Ids
      BY <1>5, TransportAssumption DEF Insert, TablesOK, Ids
    <2>2. Tables
      BY <1>0, <1>5, <1>e, <2>1 DEF Insert
    <2>3. Calls
      BY <1>5, <1>c, <1>d DEF Insert
    <2> QED
      BY <2>2, <2>3
  <1>6. ASSUME NEW r \in Runtimes, InsertFails(r)
        PROVE  Tables /\ Calls
    BY <1>6, <1>a, <1>c, <1>d DEF InsertFails
  <1>7. ASSUME NEW r \in Runtimes, NEW id \in Ids, Close(r, id)
        PROVE  Tables /\ Calls
    BY <1>7, <1>b, <1>e DEF Close
  <1>8. ASSUME NEW r \in Runtimes, NEW id \in Ids, Rejected(r, id)
        PROVE  Tables /\ Calls
    BY <1>8, <1>a, <1>b DEF Rejected
  <1>9. ASSUME NEW r \in Runtimes, NEW id \in Ids,
             NEW timeout \in Timeouts, SetTimeout(r, id, timeout)
        PROVE  Tables /\ Calls
    <2>1. table[r][id] \in Socket
      BY <1>9 DEF SetTimeout, Live, OpenIds, TablesOK
    <2>2. Even(Retimed(table[r][id], timeout, timeout))
      BY <2>1, RetimedFacts DEF Even
    <2>3. table' = [table EXCEPT ![r][id] =
                       Retimed(table[r][id], timeout, timeout)]
      BY <1>9 DEF SetTimeout, TablesOK
    <2>4. Tables
      BY <1>9, <1>e, <2>2, <2>3 DEF SetTimeout
    <2> QED
      BY <1>9, <1>b, <2>4 DEF SetTimeout
  <1>10. ASSUME NEW r \in Runtimes, NEW id \in Ids,
             NEW timeout \in Timeouts, SetTimeoutFails(r, id, timeout)
        PROVE  Tables /\ Calls
    <2>1. PICK s : /\ table' = [table EXCEPT ![r][id] = s]
                     /\ warned' = warned \cup {id}
      BY <1>10 DEF SetTimeoutFails, TablesOK
    <2>2. Tables
      BY <1>0, <2>1 DEF OpenIds, TablesOK
    <2> QED
      BY <1>10, <1>b, <2>2 DEF SetTimeoutFails
  <1>11. ASSUME NEW r \in Runtimes, NEW id \in Ids, StartAccept(r, id)
        PROVE  Tables /\ Calls
    <2>1. \A i, e : Even(Accepting(i, e).socket)
      BY SocketFacts DEF Even, Accepting
    <2> QED
      BY <1>11, <1>a, <1>c, <2>1 DEF StartAccept
  <1>12. ASSUME NEW r \in Runtimes, AcceptTakes(r)
        PROVE  Tables /\ Calls
    <2> DEFINE socket == NewSocket("tcp", Listener(r).read,
                                   Head(backlog[call[r].id]))
    <2>1. Even(socket)
      BY DEF Even, NewSocket
    <2>2. Inserting(socket).socket = socket
      BY DEF Inserting
    <2>3. /\ call' = [call EXCEPT ![r] = Inserting(socket)]
          /\ UNCHANGED <<table, warned>>
      BY <1>12 DEF AcceptTakes
    <2> HIDE DEF socket
    <2> QED
      BY <1>a, <1>c, <2>1, <2>2, <2>3
  <1>13. ASSUME NEW r \in Runtimes, AcceptConfigureFails(r)
        PROVE  Tables /\ Calls
    BY <1>13, <1>a, <1>c, <1>d DEF AcceptConfigureFails
  <1>14. ASSUME NEW r \in Runtimes, AcceptFails(r)
        PROVE  Tables /\ Calls
    BY <1>14, <1>a, <1>c, <1>d DEF AcceptFails
  <1>15. ASSUME NEW r \in Runtimes, AcceptSleeps(r)
        PROVE  Tables /\ Calls
    <2>1. \A i, e : Even(Accepting(i, e).socket)
      BY SocketFacts DEF Even, Accepting
    <2>2. PICK i, e : call' = [call EXCEPT ![r] = Accepting(i, e)]
      BY <1>15 DEF AcceptSleeps
    <2>3. UNCHANGED <<table, warned>>
      BY <1>15 DEF AcceptSleeps
    <2> QED
      BY <1>a, <1>c, <2>1, <2>2, <2>3
  <1>16. ASSUME NEW r \in Runtimes, AcceptTimesOut(r)
        PROVE  Tables /\ Calls
    BY <1>16, <1>a, <1>c, <1>d DEF AcceptTimesOut
  <1>17. ASSUME NEW r \in Runtimes, ClockRuns(r)
        PROVE  Tables /\ Calls
    <2>1. \A i, e : Even(Accepting(i, e).socket)
      BY SocketFacts DEF Even, Accepting
    <2> QED
      BY <1>17, <1>a, <1>c, <2>1 DEF ClockRuns
  <1>18. ASSUME NEW p \in Peers, NEW id \in Ids, PeerConnects(p, id)
        PROVE  Tables /\ Calls
    BY <1>18, <1>a, <1>b DEF PeerConnects
  <1>19. CASE UNCHANGED vars
    BY <1>19, <1>a, <1>b DEF vars
  <1> QED
    BY <1>1, <1>2, <1>3, <1>4, <1>5, <1>6, <1>7, <1>8, <1>9, <1>10, <1>11,
       <1>12, <1>13, <1>14, <1>15, <1>16, <1>17, <1>18, <1>19
       DEF Next, Operation, AcceptStep, Over

-----------------------------------------------------------------------------
\* Initially there are no workers, no sockets and no calls.
LEMMA InitInv == Init => Inv
  <1> SUFFICES ASSUME Init PROVE Inv
    OBVIOUS
  <1> USE TransportAssumption DEF Init
  <1>1. TypeOK
    BY SocketFacts, CallFacts
       DEF TypeOK, TablesOK, CallsOK, HistoryOK, NoTable, Runtimes, Fates
  <1>2. Quiet
    BY SocketFacts DEF Quiet, NoTable, OpenIds, Runtimes
  <1>3. \A r \in Runtimes : OpenIds(r) = {} /\ call[r] = Idle
    BY DEF NoTable, OpenIds
  <1>4. Drawn /\ Agreeing
    BY <1>3, SocketFacts, CallFacts DEF Drawn, Agreeing, TimeoutsAgree
  <1>5. RoomLeft
    <2>1. Cardinality({}) = 0 /\ Capacity \in Nat
      BY FS_EmptySet
    <2>2. \A r \in Runtimes : Cardinality(OpenIds(r)) = 0
      BY <1>3, <2>1, Zenon
    <2>3. \A r \in Runtimes : call[r] = Idle
      BY <1>3
    <2> HIDE DEF Init
    <2> QED
      BY <2>1, <2>2, <2>3 DEF RoomLeft, CapacityRespected
  <1> QED
    BY <1>1, <1>2, <1>4, <1>5 DEF Inv

\* Every step keeps each part of the inductive invariant.
LEMMA StepInv == Inv /\ [Next]_vars => Inv'
  BY TablesStep, CallsStep, HistoryStep, QuietStep, DrawnStep, RoomStep,
     AgreeingStep DEF Inv, TypeOK

\* The inductive invariant holds in every reachable state.
THEOREM Invariance == Spec => []Inv
  BY InitInv, StepInv, PTL DEF Spec

\* Every variable keeps its type, and an accept its listener.
THEOREM TypeCorrect == Spec => []TypeOK
  <1>1. Inv => TypeOK
    BY DEF Inv
  <1> QED
    BY <1>1, Invariance, PTL

\* No table outgrows the capacity: every insertion follows a check of the same
\* table, which nobody else inserts into.
THEOREM CapacityTheorem == Spec => []CapacityRespected
  <1>1. Inv => CapacityRespected
    BY DEF Inv, RoomLeft
  <1> QED
    BY <1>1, Invariance, PTL

\* Without a reported failure, the read and the write timeout of every socket
\* agree, inherited or set.
THEOREM TimeoutsTheorem == Spec => []TimeoutsAgree
  <1>1. Inv => TimeoutsAgree
    BY DEF Inv, Agreeing
  <1> QED
    BY <1>1, Invariance, PTL

\* Nobody's sockets are touched while a worker forked from it, directly or
\* through other workers, lives.
THEOREM ParentTheorem == Spec => ParentUntouched
  <1>1. ASSUME Inv, [Next]_vars
        PROVE  [\A w, r \in Runtimes :
                   r \in above[w] => table'[r] = table[r]]_vars
    <2> SUFFICES ASSUME NEW v \in Runtimes, NEW o \in Runtimes, o \in above[v]
                 PROVE  table'[o] = table[o]
      OBVIOUS
    <2>1. o \in alive /\ call[o] = Idle /\ ~Free(o)
      BY <1>1 DEF Free, Inv, Quiet
    <2>2. call[o].op # "insert"
      BY <2>1, CallFacts
    <2>3. table \in [Runtimes -> [Ids -> Socket \cup {NoSocket}]]
      BY <1>1 DEF Inv, TypeOK, TablesOK
    <2>4. CASE UNCHANGED table
      BY <2>4
    <2>5. ASSUME NEW r \in Runtimes, NEW w \in Workers, Fork(r, w)
          PROVE  table'[o] = table[o]
      BY <2>1, <2>3, <2>5 DEF Fork, Runtimes
    <2>6. ASSUME NEW r \in Runtimes, Drop(r) PROVE table'[o] = table[o]
      BY <2>1, <2>3, <2>6 DEF Drop
    <2>7. ASSUME NEW r \in Runtimes, Insert(r)
          PROVE  table'[o] = table[o]
      BY <2>1, <2>2, <2>3, <2>7 DEF Insert
    <2>8. ASSUME NEW r \in Runtimes, NEW id \in Ids, NEW t \in Timeouts,
                 \/ Close(r, id) \/ SetTimeout(r, id, t)
                 \/ SetTimeoutFails(r, id, t)
          PROVE  table'[o] = table[o]
      <3>1. r # o
        BY <2>1, <2>8 DEF Close, SetTimeout, SetTimeoutFails
      <3>2. \E s : table' = [table EXCEPT ![r][id] = s]
        BY <2>8 DEF Close, SetTimeout, SetTimeoutFails
      <3> QED
        BY <2>1, <2>3, <3>1, <3>2
    <2>9. ASSUME NEW r \in Runtimes,
                 \/ \E kind \in Kinds : Open(r, kind)
                 \/ OpenFails(r) \/ InsertFails(r)
                 \/ \E id \in Ids : Rejected(r, id) \/ StartAccept(r, id)
                 \/ AcceptStep(r) \/ ClockRuns(r)
          PROVE  UNCHANGED table
      BY <2>9 DEF Open, OpenFails, InsertFails, Rejected, StartAccept,
         AcceptStep, AcceptTakes, AcceptConfigureFails, AcceptFails,
         AcceptSleeps, AcceptTimesOut, ClockRuns
    <2>10. ASSUME NEW p \in Peers, NEW id \in Ids, PeerConnects(p, id)
           PROVE  UNCHANGED table
      BY <2>10 DEF PeerConnects
    <2>11. CASE UNCHANGED vars
      BY <2>11 DEF vars
    <2>12. PICK t : t \in Timeouts
      BY TransportAssumption
    <2>13. ASSUME NEW r \in Runtimes, Operation(r)
           PROVE  table'[o] = table[o]
      BY <2>4, <2>7, <2>8, <2>9, <2>12, <2>13 DEF Operation
    <2> QED
      BY <1>1, <2>4, <2>5, <2>6, <2>10, <2>11, <2>13 DEF Next, Over
  <1> QED
    BY <1>1, Invariance, PTL DEF Spec, ParentUntouched

-----------------------------------------------------------------------------
\* Each step of a table is a step of the abstract handles, or leaves them.
LEMMA HandlesRefine ==
    ASSUME Inv, [Next]_vars
    PROVE  [Promise!Next]_(Promise!vars)
  <1> DEFINE issued == 1..(nextId - 1)
             owned == [r \in Runtimes |-> OpenIds(r)]
  <1>0. nextId \in Nat \ {0}
    BY TransportAssumption DEF Inv, TypeOK, TablesOK
  <1>1. CASE SameHandles
    <2>1. issued' = issued /\ owned' = owned
      BY <1>1 DEF SameHandles
    <2> QED
      BY <2>1 DEF Promise!vars
  <1>2. ASSUME NEW r \in Runtimes, Inserts(r)
        PROVE  Promise!Next
    <2>1. nextId \notin issued /\ issued' = issued \cup {nextId}
      BY <1>0, <1>2 DEF Inserts
    <2>2. owned' = [owned EXCEPT ![r] = @ \cup {nextId}]
      BY <1>2 DEF Inserts
    <2>3. Promise!Issue(r, nextId)
      BY <2>1, <2>2 DEF Promise!Issue
    <2> QED
      BY <1>2, <2>3 DEF Promise!Next, Inserts
  <1>3. ASSUME NEW r \in Runtimes, NEW id \in Ids, Closes(r, id)
        PROVE  Promise!Next
    <2>1. issued' = issued /\ id \in owned[r]
      BY <1>3 DEF Closes
    <2>2. owned' = [owned EXCEPT ![r] = @ \ {id}]
      BY <1>3 DEF Closes
    <2>3. Promise!Close(r, id)
      BY <2>1, <2>2 DEF Promise!Close
    <2> QED
      BY <2>3 DEF Promise!Next
  <1>4. ASSUME NEW r \in Runtimes, Drops(r)
        PROVE  Promise!Next
    <2>1. issued' = issued
      BY <1>4 DEF Drops
    <2>2. owned' = [owned EXCEPT ![r] = {}]
      BY <1>4 DEF Drops
    <2>3. Promise!Retire(r)
      BY <2>1, <2>2 DEF Promise!Retire
    <2> QED
      BY <2>3 DEF Promise!Next
  <1> QED
    BY <1>1, <1>2, <1>3, <1>4, HandlesLemma DEF HandlesStep

\* The tables of all runtimes together implement Handles: a handle is issued
\* once, to one runtime, and denotes nothing for ever after it was closed.
THEOREM HandlesTheorem == Spec => ImplementsHandles
  <1>1. Init => Promise!Init
    <2> SUFFICES ASSUME Init PROVE Promise!Init
      OBVIOUS
    <2>1. 1..(nextId - 1) = {}
      BY DEF Init
    <2>2. \A r \in Runtimes : OpenIds(r) = {}
      BY DEF Init, NoTable, OpenIds
    <2> QED
      BY <2>1, <2>2 DEF Promise!Init
  <1> QED
    BY <1>1, HandlesRefine, Invariance, PTL
       DEF Spec, ImplementsHandles, Promise!Spec
-----------------------------------------------------------------------------
\* A connection is lost only when an accept or an insertion reports an error.
Reported ==
    \E r \in Runtimes : call[r] # Idle /\ call'[r] = Idle /\ reply'[r] = "error"

\* No step loses a connection in any other way.
LEMMA LossIsReported ==
    ASSUME Inv, [Next]_vars, NEW lost \in Peers,
           fate[lost] # "lost", fate'[lost] = "lost"
    PROVE  Reported
  <1> USE DEF Inv, TypeOK, CallsOK, HistoryOK
  <1>a. ~UNCHANGED fate
    OBVIOUS
  <1>1. ASSUME NEW r \in Runtimes, NEW w \in Workers, Fork(r, w)
        PROVE  Reported
    BY <1>1, <1>a DEF Fork
  <1>2. ASSUME NEW r \in Runtimes, Drop(r)
        PROVE  Reported
    BY <1>2, <1>a DEF Drop, HangUp
  <1>3. ASSUME NEW r \in Runtimes, NEW kind \in Kinds, Open(r, kind)
        PROVE  Reported
    BY <1>3, <1>a DEF Open
  <1>4. ASSUME NEW r \in Runtimes, OpenFails(r)
        PROVE  Reported
    BY <1>4, <1>a DEF OpenFails
  <1>5. ASSUME NEW r \in Runtimes, Insert(r)
        PROVE  Reported
    BY <1>5, <1>a DEF Insert
  <1>6. ASSUME NEW r \in Runtimes, InsertFails(r)
        PROVE  Reported
    BY <1>6, CallFacts DEF InsertFails, Replies, Reported
  <1>7. ASSUME NEW r \in Runtimes, NEW id \in Ids, Close(r, id)
        PROVE  Reported
    BY <1>7, <1>a DEF Close, HangUp
  <1>8. ASSUME NEW r \in Runtimes, NEW id \in Ids, Rejected(r, id)
        PROVE  Reported
    BY <1>8, <1>a DEF Rejected
  <1>9. ASSUME NEW r \in Runtimes, NEW id \in Ids,
             NEW timeout \in Timeouts, SetTimeout(r, id, timeout)
        PROVE  Reported
    BY <1>9, <1>a DEF SetTimeout
  <1>10. ASSUME NEW r \in Runtimes, NEW id \in Ids,
             NEW timeout \in Timeouts, SetTimeoutFails(r, id, timeout)
        PROVE  Reported
    BY <1>10, <1>a DEF SetTimeoutFails
  <1>11. ASSUME NEW r \in Runtimes, NEW id \in Ids, StartAccept(r, id)
        PROVE  Reported
    BY <1>11, <1>a DEF StartAccept
  <1>12. ASSUME NEW r \in Runtimes, AcceptTakes(r)
        PROVE  Reported
    BY <1>12, <1>a DEF AcceptTakes
  <1>13. ASSUME NEW r \in Runtimes, AcceptConfigureFails(r)
        PROVE  Reported
    BY <1>13, CallFacts DEF AcceptConfigureFails, Polling, Replies, Reported
  <1>14. ASSUME NEW r \in Runtimes, AcceptFails(r)
        PROVE  Reported
    BY <1>14, <1>a DEF AcceptFails
  <1>15. ASSUME NEW r \in Runtimes, AcceptSleeps(r)
        PROVE  Reported
    BY <1>15, <1>a DEF AcceptSleeps
  <1>16. ASSUME NEW r \in Runtimes, AcceptTimesOut(r)
        PROVE  Reported
    BY <1>16, <1>a DEF AcceptTimesOut
  <1>17. ASSUME NEW r \in Runtimes, ClockRuns(r)
        PROVE  Reported
    BY <1>17, <1>a DEF ClockRuns
  <1>18. ASSUME NEW p \in Peers, NEW id \in Ids, PeerConnects(p, id)
        PROVE  Reported
    BY <1>18, <1>a DEF PeerConnects
  <1>19. CASE UNCHANGED vars
    BY <1>19, <1>a DEF vars
  <1> QED
    BY <1>1, <1>2, <1>3, <1>4, <1>5, <1>6, <1>7, <1>8, <1>9, <1>10, <1>11,
       <1>12, <1>13, <1>14, <1>15, <1>16, <1>17, <1>18, <1>19
       DEF Next, Operation, AcceptStep, Over

\* An accept that times out has taken nothing from the queue, and a connection
\* that was taken and dropped is reported as an error.
THEOREM LossTheorem == Spec => NoSilentLoss
  <1>1. Inv /\ [Next]_vars
          => [\A p \in Peers :
                 (fate[p] # "lost" /\ fate'[p] = "lost") =>
                    \E r \in Runtimes :
                       call[r] # Idle /\ call'[r] = Idle /\ reply'[r] = "error"
             ]_vars
    BY LossIsReported DEF Reported
  <1> QED
    BY <1>1, Invariance, PTL DEF Spec, NoSilentLoss
-----------------------------------------------------------------------------
\* At every moment a handle is open in one runtime at most.
THEOREM OneOwnerTheorem == Spec => []Promise!OneOwner
  <1>1. Inv => Promise!OneOwner
    <2> SUFFICES ASSUME Inv PROVE Promise!OneOwner
      OBVIOUS
    <2>1. \A r \in Runtimes : OpenIds(r) \subseteq 1..(nextId - 1)
      BY TransportAssumption
         DEF Inv, TypeOK, TablesOK, Drawn, OpenIds, Ids
    <2> QED
      BY <2>1 DEF Promise!OneOwner, Inv, Drawn
  <1> QED
    BY <1>1, Invariance, PTL

\* A handle that was closed, or whose runtime was dropped, denotes nothing in
\* any runtime for ever after: the program's stale values stay stale.
THEOREM StaysClosedTheorem == Spec => Promise!StaysClosed
  <1>1. ASSUME Inv, [Next]_vars, NEW id \in 1..(nextId - 1),
               \A q \in Runtimes : id \notin OpenIds(q)
        PROVE  \A q \in Runtimes : id \notin OpenIds(q)'
    <2>1. id # nextId
      BY <1>1 DEF Inv, TypeOK, TablesOK
    <2>2. CASE SameHandles
      BY <1>1, <2>2 DEF SameHandles
    <2>3. ASSUME NEW r \in Runtimes, Inserts(r)
          PROVE  \A q \in Runtimes : id \notin OpenIds(q)'
      BY <1>1, <2>1, <2>3 DEF Inserts
    <2>4. ASSUME NEW r \in Runtimes, NEW closed \in Ids, Closes(r, closed)
          PROVE  \A q \in Runtimes : id \notin OpenIds(q)'
      BY <1>1, <2>4 DEF Closes
    <2>5. ASSUME NEW r \in Runtimes, Drops(r)
          PROVE  \A q \in Runtimes : id \notin OpenIds(q)'
      BY <1>1, <2>5 DEF Drops
    <2> QED
      BY <1>1, <2>2, <2>3, <2>4, <2>5, HandlesLemma DEF HandlesStep
  <1> DEFINE owned == [r \in Runtimes |-> OpenIds(r)]
  <1>2. Inv /\ [Next]_vars
          => [\A id \in 1..(nextId - 1) :
                 (\A o \in Runtimes : id \notin owned[o])
                     => \A o \in Runtimes : id \notin owned'[o]
             ]_<<1..(nextId - 1), owned>>
    BY <1>1
  <1> QED
    BY <1>2, Invariance, PTL DEF Spec, Promise!StaysClosed, Promise!vars
-----------------------------------------------------------------------------
(* Where the connections of the peers are.                                 *)

\* The peer of a socket stays what it is.
LEMMA PeerFacts ==
    /\ NoSocket.peer = NoPeer /\ NoPeer \notin Peers
    /\ NoSocket.kind # "listener"
    /\ Idle.socket.peer = NoPeer
    /\ \A id, e : Accepting(id, e).socket.peer = NoPeer
    /\ \A s : Inserting(s).socket = s
    /\ \A kind, t, p : NewSocket(kind, t, p).peer = p
    /\ \A s \in Socket : \A read, write :
          /\ Retimed(s, read, write).kind = s.kind
          /\ Retimed(s, read, write).peer = s.peer
  BY TransportAssumption
     DEF NoSocket, Idle, Accepting, Inserting, NewSocket, Retimed, Socket

\* What a step does to the connections: it leaves them where they are, hangs
\* up listeners, takes one from a queue, inserts or loses one, or a peer joins
\* a queue.
Passes ==
    /\ UNCHANGED <<backlog, fate>>
    /\ \A q \in Runtimes, i \in Ids :
          table'[q][i].kind = table[q][i].kind /\ Kept(q, i)' = Kept(q, i)
    /\ \A q \in Runtimes : Carried(q)' \in {Carried(q), NoPeer}
HangsUp(ids) ==
    /\ HangUp(ids) /\ UNCHANGED call
    /\ \A q \in Runtimes, i \in Ids :
          \/ table'[q][i] = table[q][i]
          \/ i \in ids /\ table'[q][i] = NoSocket
Takes(id, p) ==
    /\ backlog[id] # <<>> /\ p = Head(backlog[id])
    /\ backlog' = [backlog EXCEPT ![id] = Tail(@)]
    /\ UNCHANGED table
    /\ \/ /\ fate' = [fate EXCEPT ![p] = "taken"]
          /\ \E r \in Runtimes :
                /\ Carried(r)' = p
                /\ \A q \in Runtimes \ {r} : Carried(q)' = Carried(q)
       \/ /\ fate' = [fate EXCEPT ![p] = "lost"]
          /\ \A q \in Runtimes : Carried(q)' \in {Carried(q), NoPeer}
PeersStep ==
    \/ Passes
    \/ \E ids \in SUBSET Ids : HangsUp(ids)
    \/ \E id \in Ids, p \in Peers : Takes(id, p)
    \/ \E r \in Runtimes : Insert(r) \/ InsertFails(r)
    \/ \E p \in Peers, id \in Ids : PeerConnects(p, id)

\* No step does anything else to the connections.
LEMMA PeersLemma ==
    ASSUME Inv, [Next]_vars
    PROVE  PeersStep
  <1> USE DEF Inv, TypeOK
  <1>a. ASSUME UNCHANGED <<table, backlog, fate>>,
               \/ UNCHANGED call
               \/ \E r \in Runtimes : \E c :
                     /\ call' = [call EXCEPT ![r] = c]
                     /\ c.socket.peer = NoPeer
        PROVE  PeersStep
    BY <1>a DEF PeersStep, Passes, Kept, Carried, CallsOK
  <1>b. ASSUME NEW r \in Runtimes, NEW id \in Ids, NEW s,
               table' = [table EXCEPT ![r][id] = s],
               s.kind = table[r][id].kind, s.peer = table[r][id].peer,
               UNCHANGED <<call, backlog, fate>>
        PROVE  PeersStep
    BY <1>b DEF PeersStep, Passes, Kept, Carried, TablesOK
  <1>c. ASSUME NEW r \in Runtimes, Polling(r), backlog[call[r].id] # <<>>
        PROVE  /\ call[r].id \in Ids
               /\ Head(backlog[call[r].id]) \in Peers
    <2>1. call[r].id \in Ids
      BY <1>c DEF Polling, CallsOK
    <2>2. backlog[call[r].id] \in Seq(Peers)
      BY <2>1 DEF HistoryOK
    <2> QED
      BY <1>c, <2>1, <2>2
  <1>1. ASSUME NEW r \in Runtimes, NEW w \in Workers, Fork(r, w)
        PROVE  PeersStep
    <2>1. OpenIds(w) = {}
      BY <1>1 DEF Fork, Quiet, Runtimes
    <2>2. \A q \in Runtimes, i \in Ids : table'[q][i] = table[q][i]
      BY <1>1, <2>1 DEF Fork, NoTable, OpenIds, TablesOK, Runtimes
    <2> QED
      BY <1>1, <2>2 DEF Fork, PeersStep, Passes, Kept, Carried
  <1>2. ASSUME NEW r \in Runtimes, Drop(r)
        PROVE  PeersStep
    <2>1. \A q \in Runtimes, i \in Ids :
             \/ table'[q][i] = table[q][i]
             \/ i \in OpenIds(r) /\ table'[q][i] = NoSocket
      BY <1>2 DEF Drop, NoTable, OpenIds, TablesOK
    <2>2. OpenIds(r) \in SUBSET Ids /\ HangUp(OpenIds(r)) /\ UNCHANGED call
      BY <1>2 DEF Drop, OpenIds
    <2> QED
      BY <2>1, <2>2 DEF PeersStep, HangsUp
  <1>3. ASSUME NEW r \in Runtimes, NEW kind \in Kinds, Open(r, kind)
        PROVE  PeersStep
    <2>1. PICK s, c : s = NewSocket(kind, Default, NoPeer) /\ c = Inserting(s)
      OBVIOUS
    <2>2. c.socket.peer = NoPeer
      BY <2>1, PeerFacts
    <2>3. call' = [call EXCEPT ![r] = c] /\ UNCHANGED <<table, backlog, fate>>
      BY <1>3, <2>1 DEF Open
    <2> QED
      BY <1>a, <2>2, <2>3
  <1>4. ASSUME NEW r \in Runtimes, OpenFails(r)
        PROVE  PeersStep
    BY <1>4, <1>a DEF OpenFails
  <1>5. ASSUME NEW r \in Runtimes, Insert(r) \/ InsertFails(r)
        PROVE  PeersStep
    BY <1>5 DEF PeersStep
  <1>6. ASSUME NEW r \in Runtimes, NEW id \in Ids, Close(r, id)
        PROVE  PeersStep
    <2>1. \A q \in Runtimes, i \in Ids :
             \/ table'[q][i] = table[q][i]
             \/ i \in {id} /\ table'[q][i] = NoSocket
      BY <1>6 DEF Close, TablesOK
    <2>2. {id} \in SUBSET Ids /\ HangUp({id}) /\ UNCHANGED call
      BY <1>6 DEF Close
    <2> QED
      BY <2>1, <2>2 DEF PeersStep, HangsUp
  <1>7. ASSUME NEW r \in Runtimes, NEW id \in Ids, Rejected(r, id)
        PROVE  PeersStep
    BY <1>7, <1>a DEF Rejected
  <1>8. ASSUME NEW r \in Runtimes, NEW id \in Ids,
               NEW timeout \in Timeouts, SetTimeout(r, id, timeout)
        PROVE  PeersStep
    <2>1. table[r][id] \in Socket
      BY <1>8 DEF SetTimeout, Live, OpenIds, TablesOK
    <2>2. PICK s : s = Retimed(table[r][id], timeout, timeout)
      OBVIOUS
    <2>3. s.kind = table[r][id].kind /\ s.peer = table[r][id].peer
      BY <2>1, <2>2, PeerFacts
    <2>4. /\ table' = [table EXCEPT ![r][id] = s]
          /\ UNCHANGED <<call, backlog, fate>>
      BY <1>8, <2>2 DEF SetTimeout, TablesOK
    <2> QED
      BY <1>b, <2>3, <2>4
  <1>9. ASSUME NEW r \in Runtimes, NEW id \in Ids,
               NEW timeout \in Timeouts, SetTimeoutFails(r, id, timeout)
        PROVE  PeersStep
    <2>1. table[r][id] \in Socket
      BY <1>9 DEF SetTimeoutFails, Live, OpenIds, TablesOK
    <2>2. PICK read \in {timeout, table[r][id].read} :
             table' = [table EXCEPT ![r][id] = Retimed(@, read, @.write)]
      BY <1>9 DEF SetTimeoutFails
    <2>3. PICK s : s = Retimed(table[r][id], read, table[r][id].write)
      OBVIOUS
    <2>4. s.kind = table[r][id].kind /\ s.peer = table[r][id].peer
      BY <2>1, <2>3, PeerFacts
    <2>5. /\ table' = [table EXCEPT ![r][id] = s]
          /\ UNCHANGED <<call, backlog, fate>>
      BY <1>9, <2>2, <2>3 DEF SetTimeoutFails, TablesOK
    <2> QED
      BY <1>b, <2>4, <2>5
  <1>10. ASSUME NEW r \in Runtimes, NEW id \in Ids, StartAccept(r, id)
         PROVE  PeersStep
    <2>1. PICK c : c = Accepting(id, 0)
      OBVIOUS
    <2>2. c.socket.peer = NoPeer
      BY <2>1, PeerFacts
    <2>3. call' = [call EXCEPT ![r] = c] /\ UNCHANGED <<table, backlog, fate>>
      BY <1>10, <2>1 DEF StartAccept
    <2> QED
      BY <1>a, <2>2, <2>3
  <1>11. ASSUME NEW r \in Runtimes, AcceptTakes(r)
         PROVE  PeersStep
    <2>1. PICK p : p = Head(backlog[call[r].id])
      OBVIOUS
    <2>2. /\ call[r].id \in Ids /\ p \in Peers
          /\ backlog[call[r].id] # <<>>
      BY <1>11, <1>c, <2>1 DEF AcceptTakes
    <2>3. PICK c : /\ c = Inserting(NewSocket("tcp", Listener(r).read, p))
                   /\ call' = [call EXCEPT ![r] = c]
      BY <1>11, <2>1 DEF AcceptTakes
    <2>4. c.socket.peer = p
      BY <2>3, PeerFacts
    <2>5. /\ Carried(r)' = p
          /\ \A q \in Runtimes \ {r} : Carried(q)' = Carried(q)
      BY <2>3, <2>4 DEF Carried, CallsOK
    <2>6. /\ fate' = [fate EXCEPT ![p] = "taken"] /\ UNCHANGED table
          /\ backlog' = [backlog EXCEPT ![call[r].id] = Tail(@)]
      BY <1>11, <2>1 DEF AcceptTakes
    <2> QED
      BY <2>1, <2>2, <2>5, <2>6 DEF PeersStep, Takes
  <1>12. ASSUME NEW r \in Runtimes, AcceptConfigureFails(r)
         PROVE  PeersStep
    <2>1. PICK p : p = Head(backlog[call[r].id])
      OBVIOUS
    <2>2. /\ call[r].id \in Ids /\ p \in Peers
          /\ backlog[call[r].id] # <<>>
      BY <1>12, <1>c, <2>1 DEF AcceptConfigureFails
    <2>3. \A q \in Runtimes : Carried(q)' \in {Carried(q), NoPeer}
      BY <1>12, PeerFacts DEF AcceptConfigureFails, Carried, CallsOK
    <2>4. /\ fate' = [fate EXCEPT ![p] = "lost"] /\ UNCHANGED table
          /\ backlog' = [backlog EXCEPT ![call[r].id] = Tail(@)]
      BY <1>12, <2>1 DEF AcceptConfigureFails
    <2> QED
      BY <2>1, <2>2, <2>3, <2>4 DEF PeersStep, Takes
  <1>13. ASSUME NEW r \in Runtimes, AcceptFails(r)
         PROVE  PeersStep
    BY <1>13, <1>a, PeerFacts DEF AcceptFails
  <1>14. ASSUME NEW r \in Runtimes, AcceptSleeps(r)
         PROVE  PeersStep
    <2>1. PICK now : call' = [call EXCEPT ![r] = Accepting(call[r].id, now)]
      BY <1>14 DEF AcceptSleeps
    <2>2. PICK c : c = Accepting(call[r].id, now)
      OBVIOUS
    <2>3. c.socket.peer = NoPeer
      BY <2>2, PeerFacts
    <2>4. call' = [call EXCEPT ![r] = c] /\ UNCHANGED <<table, backlog, fate>>
      BY <1>14, <2>1, <2>2 DEF AcceptSleeps
    <2> QED
      BY <1>a, <2>3, <2>4
  <1>15. ASSUME NEW r \in Runtimes, AcceptTimesOut(r)
         PROVE  PeersStep
    BY <1>15, <1>a, PeerFacts DEF AcceptTimesOut
  <1>16. ASSUME NEW r \in Runtimes, ClockRuns(r)
         PROVE  PeersStep
    <2>1. PICK now : call' = [call EXCEPT ![r] = Accepting(call[r].id, now)]
      BY <1>16 DEF ClockRuns
    <2>2. PICK c : c = Accepting(call[r].id, now)
      OBVIOUS
    <2>3. c.socket.peer = NoPeer
      BY <2>2, PeerFacts
    <2>4. call' = [call EXCEPT ![r] = c] /\ UNCHANGED <<table, backlog, fate>>
      BY <1>16, <2>1, <2>2 DEF ClockRuns
    <2> QED
      BY <1>a, <2>3, <2>4
  <1>17. ASSUME NEW p \in Peers, NEW id \in Ids, PeerConnects(p, id)
         PROVE  PeersStep
    BY <1>17 DEF PeersStep
  <1>18. CASE UNCHANGED vars
    BY <1>18, <1>a DEF vars
  <1> QED
    BY <1>1, <1>2, <1>3, <1>4, <1>5, <1>6, <1>7, <1>8, <1>9, <1>10, <1>11,
       <1>12, <1>13, <1>14, <1>15, <1>16, <1>17, <1>18
       DEF Next, Operation, AcceptStep, Over

\* A connection waits in one queue.
LEMMA WaitsOnce ==
    ASSUME Queued, NEW id \in Ids, NEW other \in Ids,
           NEW p \in Waiting(id) \cap Waiting(other)
    PROVE  id = other
  <1>1. PICK k \in 1..Len(backlog[id]) : p = backlog[id][k]
    BY DEF Waiting
  <1>2. PICK l \in 1..Len(backlog[other]) : p = backlog[other][l]
    BY DEF Waiting
  <1>3. backlog[id][k] = backlog[other][l] => id = other
    BY DEF Queued
  <1> QED
    BY <1>1, <1>2, <1>3

\* A queue without its first connection.
LEMMA TailWaits ==
    ASSUME Inv, Queued, NEW id \in Ids, NEW p \in Peers, Takes(id, p)
    PROVE  /\ p \in Waiting(id) /\ backlog'[id] \in Seq(Peers)
           /\ Len(backlog[id]) \in Nat
           /\ Len(backlog'[id]) = Len(backlog[id]) - 1
           /\ \A k \in 1..Len(backlog'[id]) :
                 backlog'[id][k] = backlog[id][k + 1]
           /\ Waiting(id)' = Waiting(id) \ {p}
           /\ \A other \in Ids \ {id} : backlog'[other] = backlog[other]
  <1>1. PICK s : s = backlog[id]
    OBVIOUS
  <1>2. s \in Seq(Peers) /\ s # <<>> /\ p = Head(s)
    BY <1>1 DEF Takes, Inv, TypeOK, HistoryOK
  <1>3. PICK t : t = Tail(s)
    OBVIOUS
  <1>4. /\ t \in Seq(Peers) /\ Len(s) \in Nat /\ Len(t) = Len(s) - 1
        /\ \A k \in 1..Len(t) : t[k] = s[k + 1]
        /\ p = s[1] /\ 1 \in 1..Len(s)
    BY <1>2, <1>3
  <1>5. backlog'[id] = t /\ \A other \in Ids \ {id} : backlog'[other] = backlog[other]
    BY <1>1, <1>3 DEF Takes, Inv, TypeOK, HistoryOK
  <1>6. \A k, l \in 1..Len(s) : s[k] = s[l] => k = l
    BY <1>1 DEF Queued
  <1>7. {t[k] : k \in 1..Len(t)} = {s[k] : k \in 1..Len(s)} \ {p}
    <2>1. ASSUME NEW k \in 1..Len(t)
          PROVE  t[k] \in {s[l] : l \in 1..Len(s)} \ {p}
      <3>1. k + 1 \in 1..Len(s) /\ k + 1 # 1
        BY <1>4
      <3> QED
        BY <1>4, <1>6, <3>1
    <2>2. ASSUME NEW l \in 1..Len(s), s[l] # p
          PROVE  s[l] \in {t[k] : k \in 1..Len(t)}
      <3>1. l - 1 \in 1..Len(t) /\ (l - 1) + 1 = l
        BY <1>4, <2>2
      <3>2. t[l - 1] = s[l]
        BY <1>4, <3>1
      <3> QED
        BY <3>1, <3>2
    <2> QED
      BY <2>1, <2>2
  <1>8. Waiting(id)' = {t[k] : k \in 1..Len(t)}
    BY <1>5 DEF Waiting
  <1>9. Waiting(id) = {s[k] : k \in 1..Len(s)}
    BY <1>1 DEF Waiting
  <1> QED
    BY <1>1, <1>4, <1>5, <1>7, <1>8, <1>9

\* A queue with one more connection.
LEMMA AppendWaits ==
    ASSUME Inv, NEW id \in Ids, NEW p \in Peers, PeerConnects(p, id)
    PROVE  /\ Len(backlog[id]) \in Nat
           /\ Len(backlog'[id]) = Len(backlog[id]) + 1
           /\ \A k \in 1..Len(backlog[id]) : backlog'[id][k] = backlog[id][k]
           /\ backlog'[id][Len(backlog[id]) + 1] = p
           /\ Waiting(id)' = Waiting(id) \cup {p}
           /\ \A other \in Ids \ {id} : backlog'[other] = backlog[other]
  <1>1. PICK s : s = backlog[id]
    OBVIOUS
  <1>2. s \in Seq(Peers)
    BY <1>1 DEF Inv, TypeOK, HistoryOK
  <1>3. PICK t : t = Append(s, p)
    OBVIOUS
  <1>4. /\ Len(s) \in Nat /\ Len(t) = Len(s) + 1
        /\ \A k \in 1..Len(s) : t[k] = s[k]
        /\ t[Len(s) + 1] = p
    BY <1>2, <1>3
  <1>5. backlog'[id] = t /\ \A other \in Ids \ {id} : backlog'[other] = backlog[other]
    BY <1>1, <1>3 DEF PeerConnects, Inv, TypeOK, HistoryOK
  <1>6. {t[k] : k \in 1..Len(t)} = {s[k] : k \in 1..Len(s)} \cup {p}
    <2>1. /\ \A k \in 1..Len(t) : k \in 1..Len(s) \/ k = Len(s) + 1
          /\ \A k \in 1..Len(s) : k \in 1..Len(t)
          /\ Len(s) + 1 \in 1..Len(t)
      BY <1>4
    <2> QED
      BY <1>4, <2>1
  <1>7. Waiting(id)' = {t[k] : k \in 1..Len(t)}
    BY <1>5 DEF Waiting
  <1>8. Waiting(id) = {s[k] : k \in 1..Len(s)}
    BY <1>1 DEF Waiting
  <1> QED
    BY <1>1, <1>4, <1>5, <1>6, <1>7, <1>8

\* The connection on its way into a table, and where it goes.
LEMMA InsertPeers ==
    ASSUME Inv, NEW r \in Runtimes, Insert(r) \/ InsertFails(r)
    PROVE  /\ Carried(r) \in Peers \cup {NoPeer} /\ Carried(r)' = NoPeer
           /\ \A q \in Runtimes \ {r} : Carried(q)' = Carried(q)
           /\ UNCHANGED backlog
           /\ \A p \in Peers \ {Carried(r)} : fate'[p] = fate[p]
           /\ InsertFails(r) =>
                 /\ UNCHANGED table
                 /\ Carried(r) \in Peers => fate'[Carried(r)] = "lost"
           /\ Insert(r) =>
                 /\ nextId \in Ids /\ Kept(r, nextId) = NoPeer
                 /\ table[r][nextId].kind # "listener"
                 /\ table'[r][nextId].peer = Carried(r)
                 /\ \A q \in Runtimes, i \in Ids :
                       <<q, i>> # <<r, nextId>> => table'[q][i] = table[q][i]
                 /\ Carried(r) \in Peers => fate'[Carried(r)] = "served"
  <1> USE PeerFacts DEF Inv, TypeOK
  <1>1. call[r].socket \in Socket
    BY DEF Insert, InsertFails, CallsOK
  <1>2. Carried(r) \in Peers \cup {NoPeer}
    BY <1>1 DEF Carried, Socket
  <1>3. /\ Carried(r)' = NoPeer
        /\ \A q \in Runtimes \ {r} : Carried(q)' = Carried(q)
    BY DEF Insert, InsertFails, Carried, CallsOK
  <1>4. /\ UNCHANGED backlog
        /\ \A p \in Peers \ {Carried(r)} : fate'[p] = fate[p]
    BY DEF Insert, InsertFails, Carried, HistoryOK
  <1>5. ASSUME InsertFails(r)
        PROVE  /\ UNCHANGED table
               /\ Carried(r) \in Peers => fate'[Carried(r)] = "lost"
    BY <1>5 DEF InsertFails, Carried, HistoryOK
  <1>6. ASSUME Insert(r)
        PROVE  /\ nextId \in Ids /\ Kept(r, nextId) = NoPeer
               /\ table[r][nextId].kind # "listener"
               /\ table'[r][nextId].peer = Carried(r)
               /\ \A q \in Runtimes, i \in Ids :
                     <<q, i>> # <<r, nextId>> => table'[q][i] = table[q][i]
               /\ Carried(r) \in Peers => fate'[Carried(r)] = "served"
    <2>1. nextId \in Ids
      BY <1>6, TransportAssumption DEF Insert, TablesOK, Ids
    <2>2. nextId \notin OpenIds(r)
      BY <2>1 DEF Drawn, Ids
    <2>3. table[r][nextId] = NoSocket
      BY <2>1, <2>2 DEF OpenIds
    <2>4. /\ table'[r][nextId] = call[r].socket
          /\ \A q \in Runtimes, i \in Ids :
                <<q, i>> # <<r, nextId>> => table'[q][i] = table[q][i]
      BY <1>6, <2>1 DEF Insert, TablesOK
    <2>5. Carried(r) \in Peers => fate'[Carried(r)] = "served"
      BY <1>6 DEF Insert, Carried, HistoryOK
    <2> QED
      BY <2>1, <2>3, <2>4, <2>5 DEF Kept, Carried
  <1> QED
    BY <1>2, <1>3, <1>4, <1>5, <1>6

\* The queues stay in order.
LEMMA QueuedStep ==
    ASSUME Inv, Accounted, [Next]_vars
    PROVE  Queued'
  <1> USE DEF Accounted
  <1>1. CASE Passes
    BY <1>1 DEF Passes, Queued, Waiting
  <1>2. ASSUME NEW ids \in SUBSET Ids, HangsUp(ids)
        PROVE  Queued'
    <2>1. /\ \A id \in ids : backlog'[id] = <<>> /\ Waiting(id)' = {}
          /\ \A id \in Ids \ ids :
                backlog'[id] = backlog[id] /\ Waiting(id)' = Waiting(id)
      BY <1>2 DEF HangsUp, HangUp, Waiting
    <2>2. \A p \in Peers :
             fate'[p] = IF \E id \in ids : p \in Waiting(id) THEN "refused"
                                                              ELSE fate[p]
      BY <1>2 DEF HangsUp, HangUp
    <2>3. \A id \in Ids : backlog'[id] # <<>> =>
             \E r \in Runtimes : table'[r][id].kind = "listener"
      BY <1>2, <2>1 DEF HangsUp, Queued
    <2>4. \A id, other \in Ids :
             \A k \in 1..Len(backlog'[id]), l \in 1..Len(backlog'[other]) :
                 backlog'[id][k] = backlog'[other][l] => id = other /\ k = l
      BY <2>1 DEF Queued
    <2>5. ASSUME NEW p \in Peers
          PROVE  fate'[p] = "waiting" <=> \E id \in Ids : p \in Waiting(id)'
      <3>1. CASE \E id \in ids : p \in Waiting(id)
        BY <2>1, <2>2, <3>1, WaitsOnce
      <3>2. CASE ~\E id \in ids : p \in Waiting(id)
        BY <2>1, <2>2, <3>2 DEF Queued
      <3> QED
        BY <3>1, <3>2
    <2> QED
      BY <2>3, <2>4, <2>5 DEF Queued
  <1>3. ASSUME NEW id \in Ids, NEW p \in Peers, Takes(id, p)
        PROVE  Queued'
    <2>1. /\ p \in Waiting(id) /\ Len(backlog[id]) \in Nat
          /\ backlog'[id] \in Seq(Peers)
          /\ Len(backlog'[id]) = Len(backlog[id]) - 1
          /\ \A k \in 1..Len(backlog'[id]) :
                backlog'[id][k] = backlog[id][k + 1]
          /\ Waiting(id)' = Waiting(id) \ {p}
          /\ \A other \in Ids \ {id} : backlog'[other] = backlog[other]
      BY <1>3, TailWaits
    <2>a. \A other \in Ids \ {id} : p \notin Waiting(other)
      BY <2>1, WaitsOnce
    <2>2. \A other \in Ids \ {id} :
             Waiting(other)' = Waiting(other) /\ p \notin Waiting(other)
      BY <2>1, <2>a DEF Waiting
    <2>3. /\ fate'[p] \in {"taken", "lost"} /\ UNCHANGED table
          /\ \A q \in Peers \ {p} : fate'[q] = fate[q]
      BY <1>3 DEF Takes, Inv, TypeOK, HistoryOK
    <2>4. \A i \in Ids : backlog'[i] # <<>> =>
             \E r \in Runtimes : table'[r][i].kind = "listener"
      BY <1>3, <2>1, <2>3 DEF Takes, Queued
    <2>5. \A i, j \in Ids :
             \A k \in 1..Len(backlog'[i]), l \in 1..Len(backlog'[j]) :
                 backlog'[i][k] = backlog'[j][l] => i = j /\ k = l
      <3> DEFINE At(i, k) == IF i = id THEN k + 1 ELSE k
      <3>1. \A i \in Ids : \A k \in 1..Len(backlog'[i]) :
               /\ At(i, k) \in 1..Len(backlog[i])
               /\ backlog'[i][k] = backlog[i][At(i, k)]
        BY <2>1
      <3> SUFFICES ASSUME NEW i \in Ids, NEW j \in Ids,
                          NEW k \in 1..Len(backlog'[i]),
                          NEW l \in 1..Len(backlog'[j]),
                          backlog'[i][k] = backlog'[j][l]
                   PROVE  i = j /\ k = l
        OBVIOUS
      <3>2. PICK m \in 1..Len(backlog[i]), n \in 1..Len(backlog[j]) :
               m = At(i, k) /\ n = At(j, l)
        BY <3>1
      <3>3. backlog[i][m] = backlog[j][n]
        BY <3>1, <3>2
      <3>4. i = j /\ m = n
        BY <3>3 DEF Queued
      <3> QED
        BY <3>2, <3>4
    <2>6. ASSUME NEW q \in Peers
          PROVE  fate'[q] = "waiting" <=> \E i \in Ids : q \in Waiting(i)'
      BY <2>1, <2>2, <2>3 DEF Queued
    <2> QED
      BY <2>4, <2>5, <2>6 DEF Queued
  <1>4. ASSUME NEW r \in Runtimes, Insert(r) \/ InsertFails(r)
        PROVE  Queued'
    <2>1. \A q \in Runtimes, i \in Ids :
             table[q][i].kind = "listener" => table'[q][i].kind = "listener"
      BY <1>4, InsertPeers
    <2>2. \A p \in Peers : fate'[p] = "waiting" <=> fate[p] = "waiting"
      BY <1>4, InsertPeers DEF Owned
    <2>3. UNCHANGED backlog
      BY <1>4, InsertPeers
    <2> QED
      BY <2>1, <2>2, <2>3 DEF Queued, Waiting
  <1>5. ASSUME NEW p \in Peers, NEW id \in Ids, PeerConnects(p, id)
        PROVE  Queued'
    <2>1. /\ Len(backlog[id]) \in Nat
          /\ Len(backlog'[id]) = Len(backlog[id]) + 1
          /\ \A k \in 1..Len(backlog[id]) : backlog'[id][k] = backlog[id][k]
          /\ backlog'[id][Len(backlog[id]) + 1] = p
          /\ Waiting(id)' = Waiting(id) \cup {p}
          /\ \A other \in Ids \ {id} : backlog'[other] = backlog[other]
      BY <1>5, AppendWaits
    <2>2. \A other \in Ids : p \notin Waiting(other)
      BY <1>5 DEF PeerConnects, Queued
    <2>3. \A other \in Ids \ {id} : Waiting(other)' = Waiting(other)
      BY <2>1 DEF Waiting
    <2>4. /\ fate'[p] = "waiting" /\ UNCHANGED table
          /\ \A q \in Peers \ {p} : fate'[q] = fate[q]
      BY <1>5 DEF PeerConnects, Inv, TypeOK, HistoryOK
    <2>5. \A i \in Ids : backlog'[i] # <<>> =>
             \E r \in Runtimes : table'[r][i].kind = "listener"
      BY <1>5, <2>1, <2>4 DEF PeerConnects, Queued
    <2>6. ASSUME NEW i \in Ids, NEW j \in Ids,
                 NEW k \in 1..Len(backlog'[i]), NEW l \in 1..Len(backlog'[j]),
                 backlog'[i][k] = backlog'[j][l]
          PROVE  i = j /\ k = l
      <3>1. ASSUME NEW e \in Ids, NEW m \in 1..Len(backlog'[e])
            PROVE  \/ /\ m \in 1..Len(backlog[e])
                      /\ backlog'[e][m] = backlog[e][m]
                      /\ backlog'[e][m] # p
                   \/ e = id /\ m = Len(backlog[id]) + 1
                      /\ backlog'[e][m] = p
        <4>1. CASE m \in 1..Len(backlog[e])
          BY <2>1, <2>2, <4>1 DEF Waiting
        <4>2. CASE m \notin 1..Len(backlog[e])
          BY <2>1, <4>2
        <4> QED
          BY <4>1, <4>2
      <3> QED
        BY <2>6, <3>1 DEF Queued
    <2>7. ASSUME NEW q \in Peers
          PROVE  fate'[q] = "waiting" <=> \E i \in Ids : q \in Waiting(i)'
      BY <2>1, <2>2, <2>3, <2>4 DEF Queued
    <2> QED
      BY <2>5, <2>6, <2>7 DEF Queued
  <1> QED
    BY <1>1, <1>2, <1>3, <1>4, <1>5, PeersLemma DEF PeersStep

\* A step that takes nothing from a queue and inserts nothing.
LEMMA OwnedFrame ==
    ASSUME Owned,
           \A r \in Runtimes, id \in Ids :
              Kept(r, id)' \in {Kept(r, id), NoPeer},
           \A r \in Runtimes : Carried(r)' \in {Carried(r), NoPeer},
           \A p \in Peers :
              fate[p] \in {"taken", "served"} => fate'[p] = fate[p]
    PROVE  Owned'
  BY PeerFacts DEF Owned

\* A connection stays in one place.
LEMMA OwnedStep ==
    ASSUME Inv, Accounted, [Next]_vars
    PROVE  Owned'
  <1> USE DEF Accounted
  <1>1. CASE Passes
    BY <1>1, OwnedFrame DEF Passes
  <1>2. ASSUME NEW ids \in SUBSET Ids, HangsUp(ids)
        PROVE  Owned'
    <2>1. \A r \in Runtimes, id \in Ids : Kept(r, id)' \in {Kept(r, id), NoPeer}
      BY <1>2, PeerFacts DEF HangsUp, Kept
    <2>2. \A r \in Runtimes : Carried(r)' = Carried(r)
      BY <1>2 DEF HangsUp, Carried
    <2>3. \A p \in Peers :
             fate[p] \in {"taken", "served"} => fate'[p] = fate[p]
      BY <1>2 DEF HangsUp, HangUp, Queued
    <2> QED
      BY <2>1, <2>2, <2>3, OwnedFrame
  <1>3. ASSUME NEW id \in Ids, NEW p \in Peers, Takes(id, p)
        PROVE  Owned'
    <2>1. fate[p] = "waiting"
      BY <1>3, TailWaits DEF Queued
    <2>2. \A r \in Runtimes, i \in Ids : Kept(r, i)' = Kept(r, i)
      BY <1>3 DEF Takes, Kept
    <2>3. /\ \A q \in Peers \ {p} : fate'[q] = fate[q]
          /\ fate' = [fate EXCEPT ![p] = "taken"] => fate'[p] = "taken"
      BY <1>3 DEF Takes, Inv, TypeOK, HistoryOK
    <2>4. ASSUME NEW r \in Runtimes, Carried(r)' = p, fate'[p] = "taken",
                 \A q \in Runtimes \ {r} : Carried(q)' = Carried(q)
          PROVE  Owned'
      BY <2>1, <2>2, <2>3, <2>4 DEF Owned
    <2>5. CASE \A q \in Runtimes : Carried(q)' \in {Carried(q), NoPeer}
      BY <2>1, <2>2, <2>3, <2>5, OwnedFrame
    <2> QED
      BY <1>3, <2>3, <2>4, <2>5 DEF Takes
  <1>4. ASSUME NEW r \in Runtimes, Insert(r)
        PROVE  Owned'
    <2>1. PICK p, n : p = Carried(r) /\ n = nextId
      OBVIOUS
    <2>2. /\ n \in Ids /\ Kept(r, n) = NoPeer
          /\ Kept(r, n)' = p
          /\ \A q \in Runtimes, i \in Ids :
                q # r \/ i # n => Kept(q, i)' = Kept(q, i)
      BY <1>4, <2>1, InsertPeers DEF Kept
    <2>3. /\ Carried(r)' = NoPeer
          /\ \A q \in Runtimes \ {r} : Carried(q)' = Carried(q)
          /\ \A q \in Peers \ {p} : fate'[q] = fate[q]
          /\ p \in Peers => fate'[p] = "served"
      BY <1>4, <2>1, InsertPeers
    <2>4. /\ \A q \in Runtimes, i \in Ids : p \in Peers => Kept(q, i) # p
          /\ \A q \in Runtimes \ {r} : p \in Peers => Carried(q) # p
      BY <2>1 DEF Owned
    <2> QED
      BY <2>1, <2>2, <2>3, <2>4, PeerFacts DEF Owned
  <1>5. ASSUME NEW r \in Runtimes, InsertFails(r)
        PROVE  Owned'
    <2>1. PICK p : p = Carried(r)
      OBVIOUS
    <2>2. \A q \in Runtimes, i \in Ids : Kept(q, i)' = Kept(q, i)
      BY <1>5, InsertPeers DEF Kept
    <2>3. /\ Carried(r)' = NoPeer
          /\ \A q \in Runtimes \ {r} : Carried(q)' = Carried(q)
          /\ \A q \in Peers \ {p} : fate'[q] = fate[q]
      BY <1>5, <2>1, InsertPeers
    <2>4. /\ \A q \in Runtimes, i \in Ids : p \in Peers => Kept(q, i) # p
          /\ \A q \in Runtimes \ {r} : p \in Peers => Carried(q) # p
      BY <2>1 DEF Owned
    <2> QED
      BY <2>2, <2>3, <2>4, PeerFacts DEF Owned
  <1>6. ASSUME NEW p \in Peers, NEW id \in Ids, PeerConnects(p, id)
        PROVE  Owned'
    <2>1. /\ \A r \in Runtimes, i \in Ids : Kept(r, i)' = Kept(r, i)
          /\ \A r \in Runtimes : Carried(r)' = Carried(r)
      BY <1>6 DEF PeerConnects, Kept, Carried
    <2>2. \A q \in Peers :
             fate[q] \in {"taken", "served"} => fate'[q] = fate[q]
      BY <1>6 DEF PeerConnects, Inv, TypeOK, HistoryOK
    <2> QED
      BY <2>1, <2>2, OwnedFrame
  <1> QED
    BY <1>1, <1>2, <1>3, <1>4, <1>5, <1>6, PeersLemma DEF PeersStep

\* At the beginning every peer is away.
LEMMA InitAccounted == Init => Accounted
  <1> SUFFICES ASSUME Init PROVE Accounted
    OBVIOUS
  <1>1. \A r \in Runtimes, id \in Ids : Kept(r, id) = NoPeer
    BY PeerFacts DEF Init, NoTable, Kept
  <1>2. \A r \in Runtimes : Carried(r) = NoPeer
    BY PeerFacts DEF Init, Carried
  <1>3. \A id \in Ids : backlog[id] = <<>> /\ Waiting(id) = {}
    BY DEF Init, Waiting
  <1>4. Queued
    BY <1>3 DEF Init, Queued
  <1>5. Owned
    BY <1>1, <1>2, PeerFacts DEF Owned
  <1> QED
    BY <1>4, <1>5 DEF Accounted

\* Every reachable state accounts for the connections.
LEMMA AccountedInvariance == Spec => []Accounted
  <1>1. Inv /\ Accounted /\ [Next]_vars => Accounted'
    BY QueuedStep, OwnedStep DEF Accounted
  <1> QED
    BY <1>1, InitAccounted, Invariance, PTL DEF Spec

\* A connection that waits for an accept waits at one position of one open
\* listener's queue; one that accept took is at most once in a table or on its
\* way into one, and no other is in any, whatever is closed, dropped, times out
\* or fails in between.
THEOREM ConnectionsTheorem == Spec => []ConnectionsAccountedFor
  <1>1. ASSUME Inv, Accounted
        PROVE  ConnectionsAccountedFor
    <2> USE <1>1 DEF Accounted
    <2> SUFFICES ASSUME NEW p \in Peers
                 PROVE
          /\ \A id, other \in Ids :
                \A k \in 1..Len(backlog[id]), l \in 1..Len(backlog[other]) :
                   backlog[id][k] = p =>
                      /\ fate[p] = "waiting"
                      /\ \E r \in Runtimes : table[r][id].kind = "listener"
                      /\ backlog[other][l] = p => id = other /\ k = l
          /\ fate[p] = "waiting" => \E id \in Ids : p \in Waiting(id)
          /\ Cardinality({place \in Runtimes \X Ids :
                              table[place[1]][place[2]].peer = p})
               + Cardinality({r \in Runtimes : call[r].socket.peer = p})
             <= IF fate[p] \in {"taken", "served"} THEN 1 ELSE 0
      BY DEF ConnectionsAccountedFor
    <2>1. ASSUME NEW id \in Ids, NEW other \in Ids,
                 NEW k \in 1..Len(backlog[id]),
                 NEW l \in 1..Len(backlog[other]), backlog[id][k] = p
          PROVE  /\ fate[p] = "waiting"
                 /\ \E r \in Runtimes : table[r][id].kind = "listener"
                 /\ backlog[other][l] = p => id = other /\ k = l
      <3>1. p \in Waiting(id) /\ backlog[id] # <<>>
        BY <2>1 DEF Waiting
      <3> QED
        BY <2>1, <3>1 DEF Queued
    <2>2. fate[p] = "waiting" => \E id \in Ids : p \in Waiting(id)
      BY DEF Queued
    <2> DEFINE places == {place \in Runtimes \X Ids :
                             table[place[1]][place[2]].peer = p}
               calls == {r \in Runtimes : call[r].socket.peer = p}
    <2>3. places = {} \/ \E place : places = {place}
      <3>1. ASSUME NEW a \in places, NEW b \in places
            PROVE  a = b
        <4>1. PICK r \in Runtimes, id \in Ids : a = <<r, id>>
          OBVIOUS
        <4>2. PICK q \in Runtimes, other \in Ids : b = <<q, other>>
          OBVIOUS
        <4>3. Kept(r, id) = p /\ Kept(q, other) = p
          BY <4>1, <4>2 DEF Kept
        <4> QED
          BY <4>1, <4>2, <4>3 DEF Owned
      <3> HIDE DEF places
      <3> QED
        BY <3>1
    <2>4. calls = {} \/ \E r : calls = {r}
      BY DEF Owned, Carried
    <2>5. places = {} \/ calls = {}
      BY DEF Owned, Kept, Carried
    <2>6. fate[p] \notin {"taken", "served"} => places = {} /\ calls = {}
      BY DEF Owned, Kept, Carried
    <2> HIDE DEF places, calls
    <2>7. /\ Cardinality(places) = 0 <=> places = {}
          /\ Cardinality(places) \in {0, 1}
          /\ Cardinality(calls) = 0 <=> calls = {}
          /\ Cardinality(calls) \in {0, 1}
      <3>1. ASSUME NEW S, S = {} \/ \E x : S = {x}
            PROVE  /\ Cardinality(S) = 0 <=> S = {}
                   /\ Cardinality(S) \in {0, 1}
        <4>1. CASE S = {}
          BY <4>1, FS_EmptySet
        <4>2. ASSUME NEW x, S = {x}
              PROVE  Cardinality(S) = 1 /\ S # {}
          BY <4>2, FS_Singleton
        <4> QED
          BY <3>1, <4>1, <4>2
      <3> QED
        BY <2>3, <2>4, <3>1
    <2>8. Cardinality(places) + Cardinality(calls)
             <= IF fate[p] \in {"taken", "served"} THEN 1 ELSE 0
      BY <2>5, <2>6, <2>7
    <2> QED
      BY <2>1, <2>2, <2>8 DEF places, calls
  <1> QED
    BY <1>1, Invariance, AccountedInvariance, PTL
=============================================================================
