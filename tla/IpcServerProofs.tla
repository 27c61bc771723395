--------------------------- MODULE IpcServerProofs ---------------------------
(***************************************************************************)
(* Theorems about IpcServer, for every number of clients, hub threads,     *)
(* events and requests.                                                    *)
(***************************************************************************)
EXTENDS IpcServer, SequenceTheorems, TLAPS

-----------------------------------------------------------------------------
(* Types.                                                                  *)

LEMMA TypeInit == Init => IpcTypeOK
<1> SUFFICES ASSUME Init PROVE IpcTypeOK
    OBVIOUS
<1>1. NoMessage \in Messages
  BY DEF NoMessage, Messages
<1>2. \A c \in Clients : c \notin Readers
  BY ThreadsAssumption
<1>3. [c \in Clients |-> <<>>] \in [Clients -> Seq(Messages)]
  OBVIOUS
<1> QED
  BY <1>1, <1>2, <1>3 DEF Init, IpcTypeOK, Threads, CasterPcs, ClientPcs, Requests

(* A thread's position keeps its type, whatever else a step does.          *)
Pcs(t) == IF t \in Readers THEN CasterPcs \cup {"idle"} ELSE CasterPcs \cup ClientPcs

LEMMA GotoType ==
  ASSUME IpcTypeOK, NEW t \in Threads, NEW p \in Pcs(t), pc' = [pc EXCEPT ![t] = p]
  PROVE  /\ pc' \in [Threads -> CasterPcs \cup ClientPcs \cup {"idle"}]
         /\ \A r \in Readers : pc'[r] \in CasterPcs \cup {"idle"}
         /\ \A c \in Clients : pc'[c] \in CasterPcs \cup ClientPcs
<1>1. \A c \in Clients : c \notin Readers
  BY ThreadsAssumption
<1>2. p \in CasterPcs \cup ClientPcs \cup {"idle"}
  BY DEF Pcs
<1>3. pc \in [Threads -> CasterPcs \cup ClientPcs \cup {"idle"}]
  BY DEF IpcTypeOK
<1>4. \A u \in Threads : pc'[u] = IF u = t THEN p ELSE pc[u]
  BY <1>3
<1>5. Clients \subseteq Threads /\ Readers \subseteq Threads
  BY DEF Threads
<1> QED
  BY <1>1, <1>2, <1>3, <1>4, <1>5 DEF IpcTypeOK, Pcs

(* A message broadcast is one of the messages, and clients only get those. *)
LEMMA WriteType ==
  ASSUME IpcTypeOK, NEW c \in Clients, NEW t \in Threads, Write(c, msg[t])
  PROVE  inbox' \in [Clients -> Seq(Messages)]
<1>1. msg[t] \in Messages /\ inbox[c] \in Seq(Messages)
  BY DEF IpcTypeOK
<1>2. Append(inbox[c], msg[t]) \in Seq(Messages)
  BY <1>1, AppendProperties
<1> QED
  BY <1>2 DEF Write, IpcTypeOK

LEMMA TypeStep == IpcTypeOK /\ [Next]_vars => IpcTypeOK'
<1> SUFFICES ASSUME IpcTypeOK, [Next]_vars PROVE IpcTypeOK'
    OBVIOUS
<1> USE DEF acceptVars, clientVars, threadVars, engineVars, boundVars
<1>c. /\ NoMessage \in Messages
      /\ \A c \in Clients : c \in Threads /\ c \notin Readers /\ Pcs(c) = CasterPcs \cup ClientPcs
      /\ \A r \in Readers : r \in Threads /\ Pcs(r) = CasterPcs \cup {"idle"}
      /\ \A t \in Threads : t \notin Readers => t \in Clients
  BY ThreadsAssumption DEF NoMessage, Messages, Threads, Pcs
<1>1. CASE AcceptStep \/ ConnectFails
  BY <1>1 DEF AcceptStep, Listen, ListenStopped, Push, ConnectFails, IpcTypeOK
<1>2. CASE StopCalled \/ StopStep
  BY <1>2 DEF StopCalled, StopStep, DisconnectAll, JoinAccept, LockClients, JoinClients, IpcTypeOK
<1>3. ASSUME NEW t \in Threads, Broadcast(t) \/ Lock(t) \/ Unlock(t) PROVE IpcTypeOK'
  <2>1. AfterCast(t) \in Pcs(t) /\ "lock" \in Pcs(t) /\ "cast" \in Pcs(t)
    BY DEF AfterCast, Pcs, CasterPcs, ClientPcs
  <2>2. PICK p \in Pcs(t) : pc' = [pc EXCEPT ![t] = p]
    BY <1>3, <2>1 DEF Broadcast, Lock, Unlock, Goto
  <2>3. msg' \in [Threads -> Messages] /\ todo' \in [Threads -> SUBSET Clients]
    BY <1>3, <1>c DEF Broadcast, Lock, Unlock, IpcTypeOK
  <2>4. mutex' \in Threads \cup {"free", "stop"}
    BY <1>3 DEF Broadcast, Lock, Unlock, IpcTypeOK
  <2>5. UNCHANGED <<serving, accept, listed, arriving, connected, pipe, request, engineOpen,
                    capturing, capture, events, calls, inbox, stopping>>
    BY <1>3 DEF Broadcast, Lock, Unlock
  <2> QED
    BY <2>2, <2>3, <2>4, <2>5, GotoType DEF IpcTypeOK
<1>4. ASSUME NEW t \in Threads, NEW c \in Clients, CastTo(t, c) PROVE IpcTypeOK'
  <2>1. inbox' \in [Clients -> Seq(Messages)]
    BY <1>4, WriteType DEF CastTo
  <2>2. todo' \in [Threads -> SUBSET Clients]
    BY <1>4 DEF CastTo, IpcTypeOK
  <2> QED
    BY <1>4, <2>1, <2>2 DEF CastTo, IpcTypeOK
<1>5. ASSUME NEW r \in Readers, Event(r) PROVE IpcTypeOK'
  <2>1. pc' = [pc EXCEPT ![r] = "notify"] /\ "notify" \in Pcs(r)
    BY <1>5 DEF Event, Goto, Pcs, CasterPcs
  <2>2. events' \in Nat /\ Message("event", capture, events') \in Messages
    BY <1>5 DEF Event, IpcTypeOK, Message, Messages
  <2>3. msg' \in [Threads -> Messages]
    BY <1>5, <2>2 DEF Event, IpcTypeOK
  <2> QED
    BY <1>5, <1>c, <2>1, <2>2, <2>3, GotoType DEF Event, IpcTypeOK
<1>6. ASSUME NEW c \in Clients,
             Connect(c) \/ LoopTest(c) \/ ReadTimeout(c) \/ ReadEnds(c) \/ Disconnect(c)
      PROVE  IpcTypeOK'
  <2>1. \A p \in {"loop", "wait", "bye", "ended"} : p \in Pcs(c)
    BY <1>c DEF ClientPcs
  <2>2. PICK p \in Pcs(c) : pc' = [pc EXCEPT ![c] = p]
    BY <1>6, <2>1 DEF Connect, LoopTest, ReadTimeout, ReadEnds, Disconnect, Goto
  <2>3. /\ connected' \in [Clients -> BOOLEAN]
        /\ pipe' \in [Clients -> {"none", "open", "closed"}]
        /\ accept' \in {"create", "connect", "push", "exited"} /\ arriving' \subseteq Clients
    BY <1>6 DEF Connect, LoopTest, ReadTimeout, ReadEnds, Disconnect, IpcTypeOK
  <2>4. UNCHANGED <<serving, listed, mutex, request, msg, todo, engineOpen, capturing, capture,
                    events, calls, inbox, stopping>>
    BY <1>6 DEF Connect, LoopTest, ReadTimeout, ReadEnds, Disconnect
  <2> QED
    BY <1>c, <2>2, <2>3, <2>4, GotoType DEF IpcTypeOK
<1>7. ASSUME NEW c \in Clients, NEW q \in Requests, Receive(c, q) PROVE IpcTypeOK'
  <2>1. pc' = [pc EXCEPT ![c] = "handle"] /\ "handle" \in Pcs(c)
    BY <1>7, <1>c DEF Receive, ClientPcs
  <2> QED
    BY <1>7, <1>c, <2>1, GotoType DEF Receive, IpcTypeOK
<1>8. ASSUME NEW c \in Clients, RequestStep(c) PROVE IpcTypeOK'
  <2>1. \A p \in {"halt", "notify", "respond", "lines"} : p \in Pcs(c)
    BY <1>c DEF ClientPcs, CasterPcs
  <2>2. PICK p \in Pcs(c) : pc' = [pc EXCEPT ![c] = p]
    BY <1>8, <2>1 DEF RequestStep, Halt, Stop, Start, Query, Respond, Goto
  <2>3. /\ request' \in [Clients -> Requests]
        /\ engineOpen' \in BOOLEAN /\ capturing' \in BOOLEAN /\ capture' \in Nat
    <3>1. CASE Halt(c) \/ Stop(c)
      BY <3>1 DEF Halt, Stop, IpcTypeOK
    <3>2. CASE Start(c)
      BY <3>2 DEF Start, IpcTypeOK
    <3>3. CASE Query(c) \/ Respond(c)
      BY <3>3 DEF Query, Respond, IpcTypeOK, Requests
    <3> QED
      BY <1>8, <3>1, <3>2, <3>3 DEF RequestStep
  <2>4. /\ Message("stopped", capture, calls) \in Messages
        /\ Message("started", capture', calls) \in Messages
    BY <2>3 DEF IpcTypeOK, Message, Messages
  <2>5. msg' \in [Threads -> Messages]
    <3>1. PICK m \in Messages : msg' = [msg EXCEPT ![c] = m]
      <4>1. msg[c] \in Messages /\ msg = [msg EXCEPT ![c] = msg[c]]
        BY <1>c DEF IpcTypeOK
      <4>2. CASE Halt(c) \/ Query(c) \/ Respond(c)
        BY <4>1, <4>2 DEF Halt, Query, Respond
      <4>3. CASE Stop(c) \/ Start(c)
        BY <4>1, <4>3, <2>4 DEF Stop, Start
      <4> QED
        BY <1>8, <4>2, <4>3 DEF RequestStep
    <3> QED
      BY <3>1 DEF IpcTypeOK
  <2>6. UNCHANGED <<serving, accept, listed, arriving, connected, pipe, mutex, todo, events,
                    calls, inbox, stopping>>
    BY <1>8 DEF RequestStep, Halt, Stop, Start, Query, Respond
  <2> QED
    BY <1>c, <2>2, <2>3, <2>5, <2>6, GotoType DEF IpcTypeOK
<1>9. CASE UNCHANGED vars
  BY <1>9 DEF vars, IpcTypeOK
<1> QED
  BY <1>1, <1>2, <1>3, <1>4, <1>5, <1>6, <1>7, <1>8, <1>9 DEF Next, CastStep

(* Every variable of the server keeps its type, for any number of clients, *)
(* hub threads, events and requests.                                       *)
THEOREM IpcTypeCorrect == Spec => []IpcTypeOK
  BY TypeInit, TypeStep, PTL DEF Spec

-----------------------------------------------------------------------------
(* The clients' mutex.                                                     *)

(* A thread holds the mutex exactly while it writes, Stop exactly while it *)
(* joins the client threads.                                               *)
LockInv ==
  /\ \A t \in Threads : pc[t] = "cast" <=> mutex = t
  /\ mutex = "stop" <=> stopping = "joinClients"

LEMMA LockInit == Init => LockInv
  BY ThreadsAssumption DEF Init, LockInv, Threads

(* One client thread moves, outside SendToAll, or one starts to broadcast. *)
Moves(c) == \E p : p # "cast" /\ pc[c] \notin CasterPcs /\ pc' = [pc EXCEPT ![c] = p]

LEMMA ClientMoves ==
  ASSUME NEW c \in Clients,
         \/ Connect(c) \/ LoopTest(c) \/ ReadTimeout(c) \/ ReadEnds(c) \/ Disconnect(c)
         \/ RequestStep(c)
         \/ \E q \in Requests : Receive(c, q)
  PROVE  Moves(c)
<1> USE DEF Moves, CasterPcs, Goto
<1>1. CASE Connect(c) \/ ReadTimeout(c) \/ ReadEnds(c) \/ Disconnect(c)
  BY <1>1 DEF Connect, ReadTimeout, ReadEnds, Disconnect
<1>2. CASE LoopTest(c)
  BY <1>2 DEF LoopTest
<1>3. CASE RequestStep(c)
  BY <1>3 DEF RequestStep, Halt, Stop, Start, Query, Respond
<1>4. CASE \E q \in Requests : Receive(c, q)
  BY <1>4 DEF Receive
<1> QED
  BY <1>1, <1>2, <1>3, <1>4

LEMMA LockStep == IpcTypeOK /\ LockInv /\ [Next]_vars => LockInv'
<1> SUFFICES ASSUME IpcTypeOK, LockInv, [Next]_vars PROVE LockInv'
    OBVIOUS
<1> USE DEF LockInv
<1>c. /\ pc \in [Threads -> CasterPcs \cup ClientPcs \cup {"idle"}]
      /\ \A c \in Clients : c \in Threads
      /\ \A t \in Threads : t \notin {"free", "stop"}
  BY ThreadsAssumption DEF IpcTypeOK, Threads
<1>1. CASE AcceptStep \/ ConnectFails \/ StopCalled
  BY <1>1 DEF AcceptStep, Listen, ListenStopped, Push, ConnectFails, StopCalled, threadVars, LockInv
<1>2. CASE StopStep
  BY <1>2, <1>c DEF StopStep, DisconnectAll, JoinAccept, LockClients, JoinClients, threadVars
<1>3. ASSUME NEW t \in Threads, Lock(t) \/ Unlock(t) PROVE LockInv'
  <2>1. AfterCast(t) # "cast"
    BY DEF AfterCast
  <2> QED
    BY <1>3, <1>c, <2>1 DEF Lock, Unlock, Goto
<1>4. ASSUME NEW t \in Threads, Broadcast(t) PROVE LockInv'
  <2>1. AfterCast(t) # "cast"
    BY DEF AfterCast
  <2> QED
    BY <1>4, <1>c, <2>1 DEF Broadcast, Goto
<1>5. ASSUME NEW t \in Threads, NEW c \in Clients, CastTo(t, c) PROVE LockInv'
  BY <1>5 DEF CastTo, threadVars
<1>6. ASSUME NEW r \in Readers, Event(r) PROVE LockInv'
  BY <1>6, <1>c DEF Event, Goto
<1>7. ASSUME NEW c \in Clients,
             \/ Connect(c) \/ LoopTest(c) \/ ReadTimeout(c) \/ ReadEnds(c) \/ Disconnect(c)
             \/ RequestStep(c)
             \/ \E q \in Requests : Receive(c, q)
      PROVE  LockInv'
  <2>1. Moves(c)
    BY <1>7, ClientMoves
  <2>2. UNCHANGED <<mutex, stopping>>
    BY <1>7 DEF Connect, LoopTest, ReadTimeout, ReadEnds, Disconnect, RequestStep, Halt, Stop,
                Start, Query, Respond, Receive
  <2> QED
    BY <1>c, <2>1, <2>2 DEF Moves, CasterPcs
<1>8. CASE UNCHANGED vars
  BY <1>8 DEF vars, threadVars
<1> QED
  BY <1>1, <1>2, <1>3, <1>4, <1>5, <1>6, <1>7, <1>8 DEF Next, CastStep

(* Nothing keeps the mutex from the accept thread while Stop waits for it. *)
THEOREM AcceptNotBlockedCorrect == Spec => []AcceptNotBlocked
<1>1. IpcTypeOK /\ LockInv => AcceptNotBlocked
  BY DEF IpcTypeOK, LockInv, AcceptNotBlocked
<1> QED
  BY <1>1, TypeInit, TypeStep, LockInit, LockStep, PTL DEF Spec

-----------------------------------------------------------------------------
(* What Stop leaves.                                                       *)

(* Every client that ever connected is in m_clients, or in the hand of the *)
(* accept thread, until Stop has joined them; so once the accept thread is *)
(* gone, the threads Stop joins are all there are.                         *)
AcceptInv ==
  /\ accept # "push" => arriving = {}
  /\ stopping \in {"lock", "joinClients", "done"} => accept = "exited"
  /\ stopping # "done" => \A c \in Clients : pc[c] # "none" => c \in listed \cup arriving
  /\ stopping = "done" => \A c \in Clients : pc[c] \in {"none", "ended"}
  /\ \A c \in Clients : pipe[c] = "open" => pc[c] \notin {"none", "ended"}

LEMMA AcceptInit == Init => AcceptInv
  BY ThreadsAssumption DEF Init, AcceptInv, Threads

(* A client thread that has started and not ended runs on.                 *)
LEMMA AliveMoves ==
  ASSUME NEW c \in Clients,
         LoopTest(c) \/ ReadTimeout(c) \/ ReadEnds(c) \/ RequestStep(c)
           \/ \E q \in Requests : Receive(c, q)
  PROVE  /\ pc[c] \notin {"none", "ended"}
         /\ \E p : p \notin {"none", "ended"} /\ pc' = [pc EXCEPT ![c] = p]
         /\ UNCHANGED <<accept, listed, arriving, stopping, pipe>>
<1> USE DEF Goto, acceptVars, clientVars
<1>1. CASE ReadTimeout(c) \/ ReadEnds(c)
  BY <1>1 DEF ReadTimeout, ReadEnds
<1>2. CASE LoopTest(c)
  BY <1>2 DEF LoopTest
<1>3. CASE RequestStep(c)
  BY <1>3 DEF RequestStep, Halt, Stop, Start, Query, Respond
<1>4. CASE \E q \in Requests : Receive(c, q)
  BY <1>4 DEF Receive
<1> QED
  BY <1>1, <1>2, <1>3, <1>4

LEMMA AcceptStepKeeps == IpcTypeOK /\ AcceptInv /\ [Next]_vars => AcceptInv'
<1> SUFFICES ASSUME IpcTypeOK, AcceptInv, [Next]_vars PROVE AcceptInv'
    OBVIOUS
<1> USE DEF AcceptInv, acceptVars, clientVars
<1>c. /\ pc \in [Threads -> CasterPcs \cup ClientPcs \cup {"idle"}]
      /\ pipe \in [Clients -> {"none", "open", "closed"}]
      /\ connected \in [Clients -> BOOLEAN]
      /\ \A c \in Clients : c \in Threads
      /\ listed \subseteq Clients
  BY DEF IpcTypeOK, Threads
<1>1. CASE AcceptStep \/ ConnectFails \/ StopCalled
  BY <1>1 DEF AcceptStep, Listen, ListenStopped, Push, ConnectFails, StopCalled, threadVars
<1>2. CASE StopStep
  <2>1. CASE DisconnectAll
    BY <2>1, <1>c DEF DisconnectAll, threadVars
  <2>2. CASE JoinAccept \/ LockClients
    BY <2>2 DEF JoinAccept, LockClients, threadVars
  <2>3. CASE JoinClients
    BY <2>3 DEF JoinClients, threadVars
  <2> QED
    BY <1>2, <2>1, <2>2, <2>3 DEF StopStep
<1>3. ASSUME NEW t \in Threads, Broadcast(t) \/ Lock(t) \/ Unlock(t) PROVE AcceptInv'
  <2>1. /\ pc[t] \notin {"none", "ended"}
        /\ \E p : p \notin {"none", "ended"} /\ pc' = [pc EXCEPT ![t] = p]
        /\ UNCHANGED <<accept, listed, arriving, stopping, pipe>>
    BY <1>3 DEF Broadcast, Lock, Unlock, Goto, AfterCast
  <2> QED
    BY <1>c, <2>1
<1>4. ASSUME NEW t \in Threads, NEW c \in Clients, CastTo(t, c) PROVE AcceptInv'
  BY <1>4 DEF CastTo, threadVars
<1>5. ASSUME NEW r \in Readers, Event(r) PROVE AcceptInv'
  <2>1. pc' = [pc EXCEPT ![r] = "notify"] /\ pc[r] = "idle"
    BY <1>5 DEF Event, Goto
  <2> QED
    BY <1>5, <1>c, <2>1 DEF Event
<1>6. ASSUME NEW c \in Clients, Connect(c) PROVE AcceptInv'
  BY <1>6, <1>c DEF Connect, Goto
<1>7. ASSUME NEW c \in Clients, Disconnect(c) PROVE AcceptInv'
  BY <1>7, <1>c DEF Disconnect, Goto
<1>8. ASSUME NEW c \in Clients,
             LoopTest(c) \/ ReadTimeout(c) \/ ReadEnds(c) \/ RequestStep(c)
               \/ \E q \in Requests : Receive(c, q)
      PROVE  AcceptInv'
  BY <1>8, <1>c, AliveMoves
<1>9. CASE UNCHANGED vars
  BY <1>9 DEF vars, threadVars
<1> QED
  BY <1>1, <1>2, <1>3, <1>4, <1>5, <1>6, <1>7, <1>8, <1>9 DEF Next, CastStep

(* A Stop that returns has left no thread and no open pipe behind, also of *)
(* the clients that connected while it waited, for any number of them.     *)
THEOREM StopLeavesNothingCorrect == Spec => []StopLeavesNothing
<1>1. AcceptInv => StopLeavesNothing
  BY DEF AcceptInv, StopLeavesNothing
<1> QED
  BY <1>1, TypeInit, TypeStep, AcceptInit, AcceptStepKeeps, PTL DEF Spec

-----------------------------------------------------------------------------
(* The messages that exist: on their way, or received.                     *)

InFlight(t) == pc[t] \in CasterPcs

(* One request is handled at a time, and none starts or stops a capture    *)
(* while the hub threads may still call back.                              *)
HandlerInv ==
  /\ \A c, d \in Clients : pc[c] \in {"handle", "halt"} /\ pc[d] \in {"handle", "halt"} => c = d
  /\ \A c \in Clients : pc[c] = "halt" => ~capturing

LEMMA HandlerInit == Init => HandlerInv
  BY ThreadsAssumption DEF Init, HandlerInv, Threads

LEMMA HandlerStep == IpcTypeOK /\ HandlerInv /\ [Next]_vars => HandlerInv'
<1> SUFFICES ASSUME IpcTypeOK, HandlerInv, [Next]_vars PROVE HandlerInv'
    OBVIOUS
<1> USE DEF HandlerInv, engineVars
<1>c. /\ pc \in [Threads -> CasterPcs \cup ClientPcs \cup {"idle"}]
      /\ \A c \in Clients : c \in Threads /\ c \notin Readers
  BY ThreadsAssumption DEF IpcTypeOK, Threads
<1>1. CASE AcceptStep \/ ConnectFails \/ StopCalled
  BY <1>1 DEF AcceptStep, Listen, ListenStopped, Push, ConnectFails, StopCalled, threadVars
<1>2. CASE StopStep
  BY <1>2 DEF StopStep, DisconnectAll, JoinAccept, LockClients, JoinClients, threadVars
<1>3. ASSUME NEW t \in Threads, Broadcast(t) \/ Lock(t) \/ Unlock(t) PROVE HandlerInv'
  <2>1. AfterCast(t) \notin {"handle", "halt"}
    BY DEF AfterCast
  <2> QED
    BY <1>3, <1>c, <2>1 DEF Broadcast, Lock, Unlock, Goto
<1>4. ASSUME NEW t \in Threads, NEW c \in Clients, CastTo(t, c) PROVE HandlerInv'
  BY <1>4 DEF CastTo, threadVars
<1>5. ASSUME NEW r \in Readers, Event(r) PROVE HandlerInv'
  BY <1>5, <1>c DEF Event, Goto
<1>6. ASSUME NEW c \in Clients,
             Connect(c) \/ LoopTest(c) \/ ReadTimeout(c) \/ ReadEnds(c) \/ Disconnect(c)
      PROVE  HandlerInv'
  BY <1>6, <1>c DEF Connect, LoopTest, ReadTimeout, ReadEnds, Disconnect, Goto
<1>7. ASSUME NEW c \in Clients, NEW q \in Requests, Receive(c, q) PROVE HandlerInv'
  BY <1>7, <1>c DEF Receive, Handled
<1>8. ASSUME NEW c \in Clients, RequestStep(c) PROVE HandlerInv'
  <2>1. CASE Halt(c)
    BY <2>1, <1>c DEF Halt, Goto
  <2>2. CASE Stop(c)
    BY <2>2, <1>c DEF Stop
  <2>3. CASE Start(c)
    <3>1. \A d \in Clients : pc'[d] \notin {"handle", "halt"}
      BY <2>3, <1>c DEF Start
    <3> QED
      BY <3>1
  <2>4. CASE Query(c)
    BY <2>4, <1>c DEF Query, Goto
  <2>5. CASE Respond(c)
    BY <2>5, <1>c DEF Respond, Goto
  <2> QED
    BY <1>8, <2>1, <2>2, <2>3, <2>4, <2>5 DEF RequestStep
<1>9. CASE UNCHANGED vars
  BY <1>9 DEF vars, threadVars
<1> QED
  BY <1>1, <1>2, <1>3, <1>4, <1>5, <1>6, <1>7, <1>8, <1>9 DEF Next, CastStep

(* What a message that exists says of the engine: it is of a capture that  *)
(* has begun, and its number has been given out (a notice's number is that *)
(* of a request that has been handled); and once a capture's end has been  *)
(* told or is about to be, no hub thread has an event of it, nor gets one. *)
Sound(m) ==
  /\ m.kind \in {"event", "started", "stopped"}
  /\ m.capture <= capture
  /\ m.kind = "event" => m.id <= events
  /\ m.kind # "event" => m.id <= calls /\ (Handled => m.id < calls)
  /\ (m.kind = "stopped" /\ m.capture = capture) => ~capturing /\ Joined

MessageInv ==
  /\ \A t \in Threads : InFlight(t) => Sound(msg[t])
  /\ \A c \in Clients : \A i \in DOMAIN inbox[c] : Sound(inbox[c][i])
  /\ \A r \in Readers : InFlight(r) => msg[r].kind = "event" /\ msg[r].capture = capture
  /\ \A c \in Clients : InFlight(c) => msg[c].kind # "event"

LEMMA NoMessagesInit ==
  ASSUME Init
  PROVE  (\A t \in Threads : ~InFlight(t)) /\ (\A c \in Clients : DOMAIN inbox[c] = {})
<1>1. \A t \in Threads : ~InFlight(t)
  BY DEF Init, InFlight, CasterPcs
<1>2. \A c \in Clients : inbox[c] = <<>>
  BY DEF Init
<1>3. DOMAIN <<>> = {}
  OBVIOUS
<1>4. \A c \in Clients : DOMAIN inbox[c] = {}
  BY <1>2, <1>3
<1> QED
  BY <1>1, <1>4

LEMMA MessageInit == Init => MessageInv
  BY NoMessagesInit DEF MessageInv, Threads

(* No step makes an existing message unsound.                              *)
LEMMA SoundStays ==
  ASSUME IpcTypeOK, HandlerInv, [Next]_vars, NEW m \in Messages, Sound(m)
  PROVE  Sound(m)'
<1> USE DEF Sound, engineVars, boundVars
<1>c. /\ pc \in [Threads -> CasterPcs \cup ClientPcs \cup {"idle"}]
      /\ \A r \in Readers : r \in Threads
      /\ \A c \in Clients : c \in Threads /\ c \notin Readers
      /\ \A t \in Threads : t \notin Readers => t \in Clients
      /\ m.id \in Nat /\ m.capture \in Nat
      /\ capture \in Nat /\ events \in Nat /\ calls \in Nat
  BY ThreadsAssumption DEF IpcTypeOK, Threads, Messages
<1>1. CASE AcceptStep \/ ConnectFails \/ StopCalled \/ StopStep
  BY <1>1 DEF AcceptStep, Listen, ListenStopped, Push, ConnectFails, StopCalled, StopStep,
              DisconnectAll, JoinAccept, LockClients, JoinClients, threadVars, Handled, Joined
<1>2. ASSUME NEW t \in Threads, Broadcast(t) \/ Lock(t) \/ Unlock(t) PROVE Sound(m)'
  <2>1. UNCHANGED <<capture, capturing, events, calls>>
    BY <1>2 DEF Broadcast, Lock, Unlock
  <2>2. PICK p : pc' = [pc EXCEPT ![t] = p] /\ pc[t] \in CasterPcs
                 /\ p \in {"lock", "cast", AfterCast(t)}
    BY <1>2 DEF Broadcast, Lock, Unlock, Goto, CasterPcs
  <2>3. Handled' => Handled
    BY <1>c, <2>2 DEF Handled, AfterCast
  <2>4. Joined => Joined'
    BY <1>c, <2>2 DEF Joined, CasterPcs
  <2> QED
    BY <2>1, <2>3, <2>4
<1>3. ASSUME NEW t \in Threads, NEW c \in Clients, CastTo(t, c) PROVE Sound(m)'
  BY <1>3 DEF CastTo, threadVars, Handled, Joined
<1>4. ASSUME NEW r \in Readers, Event(r) PROVE Sound(m)'
  <2>1. Handled' => Handled
    BY <1>4, <1>c DEF Event, Goto, Handled
  <2> QED
    BY <1>4, <1>c, <2>1 DEF Event
<1>5. ASSUME NEW c \in Clients,
             Connect(c) \/ LoopTest(c) \/ ReadTimeout(c) \/ ReadEnds(c) \/ Disconnect(c)
      PROVE  Sound(m)'
  <2>1. PICK p \in {"loop", "wait", "bye", "ended"} : pc' = [pc EXCEPT ![c] = p]
    BY <1>5 DEF Connect, LoopTest, ReadTimeout, ReadEnds, Disconnect, Goto
  <2>2. UNCHANGED <<capture, capturing, events, calls>>
    BY <1>5 DEF Connect, LoopTest, ReadTimeout, ReadEnds, Disconnect
  <2>3. (Handled' => Handled) /\ (Joined => Joined')
    BY <1>c, <2>1 DEF Handled, Joined
  <2> QED
    BY <2>2, <2>3
<1>6. ASSUME NEW c \in Clients, NEW q \in Requests, Receive(c, q) PROVE Sound(m)'
  <2>1. Joined => Joined'
    BY <1>6, <1>c DEF Receive, Joined
  <2> QED
    BY <1>6, <1>c, <2>1 DEF Receive
<1>7. ASSUME NEW c \in Clients, RequestStep(c) PROVE Sound(m)'
  <2>1. Joined => Joined'
    <3>1. \E p : pc' = [pc EXCEPT ![c] = p]
      BY <1>7 DEF RequestStep, Halt, Stop, Start, Query, Respond, Goto
    <3> QED
      BY <1>c, <3>1 DEF Joined
  <2>2. Handled' => Handled
    <3>1. \E p : pc' = [pc EXCEPT ![c] = p] /\ (p \in {"handle", "halt"} => pc[c] = "handle")
      BY <1>7 DEF RequestStep, Halt, Stop, Start, Query, Respond, Goto
    <3> QED
      BY <1>c, <3>1 DEF Handled
  <2>3. events' = events /\ calls' = calls
    BY <1>7 DEF RequestStep, Halt, Stop, Start, Query, Respond
  <2>4. \/ capture' = capture /\ (capturing' => capturing)
        \/ capture' = capture + 1
    BY <1>7 DEF RequestStep, Halt, Stop, Start, Query, Respond
  <2> QED
    BY <1>c, <2>1, <2>2, <2>3, <2>4
<1>8. CASE UNCHANGED vars
  BY <1>8 DEF vars, threadVars, Handled, Joined
<1> QED
  BY <1>1, <1>2, <1>3, <1>4, <1>5, <1>6, <1>7, <1>8 DEF Next, CastStep

(* A message that is on its way after a step was so before, but for those  *)
(* of a hub thread's call back and of a start or a stop; and clients only  *)
(* receive what a thread that holds the mutex writes.                      *)
NothingNew ==
  /\ \A t \in Threads : InFlight(t)' => InFlight(t) /\ msg'[t] = msg[t]
  /\ inbox' = inbox

LEMMA OldMessages ==
  ASSUME IpcTypeOK, [Next]_vars
  PROVE  \/ NothingNew
         \/ \E t \in Threads, c \in Clients : CastTo(t, c)
         \/ \E r \in Readers : Event(r)
         \/ \E c \in Clients : Stop(c) \/ Start(c)
<1> USE DEF NothingNew, InFlight
<1>c. /\ pc \in [Threads -> CasterPcs \cup ClientPcs \cup {"idle"}]
      /\ \A c \in Clients : c \in Threads
  BY DEF IpcTypeOK, Threads
<1>1. CASE AcceptStep \/ ConnectFails \/ StopCalled \/ StopStep
  BY <1>1 DEF AcceptStep, Listen, ListenStopped, Push, ConnectFails, StopCalled, StopStep,
              DisconnectAll, JoinAccept, LockClients, JoinClients, threadVars
<1>2. ASSUME NEW t \in Threads, Broadcast(t) \/ Lock(t) \/ Unlock(t) PROVE NothingNew
  <2>1. /\ pc[t] \in CasterPcs /\ AfterCast(t) \notin CasterPcs
        /\ \A u \in Threads : u # t => msg'[u] = msg[u]
        /\ inbox' = inbox
    BY <1>2 DEF Broadcast, Lock, Unlock, Goto, CasterPcs, AfterCast, IpcTypeOK
  <2>2. CASE pc' = [pc EXCEPT ![t] = AfterCast(t)]
    BY <1>c, <2>1, <2>2
  <2>3. CASE msg' = msg /\ \E p : pc' = [pc EXCEPT ![t] = p]
    BY <1>c, <2>1, <2>3
  <2> QED
    BY <1>2, <2>2, <2>3 DEF Broadcast, Lock, Unlock, Goto
<1>3. ASSUME NEW c \in Clients,
             \/ Connect(c) \/ LoopTest(c) \/ ReadTimeout(c) \/ ReadEnds(c) \/ Disconnect(c)
             \/ Halt(c) \/ Query(c) \/ Respond(c) \/ \E q \in Requests : Receive(c, q)
      PROVE  NothingNew
  <2>1. msg' = msg /\ inbox' = inbox
    BY <1>3 DEF Connect, LoopTest, ReadTimeout, ReadEnds, Disconnect, Halt, Query, Respond, Receive
  <2>2. PICK p : pc' = [pc EXCEPT ![c] = p] /\ p \notin CasterPcs
    <3>1. CASE Connect(c) \/ LoopTest(c) \/ ReadTimeout(c) \/ ReadEnds(c) \/ Disconnect(c)
      BY <3>1 DEF Connect, LoopTest, ReadTimeout, ReadEnds, Disconnect, Goto, CasterPcs
    <3>2. CASE Halt(c) \/ Query(c) \/ Respond(c) \/ \E q \in Requests : Receive(c, q)
      BY <3>2 DEF Halt, Query, Respond, Receive, Goto, CasterPcs
    <3> QED
      BY <1>3, <3>1, <3>2
  <2> QED
    BY <1>c, <2>1, <2>2
<1>4. CASE UNCHANGED vars
  BY <1>4 DEF vars, threadVars
<1> QED
  BY <1>1, <1>2, <1>3, <1>4 DEF Next, CastStep, RequestStep

(* A message broadcast anew is sound, and is none that existed.            *)
Fresh(m) == \A n \in Messages : Sound(n) => n # m

LEMMA EventFresh ==
  ASSUME IpcTypeOK, NEW r \in Readers, Event(r)
  PROVE  /\ msg'[r] = Message("event", capture, events + 1)
         /\ Sound(msg[r])'
         /\ Fresh(Message("event", capture, events + 1))
         /\ \A t \in Threads : t # r => msg'[t] = msg[t] /\ (InFlight(t)' <=> InFlight(t))
         /\ inbox' = inbox /\ capture' = capture
<1>1. /\ r \in Threads /\ capture \in Nat /\ events \in Nat
      /\ msg \in [Threads -> Messages]
      /\ pc \in [Threads -> CasterPcs \cup ClientPcs \cup {"idle"}]
  BY DEF Threads, IpcTypeOK
<1>2. /\ msg'[r] = Message("event", capture, events + 1)
      /\ \A t \in Threads : t # r => msg'[t] = msg[t]
      /\ inbox' = inbox /\ capture' = capture /\ events' = events + 1
  BY <1>1 DEF Event, engineVars
<1>3. \A t \in Threads : t # r => (InFlight(t)' <=> InFlight(t))
  BY <1>1 DEF Event, Goto, InFlight
<1>4. Sound(msg[r])'
  BY <1>1, <1>2 DEF Sound, Message
<1>5. Fresh(Message("event", capture, events + 1))
  BY <1>1 DEF Fresh, Sound, Message, Messages
<1> QED
  BY <1>2, <1>3, <1>4, <1>5

(* The notice of a start or a stop has the number of its request, which    *)
(* was the one request being handled.                                      *)
Notice(m) == m.kind \in {"started", "stopped"} /\ m.id = calls /\ m \in Messages

LEMMA NoticeFresh ==
  ASSUME IpcTypeOK, HandlerInv, NEW c \in Clients, Stop(c) \/ Start(c)
  PROVE  /\ InFlight(c)' => Notice(msg'[c]) /\ Sound(msg[c])'
         /\ \A t \in Threads : t # c => msg'[t] = msg[t] /\ (InFlight(t)' <=> InFlight(t))
         /\ inbox' = inbox /\ Joined
         /\ \A m : Notice(m) => Fresh(m)
<1>1. /\ c \in Threads /\ capture \in Nat /\ events \in Nat /\ calls \in Nat
      /\ msg \in [Threads -> Messages]
      /\ pc \in [Threads -> CasterPcs \cup ClientPcs \cup {"idle"}]
      /\ \A r \in Readers : r \in Threads /\ r # c
  BY ThreadsAssumption DEF Threads, IpcTypeOK
<1>2. /\ pc[c] = "halt" /\ Joined
      /\ \E p \in {"notify", "respond"} : pc' = [pc EXCEPT ![c] = p]
      /\ \A t \in Threads : t # c => msg'[t] = msg[t]
      /\ inbox' = inbox /\ calls' = calls /\ events' = events
  BY <1>1 DEF Stop, Start, boundVars
<1>3. \A t \in Threads : t # c => (InFlight(t)' <=> InFlight(t))
  BY <1>1, <1>2 DEF InFlight
<1>4. ~Handled' /\ Joined' /\ Handled
  <2>1. \A d \in Clients : d # c => pc[d] \notin {"handle", "halt"}
    BY <1>2 DEF HandlerInv
  <2>2. \A d \in Clients : d \in Threads
    BY DEF Threads
  <2> QED
    BY <1>1, <1>2, <2>1, <2>2 DEF Handled, Joined
<1>5. \A m : Notice(m) => Fresh(m)
  BY <1>1, <1>4 DEF Notice, Fresh, Sound, Messages
<1>6. ASSUME InFlight(c)' PROVE Notice(msg'[c]) /\ Sound(msg[c])'
  <2>1. pc'[c] = "notify"
    BY <1>1, <1>2, <1>6 DEF InFlight, CasterPcs
  <2>2. CASE Stop(c)
    <3>1. msg'[c] = Message("stopped", capture, calls)
      BY <1>1, <2>1, <2>2 DEF Stop
    <3>2. capture' = capture /\ ~capturing'
      BY <1>2, <2>2 DEF Stop, HandlerInv, engineVars
    <3> QED
      BY <1>1, <1>2, <1>4, <3>1, <3>2 DEF Notice, Sound, Message, Messages
  <2>3. CASE Start(c)
    <3>1. msg'[c] = Message("started", capture', calls) /\ capture' \in Nat
      BY <1>1, <2>1, <2>3 DEF Start
    <3> QED
      BY <1>1, <1>2, <1>4, <3>1 DEF Notice, Sound, Message, Messages
  <2> QED
    BY <2>2, <2>3
<1> QED
  BY <1>2, <1>3, <1>5, <1>6

(* What a client has received, after a broadcast was written to it.        *)
LEMMA CastInbox ==
  ASSUME IpcTypeOK, NEW t \in Threads, NEW c \in Clients, CastTo(t, c)
  PROVE  /\ pc' = pc /\ msg' = msg /\ capture' = capture /\ todo' = [todo EXCEPT ![t] = @ \ {c}]
         /\ \A d \in Clients : d # c => inbox'[d] = inbox[d]
         /\ \/ inbox' = inbox
            \/ /\ Len(inbox'[c]) = Len(inbox[c]) + 1
               /\ inbox'[c][Len(inbox[c]) + 1] = msg[t]
               /\ \A i \in 1..Len(inbox[c]) : inbox'[c][i] = inbox[c][i]
<1>1. inbox \in [Clients -> Seq(Messages)] /\ inbox[c] \in Seq(Messages) /\ msg[t] \in Messages
  BY DEF IpcTypeOK
<1>2. CASE inbox' = inbox
  BY <1>2 DEF CastTo, threadVars, engineVars
<1>3. CASE inbox' = [inbox EXCEPT ![c] = Append(@, msg[t])]
  <2>1. inbox'[c] = Append(inbox[c], msg[t])
    BY <1>1, <1>3
  <2>2. \A d \in Clients : d # c => inbox'[d] = inbox[d]
    BY <1>1, <1>3
  <2> QED
    BY <1>1, <2>1, <2>2, AppendProperties DEF CastTo, threadVars, engineVars
<1> QED
  BY <1>2, <1>3 DEF CastTo, Write

LEMMA MessageStep ==
  IpcTypeOK /\ IpcTypeOK' /\ HandlerInv /\ MessageInv /\ [Next]_vars => MessageInv'
<1> SUFFICES ASSUME IpcTypeOK, IpcTypeOK', HandlerInv, MessageInv, [Next]_vars PROVE MessageInv'
    OBVIOUS
<1> DEFINE Kinds(t) ==
      /\ t \in Readers => msg[t].kind = "event" /\ msg[t].capture = capture
      /\ t \in Clients => msg[t].kind # "event"
<1>c. /\ msg \in [Threads -> Messages] /\ inbox \in [Clients -> Seq(Messages)]
      /\ \A r \in Readers : r \in Threads /\ r \notin Clients
      /\ \A c \in Clients : c \in Threads /\ c \notin Readers
      /\ pc \in [Threads -> CasterPcs \cup ClientPcs \cup {"idle"}]
  BY ThreadsAssumption DEF IpcTypeOK, Threads
<1>i. (\A t \in Threads : InFlight(t) => Sound(msg[t]) /\ Kinds(t))
      /\ (\A c \in Clients : \A i \in 1..Len(inbox[c]) : Sound(inbox[c][i]) /\ inbox[c][i] \in Messages)
  BY <1>c DEF MessageInv
<1>g. SUFFICES /\ \A t \in Threads : InFlight(t)' => Sound(msg[t])' /\ Kinds(t)'
               /\ \A c \in Clients : \A i \in 1..Len(inbox'[c]) : Sound(inbox[c][i])'
  <2>1. \A c \in Clients : inbox'[c] \in Seq(Messages)
    BY DEF IpcTypeOK
  <2>2. \A c \in Clients : \A i \in DOMAIN inbox'[c] : Sound(inbox[c][i])'
    BY <1>g, <2>1
  <2>3. \A r \in Readers : InFlight(r)' => msg'[r].kind = "event" /\ msg'[r].capture = capture'
    BY <1>g, <1>c
  <2>4. \A c \in Clients : InFlight(c)' => msg'[c].kind # "event"
    BY <1>g, <1>c
  <2> QED
    BY <1>g, <2>2, <2>3, <2>4 DEF MessageInv
<1>o. ASSUME NEW t \in Threads, InFlight(t), msg'[t] = msg[t] PROVE Sound(msg[t])'
  <2>1. PICK m \in Messages : m = msg[t]
    BY <1>c
  <2>2. Sound(m)'
    BY <1>o, <1>i, <2>1, SoundStays
  <2> QED
    BY <1>o, <2>1, <2>2
<1>r. ASSUME NEW c \in Clients, NEW i \in 1..Len(inbox[c]), inbox'[c][i] = inbox[c][i]
      PROVE  Sound(inbox[c][i])'
  <2>1. PICK m \in Messages : m = inbox[c][i]
    BY <1>c, <1>i
  <2>2. Sound(m)'
    BY <1>i, <2>1, SoundStays
  <2> QED
    BY <1>r, <2>1, <2>2
<1>q. \/ capture' = capture
      \/ Joined /\ \E c \in Clients : Start(c)
  BY DEF Next, AcceptStep, Listen, ListenStopped, Push, ConnectFails, StopCalled, StopStep,
         DisconnectAll, JoinAccept, LockClients, JoinClients, CastStep, Broadcast, Lock, Unlock,
         CastTo, Event, Connect, LoopTest, ReadTimeout, ReadEnds, Disconnect, RequestStep, Halt,
         Stop, Start, Query, Respond, Receive, engineVars, vars
<1>j. Joined => \A r \in Readers : ~InFlight(r)
  BY DEF Joined, InFlight, CasterPcs
<1>1. CASE NothingNew
  <2>1. capture' = capture \/ \A r \in Readers : ~InFlight(r)
    BY <1>q, <1>j
  <2> QED
    BY <1>1, <1>i, <1>o, <1>r, <2>1, <1>c DEF NothingNew
<1>2. ASSUME NEW t \in Threads, NEW c \in Clients, CastTo(t, c)
      PROVE  /\ \A u \in Threads : InFlight(u)' => Sound(msg[u])' /\ Kinds(u)'
             /\ \A d \in Clients : \A i \in 1..Len(inbox'[d]) : Sound(inbox[d][i])'
  <2>1. InFlight(t) /\ msg'[t] = msg[t]
    BY <1>2, CastInbox DEF InFlight, CastTo, CasterPcs
  <2>2. Sound(msg[t])'
    BY <1>o, <2>1
  <2>3. \A u \in Threads : InFlight(u)' => Sound(msg[u])' /\ Kinds(u)'
    BY <1>2, <1>i, <1>o, CastInbox DEF InFlight
  <2>4. ASSUME NEW d \in Clients, NEW i \in 1..Len(inbox'[d]) PROVE Sound(inbox[d][i])'
    <3>1. CASE i \in 1..Len(inbox[d]) /\ inbox'[d][i] = inbox[d][i]
      BY <1>r, <3>1
    <3>2. CASE d = c /\ i = Len(inbox[c]) + 1 /\ inbox'[c][i] = msg[t]
      BY <2>1, <2>2, <3>2
    <3> QED
      <4>1. Len(inbox[c]) \in Nat
        BY <1>c
      <4> QED
        BY <1>2, <2>4, <3>1, <3>2, <4>1, CastInbox
  <2> QED
    BY <2>3, <2>4
<1>3. ASSUME NEW r \in Readers, Event(r)
      PROVE  /\ \A t \in Threads : InFlight(t)' => Sound(msg[t])' /\ Kinds(t)'
             /\ \A c \in Clients : \A i \in 1..Len(inbox'[c]) : Sound(inbox[c][i])'
  <2>1. Kinds(r)' /\ Sound(msg[r])'
    BY <1>c, <1>3, EventFresh DEF Message
  <2> QED
    BY <1>3, <1>i, <1>o, <1>r, <2>1, EventFresh
<1>4. ASSUME NEW c \in Clients, Stop(c) \/ Start(c)
      PROVE  /\ \A t \in Threads : InFlight(t)' => Sound(msg[t])' /\ Kinds(t)'
             /\ \A d \in Clients : \A i \in 1..Len(inbox'[d]) : Sound(inbox[d][i])'
  <2>1. InFlight(c)' => Kinds(c)' /\ Sound(msg[c])'
    BY <1>c, <1>4, NoticeFresh DEF Notice
  <2>2. \A r \in Readers : ~InFlight(r)'
    BY <1>c, <1>4, <1>j, NoticeFresh
  <2>3. ASSUME NEW t \in Threads, InFlight(t)', t # c PROVE Sound(msg[t])' /\ Kinds(t)'
    BY <1>4, <1>i, <1>o, <1>c, <2>2, <2>3, NoticeFresh
  <2> QED
    BY <1>4, <1>r, <2>1, <2>3, NoticeFresh
<1> QED
  BY <1>1, <1>2, <1>3, <1>4, OldMessages

LEMMA InboxGrows ==
  ASSUME IpcTypeOK, HandlerInv, [Next]_vars
  PROVE  inbox' = inbox \/ \E t \in Threads, c \in Clients : CastTo(t, c)
  BY OldMessages, EventFresh, NoticeFresh DEF NothingNew

-----------------------------------------------------------------------------
(* capture.stopped is the last of its capture.                             *)

LEMMA LastStep ==
  /\ IpcTypeOK /\ IpcTypeOK' /\ HandlerInv /\ MessageInv /\ StoppedIsLast
  /\ [Next]_vars
  => StoppedIsLast'
<1> SUFFICES ASSUME IpcTypeOK, IpcTypeOK', HandlerInv, MessageInv, StoppedIsLast, [Next]_vars
             PROVE  StoppedIsLast'
    OBVIOUS
<1>c. /\ \A c \in Clients : inbox[c] \in Seq(Messages) /\ inbox'[c] \in Seq(Messages)
      /\ \A t \in Threads : msg[t] \in Messages /\ (t \in Readers \/ t \in Clients)
      /\ capture \in Nat
  BY DEF IpcTypeOK, Threads
<1>1. CASE inbox' = inbox
  BY <1>1 DEF StoppedIsLast
<1>2. ASSUME NEW t \in Threads, NEW d \in Clients, CastTo(t, d) PROVE StoppedIsLast'
  <2> SUFFICES ASSUME NEW c \in Clients, NEW i \in DOMAIN inbox'[c], NEW j \in DOMAIN inbox'[c],
                      i < j, inbox'[c][i].kind = "stopped", inbox'[c][j].kind = "event"
               PROVE  inbox'[c][j].capture > inbox'[c][i].capture
      BY DEF StoppedIsLast
  <2>1. i \in 1..Len(inbox'[c]) /\ j \in 1..Len(inbox'[c]) /\ Len(inbox[c]) \in Nat
    BY <1>c
  <2>2. i \in 1..Len(inbox[c]) /\ inbox'[c][i] = inbox[c][i]
    BY <1>2, <2>1, CastInbox
  <2>3. CASE j \in 1..Len(inbox[c]) /\ inbox'[c][j] = inbox[c][j]
    BY <1>c, <2>2, <2>3 DEF StoppedIsLast
  <2>4. CASE inbox'[c][j] = msg[t]
    <3>1. InFlight(t) /\ t \in Readers
      BY <1>2, <1>c, <2>4 DEF InFlight, CastTo, CasterPcs, MessageInv
    <3>2. msg[t].capture = capture /\ ~Joined
      BY <3>1 DEF MessageInv, Joined, InFlight, CasterPcs
    <3>3. Sound(inbox[c][i]) /\ inbox[c][i] \in Messages
      BY <1>c, <2>2 DEF MessageInv
    <3>4. inbox[c][i].capture < capture
      BY <1>c, <2>2, <3>2, <3>3 DEF Sound, Messages
    <3> QED
      BY <1>c, <2>2, <2>4, <3>2, <3>3, <3>4 DEF Messages
  <2> QED
    BY <1>2, <2>1, <2>3, <2>4, CastInbox
<1> QED
  BY <1>1, <1>2, InboxGrows

(* A client that has been told that a capture stopped gets no event of it  *)
(* after that, for any number of clients, hub threads and requests.        *)
THEOREM StoppedIsLastCorrect == Spec => []StoppedIsLast
<1>1. Init => StoppedIsLast
  BY NoMessagesInit DEF StoppedIsLast
<1> QED
  BY <1>1, TypeInit, TypeStep, HandlerInit, HandlerStep, MessageInit, MessageStep, LastStep, PTL DEF Spec

-----------------------------------------------------------------------------
(* All clients see one order.                                              *)

(* No two threads broadcast the same; a message waits for the mutex before *)
(* any client has it; and while it is written, every client that has it    *)
(* has it as its last message.  With one writer at a time, all clients'    *)
(* messages then are in the order in which the mutex was taken.            *)
OrderInv ==
  /\ \A t, u \in Threads : InFlight(t) /\ InFlight(u) /\ msg[t] = msg[u] => t = u
  /\ \A t \in Threads : \A c \in Clients : \A i \in 1..Len(inbox[c]) :
       (InFlight(t) /\ inbox[c][i] = msg[t])
         => pc[t] = "cast" /\ i = Len(inbox[c]) /\ c \notin todo[t]

LEMMA OrderInit == Init => OrderInv /\ SameOrder
<1> SUFFICES ASSUME Init PROVE OrderInv /\ SameOrder
    OBVIOUS
<1>1. \A c \in Clients : inbox[c] = <<>>
  BY DEF Init
<1>2. 1..Len(<<>>) = {}
  OBVIOUS
<1>3. \A c \in Clients : 1..Len(inbox[c]) = {}
  BY <1>1, <1>2
<1>4. OrderInv
  BY <1>3, NoMessagesInit DEF OrderInv
<1>5. SameOrder
  BY NoMessagesInit DEF SameOrder
<1> QED
  BY <1>4, <1>5

(* A thread that writes goes on with the clients it has left, or is done.  *)
LEMMA CastStays ==
  ASSUME IpcTypeOK, [Next]_vars, NEW t \in Threads, pc[t] = "cast", InFlight(t)'
  PROVE  pc'[t] = "cast" /\ todo'[t] \subseteq todo[t]
<1>c. /\ pc \in [Threads -> CasterPcs \cup ClientPcs \cup {"idle"}]
      /\ todo \in [Threads -> SUBSET Clients]
      /\ \A c \in Clients : c \in Threads
      /\ \A r \in Readers : r \in Threads
  BY DEF IpcTypeOK, Threads
<1>1. CASE AcceptStep \/ ConnectFails \/ StopCalled \/ StopStep
  BY <1>1 DEF AcceptStep, Listen, ListenStopped, Push, ConnectFails, StopCalled, StopStep,
              DisconnectAll, JoinAccept, LockClients, JoinClients, threadVars
<1>2. ASSUME NEW u \in Threads, Broadcast(u) \/ Lock(u)
      PROVE  pc'[t] = "cast" /\ todo'[t] \subseteq todo[t]
  <2>1. u # t
    BY <1>2 DEF Broadcast, Lock, Goto
  <2> QED
    BY <1>2, <1>c, <2>1 DEF Broadcast, Lock, Goto
<1>3. ASSUME NEW u \in Threads, Unlock(u)
      PROVE  pc'[t] = "cast" /\ todo'[t] \subseteq todo[t]
  BY <1>3, <1>c DEF Unlock, Goto, AfterCast, InFlight, CasterPcs
<1>4. ASSUME NEW u \in Threads, NEW c \in Clients, CastTo(u, c)
      PROVE  pc'[t] = "cast" /\ todo'[t] \subseteq todo[t]
  BY <1>4, <1>c DEF CastTo, threadVars
<1>5. ASSUME NEW r \in Readers, Event(r)
      PROVE  pc'[t] = "cast" /\ todo'[t] \subseteq todo[t]
  BY <1>5, <1>c DEF Event, Goto
<1>6. ASSUME NEW c \in Clients,
             \/ Connect(c) \/ LoopTest(c) \/ ReadTimeout(c) \/ ReadEnds(c) \/ Disconnect(c)
             \/ RequestStep(c)
             \/ \E q \in Requests : Receive(c, q)
      PROVE  pc'[t] = "cast" /\ todo'[t] \subseteq todo[t]
  <2>1. Moves(c)
    BY <1>6, ClientMoves
  <2>2. todo' = todo
    BY <1>6 DEF Connect, LoopTest, ReadTimeout, ReadEnds, Disconnect, RequestStep, Halt, Stop,
                Start, Query, Respond, Receive
  <2> QED
    BY <1>c, <2>1, <2>2 DEF Moves, CasterPcs
<1>7. CASE UNCHANGED vars
  BY <1>7 DEF vars, threadVars
<1> QED
  BY <1>1, <1>2, <1>3, <1>4, <1>5, <1>6, <1>7 DEF Next, CastStep

(* A fresh message is on its way nowhere and in no inbox.                  *)
LEMMA FreshIsNew ==
  ASSUME IpcTypeOK, MessageInv, NEW m, Fresh(m)
  PROVE  /\ \A t \in Threads : InFlight(t) => msg[t] # m
         /\ \A c \in Clients : \A i \in 1..Len(inbox[c]) : inbox[c][i] # m
<1>1. \A c \in Clients : inbox[c] \in Seq(Messages)
  BY DEF IpcTypeOK
<1>2. \A c \in Clients : \A i \in 1..Len(inbox[c]) : inbox[c][i] \in Messages /\ Sound(inbox[c][i])
  BY <1>1 DEF MessageInv
<1>3. \A t \in Threads : InFlight(t) => msg[t] \in Messages /\ Sound(msg[t])
  BY DEF MessageInv, IpcTypeOK
<1> QED
  BY <1>2, <1>3 DEF Fresh

(* A thread starts to broadcast a fresh message.                           *)
LEMMA FreshOrder ==
  ASSUME IpcTypeOK, MessageInv, OrderInv, [Next]_vars, NEW u \in Threads,
         InFlight(u)' => Fresh(msg'[u]),
         \A t \in Threads : t # u => msg'[t] = msg[t] /\ (InFlight(t)' <=> InFlight(t)),
         inbox' = inbox
  PROVE  OrderInv'
<1>1. ASSUME NEW t \in Threads, NEW v \in Threads, InFlight(t)', InFlight(v)', msg'[t] = msg'[v]
      PROVE  t = v
  <2>1. CASE t # u /\ v # u
    BY <1>1, <2>1 DEF OrderInv
  <2>2. CASE t = u /\ v # u
    <3>1. Fresh(msg'[u])
      BY <1>1, <2>2
    <3> QED
      BY <1>1, <2>2, <3>1, FreshIsNew
  <2>3. CASE v = u /\ t # u
    <3>1. Fresh(msg'[u])
      BY <1>1, <2>3
    <3> QED
      BY <1>1, <2>3, <3>1, FreshIsNew
  <2> QED
    BY <2>1, <2>2, <2>3
<1>2. ASSUME NEW t \in Threads, NEW c \in Clients, NEW i \in 1..Len(inbox[c]),
             InFlight(t)', inbox[c][i] = msg'[t]
      PROVE  pc'[t] = "cast" /\ i = Len(inbox[c]) /\ c \notin todo'[t]
  <2>1. t # u
    BY <1>2, FreshIsNew
  <2>2. pc[t] = "cast" /\ i = Len(inbox[c]) /\ c \notin todo[t]
    BY <1>2, <2>1 DEF OrderInv
  <2> QED
    BY <1>2, <2>2, CastStays
<1> QED
  BY <1>1, <1>2 DEF OrderInv

LEMMA OrderStep ==
  /\ IpcTypeOK /\ IpcTypeOK' /\ LockInv /\ HandlerInv /\ MessageInv
  /\ OrderInv /\ SameOrder /\ [Next]_vars
  => OrderInv' /\ SameOrder'
<1> SUFFICES ASSUME IpcTypeOK, IpcTypeOK', LockInv, HandlerInv, MessageInv,
                    OrderInv, SameOrder, [Next]_vars
             PROVE  OrderInv' /\ SameOrder'
    OBVIOUS
<1>c. /\ \A c \in Clients : inbox[c] \in Seq(Messages) /\ Len(inbox[c]) \in Nat
      /\ \A c \in Clients : inbox'[c] \in Seq(Messages) /\ Len(inbox'[c]) \in Nat
      /\ \A c \in Clients : c \in Threads
      /\ \A r \in Readers : r \in Threads
      /\ todo \in [Threads -> SUBSET Clients]
  BY DEF IpcTypeOK, Threads
<1>1. CASE inbox' = inbox
  <2>1. SameOrder'
    BY <1>1 DEF SameOrder
  <2>2. ASSUME NothingNew PROVE OrderInv'
    <3>1. ASSUME NEW t \in Threads, NEW u \in Threads, InFlight(t)', InFlight(u)', msg'[t] = msg'[u]
          PROVE  t = u
      BY <2>2, <3>1 DEF NothingNew, OrderInv
    <3>2. ASSUME NEW t \in Threads, NEW c \in Clients, NEW i \in 1..Len(inbox[c]),
                 InFlight(t)', inbox[c][i] = msg'[t]
          PROVE  pc'[t] = "cast" /\ i = Len(inbox[c]) /\ c \notin todo'[t]
      <4>1. InFlight(t) /\ inbox[c][i] = msg[t]
        BY <2>2, <3>2 DEF NothingNew
      <4>2. pc[t] = "cast" /\ i = Len(inbox[c]) /\ c \notin todo[t]
        BY <4>1 DEF OrderInv
      <4> QED
        BY <3>2, <4>2, CastStays
    <3> QED
      BY <1>1, <3>1, <3>2 DEF OrderInv
  <2>3. ASSUME NEW t \in Threads, NEW c \in Clients, CastTo(t, c) PROVE OrderInv'
    <3>1. todo'[t] \subseteq todo[t] /\ \A u \in Threads : u # t => todo'[u] = todo[u]
      BY <1>c, <2>3, CastInbox
    <3>2. \A u \in Threads : todo'[u] \subseteq todo[u]
      BY <3>1
    <3>3. pc' = pc /\ msg' = msg
      BY <2>3, CastInbox
    <3> QED
      BY <1>1, <3>2, <3>3 DEF OrderInv, InFlight
  <2>4. ASSUME NEW r \in Readers, Event(r) PROVE OrderInv'
    BY <1>c, <2>4, EventFresh, FreshOrder
  <2>5. ASSUME NEW c \in Clients, Stop(c) \/ Start(c) PROVE OrderInv'
    <3>1. InFlight(c)' => Fresh(msg'[c])
      BY <2>5, NoticeFresh
    <3> QED
      BY <1>c, <2>5, <3>1, NoticeFresh, FreshOrder
  <2> QED
    BY <2>1, <2>2, <2>3, <2>4, <2>5, OldMessages
<1>2. ASSUME NEW t \in Threads, NEW e \in Clients, CastTo(t, e), inbox' # inbox
      PROVE  OrderInv' /\ SameOrder'
  <2>1. /\ pc' = pc /\ msg' = msg
        /\ \A u \in Threads : u # t => todo'[u] = todo[u]
        /\ e \in todo[t] /\ todo'[t] = todo[t] \ {e}
        /\ \A d \in Clients : d # e => inbox'[d] = inbox[d]
        /\ Len(inbox'[e]) = Len(inbox[e]) + 1
        /\ inbox'[e][Len(inbox[e]) + 1] = msg[t]
        /\ \A i \in 1..Len(inbox[e]) : inbox'[e][i] = inbox[e][i]
    BY <1>2, <1>c, CastInbox DEF CastTo
  <2>2. /\ pc[t] = "cast" /\ InFlight(t)
        /\ \A u \in Threads : u # t => pc[u] # "cast"
    BY <1>2 DEF CastTo, InFlight, CasterPcs, LockInv
  <2>3. \A i \in 1..Len(inbox[e]) : inbox[e][i] # msg[t]
    BY <2>1, <2>2 DEF OrderInv
  <2>4. ASSUME NEW u \in Threads, NEW c \in Clients, NEW i \in 1..Len(inbox'[c]),
               InFlight(u), inbox'[c][i] = msg[u]
        PROVE  u = t /\ i = Len(inbox'[c]) /\ c \notin todo'[t]
    <3>1. CASE i \in 1..Len(inbox[c])
      <4>1. inbox[c][i] = msg[u]
        BY <2>1, <2>4, <3>1
      <4>2. pc[u] = "cast" /\ i = Len(inbox[c]) /\ c \notin todo[u]
        BY <2>4, <3>1, <4>1 DEF OrderInv
      <4>3. u = t /\ c # e
        BY <2>1, <2>2, <4>2
      <4> QED
        BY <2>1, <4>2, <4>3
    <3>2. CASE c = e /\ i = Len(inbox[e]) + 1
      <4>1. msg[u] = msg[t]
        BY <2>1, <2>4, <3>2
      <4>2. u = t
        BY <2>2, <2>4, <4>1 DEF OrderInv
      <4> QED
        BY <2>1, <3>2, <4>2
    <3> QED
      BY <1>c, <2>1, <2>4, <3>1, <3>2
  <2>5. OrderInv'
    <3>1. ASSUME NEW u \in Threads, NEW v \in Threads, InFlight(u)', InFlight(v)', msg'[u] = msg'[v]
          PROVE  u = v
      BY <2>1, <3>1 DEF OrderInv, InFlight
    <3>2. ASSUME NEW u \in Threads, NEW c \in Clients, NEW i \in 1..Len(inbox'[c]),
                 InFlight(u)', inbox'[c][i] = msg'[u]
          PROVE  pc'[u] = "cast" /\ i = Len(inbox'[c]) /\ c \notin todo'[u]
      BY <2>1, <2>2, <2>4, <3>2 DEF InFlight
    <3> QED
      BY <3>1, <3>2 DEF OrderInv
  <2>6. SameOrder'
    <3> SUFFICES ASSUME NEW c \in Clients, NEW d \in Clients,
                        NEW i \in DOMAIN inbox'[c], NEW j \in DOMAIN inbox'[c],
                        NEW k \in DOMAIN inbox'[d], NEW l \in DOMAIN inbox'[d],
                        inbox'[c][i] = inbox'[d][k], inbox'[c][j] = inbox'[d][l], i < j
                 PROVE  k < l
        BY DEF SameOrder
    <3>1. /\ i \in 1..Len(inbox'[c]) /\ j \in 1..Len(inbox'[c])
          /\ k \in 1..Len(inbox'[d]) /\ l \in 1..Len(inbox'[d])
      BY <1>c
    <3>2. \A b \in Clients : \A n \in 1..Len(inbox'[b]) :
            inbox'[b][n] # msg[t] => n \in 1..Len(inbox[b]) /\ inbox'[b][n] = inbox[b][n]
      BY <1>c, <2>1
    <3>3. \A b \in Clients : \A n \in 1..Len(inbox'[b]) :
            inbox'[b][n] = msg[t] => n = Len(inbox'[b])
      BY <2>2, <2>4
    <3>4. CASE inbox'[c][i] = msg[t]
      BY <1>c, <3>1, <3>3, <3>4
    <3>5. CASE inbox'[c][i] # msg[t] /\ inbox'[c][j] = msg[t]
      <4>1. l = Len(inbox'[d]) /\ k # l
        BY <3>1, <3>3, <3>5
      <4> QED
        BY <1>c, <3>1, <4>1
    <3>6. CASE inbox'[c][i] # msg[t] /\ inbox'[c][j] # msg[t]
      <4>1. /\ i \in DOMAIN inbox[c] /\ j \in DOMAIN inbox[c]
            /\ k \in DOMAIN inbox[d] /\ l \in DOMAIN inbox[d]
            /\ inbox[c][i] = inbox[d][k] /\ inbox[c][j] = inbox[d][l]
        <5>1. /\ i \in 1..Len(inbox[c]) /\ inbox'[c][i] = inbox[c][i]
              /\ j \in 1..Len(inbox[c]) /\ inbox'[c][j] = inbox[c][j]
          BY <3>1, <3>2, <3>6
        <5>2. /\ k \in 1..Len(inbox[d]) /\ inbox'[d][k] = inbox[d][k]
              /\ l \in 1..Len(inbox[d]) /\ inbox'[d][l] = inbox[d][l]
          BY <3>1, <3>2, <3>6
        <5>3. DOMAIN inbox[c] = 1..Len(inbox[c]) /\ DOMAIN inbox[d] = 1..Len(inbox[d])
          BY <1>c
        <5> QED
          BY <5>1, <5>2, <5>3
      <4> QED
        BY <4>1 DEF SameOrder
    <3> QED
      BY <3>4, <3>5, <3>6
  <2> QED
    BY <2>5, <2>6
<1> QED
  BY <1>1, <1>2, InboxGrows

(* All clients see the broadcasts in one order, for any number of clients  *)
(* and hub threads: the mutex over all the writes of a broadcast is enough.*)
THEOREM SameOrderCorrect == Spec => []SameOrder
  BY TypeInit, TypeStep, LockInit, LockStep, HandlerInit, HandlerStep, MessageInit, MessageStep,
     OrderInit, OrderStep, PTL DEF Spec
=============================================================================
