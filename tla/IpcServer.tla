----------------------------- MODULE IpcServer ------------------------------
(***************************************************************************)
(* IpcServer: the named-pipe server between the capture engine and its     *)
(* clients.  Threads: the accept thread, one read thread per client        *)
(* context, the hub threads of the engine (their callback broadcasts       *)
(* events) and the thread that calls Stop.                                 *)
(*                                                                         *)
(* m_clientsMutex is held by SendToAll over all its writes, by the accept  *)
(* thread for a push_back, and by Stop for each of its two loops.  A write *)
(* takes writeMutex and at most five seconds, and is one step here.        *)
(*                                                                         *)
(* The engine is what CaptureEngine shows of it: hub threads that call the *)
(* callback while a capture is on, and a stop that waits for the callbacks *)
(* under way.  Requests of different clients do not overlap in the         *)
(* handlers: the engine has no lock, and in this program the GUI server is *)
(* the one client that sends requests, over one pipe.                      *)
(***************************************************************************)
EXTENDS Integers, Sequences

CONSTANTS
  Clients,    (* client contexts; each serves one connection                *)
  Readers,    (* the hub threads of the engine                              *)
  MaxEvents,  (* bound on the events captured                               *)
  MaxCalls    (* bound on the requests                                      *)

ASSUME ThreadsAssumption == Clients \cap Readers = {} /\ {"stop", "free"} \cap (Clients \cup Readers) = {}

Threads  == Clients \cup Readers
Requests == {"start", "stop", "query"}

VARIABLES
  serving,    (* m_running; its negation is also m_stopEvent                *)
  accept,     (* position of the accept thread                              *)
  listed,     (* m_clients                                                  *)
  arriving,   (* the context the accept thread is about to list             *)
  connected,  (* connected of each context                                  *)
  pipe,       (* pipeHandle of each context: "none", "open" or "closed"     *)
  mutex,      (* the owner of m_clientsMutex                                *)
  pc,         (* position of each client and hub thread                     *)
  request,    (* the request a client thread handles                        *)
  msg,        (* what a thread broadcasts                                   *)
  todo,       (* the contexts a thread in SendToAll has yet to write to     *)
  engineOpen, (* the engine has a multi reader                              *)
  capturing,  (* hub threads take packets                                   *)
  capture,    (* history: the number of the capture                         *)
  events,     (* events captured so far                                     *)
  calls,      (* requests received so far                                   *)
  inbox,      (* history: the broadcasts each client has received           *)
  stopping    (* position of the caller of Stop                             *)

acceptVars == <<accept, listed, arriving>>
clientVars == <<connected, pipe>>
threadVars == <<pc, request, msg>>
engineVars == <<engineOpen, capturing, capture>>
boundVars  == <<events, calls>>
vars == <<serving, acceptVars, clientVars, mutex, threadVars, todo, engineVars,
          boundVars, inbox, stopping>>

NoMessage == [kind |-> "none", capture |-> 0, id |-> 0]

Init ==
  /\ serving = TRUE
  /\ accept = "create" /\ listed = {} /\ arriving = {}
  /\ connected = [c \in Clients |-> FALSE]
  /\ pipe = [c \in Clients |-> "none"]
  /\ mutex = "free"
  /\ pc = [t \in Threads |-> IF t \in Readers THEN "idle" ELSE "none"]
  /\ request = [c \in Clients |-> "query"]
  /\ msg = [t \in Threads |-> NoMessage]
  /\ todo = [t \in Threads |-> {}]
  /\ engineOpen = FALSE /\ capturing = FALSE /\ capture = 0
  /\ events = 0 /\ calls = 0
  /\ inbox = [c \in Clients |-> <<>>]
  /\ stopping = "no"

Goto(t, from, to) == pc[t] = from /\ pc' = [pc EXCEPT ![t] = to]

-----------------------------------------------------------------------------
(* The accept thread.                                                      *)

(* CreateNamedPipe, which fails while all instances are in use, and        *)
(* ConnectNamedPipe.                                                       *)
Listen ==
  /\ accept = "create"
  /\ accept' = IF serving THEN "connect" ELSE "exited"
  /\ UNCHANGED <<serving, listed, arriving, clientVars, mutex, threadVars, todo,
                 engineVars, boundVars, inbox, stopping>>

(* A client connects: its context is marked connected and its read thread  *)
(* starts, before m_clients has the context.  Contexts are alike until     *)
(* they connect: which of those left is next makes no difference.          *)
Connect(c) ==
  /\ accept = "connect" /\ Goto(c, "none", "loop")
  /\ c = CHOOSE d \in Clients : pc[d] = "none"
  /\ connected' = [connected EXCEPT ![c] = TRUE]
  /\ pipe' = [pipe EXCEPT ![c] = "open"]
  /\ accept' = "push" /\ arriving' = {c}
  /\ UNCHANGED <<serving, listed, mutex, request, msg, todo, engineVars,
                 boundVars, inbox, stopping>>

ListenStopped ==
  /\ accept = "connect" /\ ~serving
  /\ accept' = "exited"
  /\ UNCHANGED <<serving, listed, arriving, clientVars, mutex, threadVars, todo,
                 engineVars, boundVars, inbox, stopping>>

ConnectFails ==
  /\ accept = "connect"
  /\ accept' = "create"
  /\ UNCHANGED <<serving, listed, arriving, clientVars, mutex, threadVars, todo,
                 engineVars, boundVars, inbox, stopping>>

Push ==
  /\ accept = "push" /\ mutex = "free"
  /\ listed' = listed \cup arriving
  /\ arriving' = {} /\ accept' = "create"
  /\ UNCHANGED <<serving, clientVars, mutex, threadVars, todo, engineVars,
                 boundVars, inbox, stopping>>

AcceptStep == Listen \/ ListenStopped \/ Push

-----------------------------------------------------------------------------
(* Broadcasting: SendToAll, called by hub threads for events and by client *)
(* threads for notifications.                                              *)

(* Faulty variant: every broadcast is followed by a response.              *)
AfterCastRespond(t) == "respond"

AfterCast(t) == IF t \in Readers THEN "idle" ELSE "respond"

(* A broadcast of a server that does not run is dropped.                   *)
Broadcast(t) ==
  /\ IF serving THEN Goto(t, "notify", "lock") /\ UNCHANGED msg
                ELSE Goto(t, "notify", AfterCast(t)) /\ msg' = [msg EXCEPT ![t] = NoMessage]
  /\ UNCHANGED <<serving, acceptVars, clientVars, mutex, request, todo, engineVars,
                 boundVars, inbox, stopping>>

(* Faulty variant: SendToAll does not take the mutex.                      *)
LockNothing(t) ==
  /\ Goto(t, "lock", "cast")
  /\ todo' = [todo EXCEPT ![t] = listed]
  /\ UNCHANGED <<serving, acceptVars, clientVars, mutex, request, msg, engineVars,
                 boundVars, inbox, stopping>>

Lock(t) ==
  /\ mutex = "free" /\ Goto(t, "lock", "cast")
  /\ mutex' = t
  /\ todo' = [todo EXCEPT ![t] = listed]
  /\ UNCHANGED <<serving, acceptVars, clientVars, request, msg, engineVars,
                 boundVars, inbox, stopping>>

(* SendResponse: a write to an open pipe reaches the client unless it has  *)
(* gone or does not read for five seconds.                                 *)
Write(c, m) ==
  \/ UNCHANGED inbox
  \/ /\ connected[c] /\ pipe[c] = "open"
     /\ inbox' = [inbox EXCEPT ![c] = Append(@, m)]

CastTo(t, c) ==
  /\ pc[t] = "cast" /\ c \in todo[t]
  /\ Write(c, msg[t])
  /\ todo' = [todo EXCEPT ![t] = @ \ {c}]
  /\ UNCHANGED <<serving, acceptVars, clientVars, mutex, threadVars, engineVars,
                 boundVars, stopping>>

Unlock(t) ==
  /\ todo[t] = {} /\ Goto(t, "cast", AfterCast(t))
  /\ mutex' = "free"
  /\ msg' = [msg EXCEPT ![t] = NoMessage]
  /\ UNCHANGED <<serving, acceptVars, clientVars, request, todo, engineVars,
                 boundVars, inbox, stopping>>

CastStep(t) == Broadcast(t) \/ Lock(t) \/ Unlock(t) \/ \E c \in Clients : CastTo(t, c)

-----------------------------------------------------------------------------
(* The read thread of a client.                                            *)

(* The loop condition, at the end of the buffered lines.                   *)
LoopTest(c) ==
  /\ pc[c] \in {"loop", "lines"}
  /\ pc' = [pc EXCEPT ![c] = IF serving /\ connected[c] THEN "wait" ELSE "bye"]
  /\ UNCHANGED <<serving, acceptVars, clientVars, mutex, request, msg, todo,
                 engineVars, boundVars, inbox, stopping>>

(* The wait of five seconds ends without data: the read is cancelled, and  *)
(* data that came in meanwhile is dropped.                                 *)
ReadTimeout(c) ==
  /\ Goto(c, "wait", "loop")
  /\ UNCHANGED <<serving, acceptVars, clientVars, mutex, request, msg, todo,
                 engineVars, boundVars, inbox, stopping>>

(* The stop event, a broken pipe, or a handle closed by Stop.              *)
ReadEnds(c) ==
  /\ Goto(c, "wait", "bye")
  /\ UNCHANGED <<serving, acceptVars, clientVars, mutex, request, msg, todo,
                 engineVars, boundVars, inbox, stopping>>

Handled == \E c \in Clients : pc[c] \in {"handle", "halt"}

(* A line is complete, in the data just read or in what was read with the  *)
(* line before: buffered lines are handled without a look at m_running.    *)
Receive(c, r) ==
  /\ calls < MaxCalls /\ ~Handled
  /\ pc[c] = "lines" \/ (pc[c] = "wait" /\ pipe[c] = "open")
  /\ pc' = [pc EXCEPT ![c] = "handle"]
  /\ request' = [request EXCEPT ![c] = r]
  /\ calls' = calls + 1
  /\ UNCHANGED <<serving, acceptVars, clientVars, mutex, msg, todo, engineVars,
                 events, inbox, stopping>>

Disconnect(c) ==
  /\ Goto(c, "bye", "ended")
  /\ connected' = [connected EXCEPT ![c] = FALSE]
  /\ pipe' = [pipe EXCEPT ![c] = "closed"]
  /\ UNCHANGED <<serving, acceptVars, mutex, request, msg, todo, engineVars,
                 boundVars, inbox, stopping>>
-----------------------------------------------------------------------------
(* The requests.  A start first closes the driver, a stop stops it: both   *)
(* tell the hub threads to end and wait for the callbacks under way.       *)

Message(kind, k, n) == [kind |-> kind, capture |-> k, id |-> n]

Halt(c) ==
  /\ request[c] \in {"start", "stop"} /\ Goto(c, "handle", "halt")
  /\ capturing' = FALSE
  /\ UNCHANGED <<serving, acceptVars, clientVars, mutex, request, msg, todo,
                 engineOpen, capture, boundVars, inbox, stopping>>

Joined == \A r \in Readers : pc[r] = "idle"

(* Faulty variant: the stop does not wait for the callbacks.               *)
StopUnjoined(c) ==
  /\ request[c] = "stop" /\ pc[c] = "halt"
  /\ msg' = [msg EXCEPT ![c] = IF engineOpen THEN Message("stopped", capture, calls) ELSE @]
  /\ pc' = [pc EXCEPT ![c] = IF engineOpen THEN "notify" ELSE "respond"]
  /\ UNCHANGED <<serving, acceptVars, clientVars, mutex, request, todo, engineVars,
                 boundVars, inbox, stopping>>

(* capture.stop: capture.stopped is broadcast if there was a multi reader. *)
Stop(c) ==
  /\ request[c] = "stop" /\ pc[c] = "halt" /\ Joined
  /\ msg' = [msg EXCEPT ![c] = IF engineOpen THEN Message("stopped", capture, calls) ELSE @]
  /\ pc' = [pc EXCEPT ![c] = IF engineOpen THEN "notify" ELSE "respond"]
  /\ UNCHANGED <<serving, acceptVars, clientVars, mutex, request, todo, engineVars,
                 boundVars, inbox, stopping>>

(* capture.start: no hub can be opened; a hub is refused, while others may *)
(* capture; or all are started and capture.started is broadcast.           *)
Start(c) ==
  /\ request[c] = "start" /\ pc[c] = "halt" /\ Joined
  /\ \E opened, ok \in BOOLEAN :
       /\ ok => opened
       /\ engineOpen' = opened
       /\ capturing' = opened
       /\ capture' = IF opened THEN capture + 1 ELSE capture
       /\ pc' = [pc EXCEPT ![c] = IF ok THEN "notify" ELSE "respond"]
       /\ msg' = [msg EXCEPT ![c] = IF ok THEN Message("started", capture', calls) ELSE @]
  /\ UNCHANGED <<serving, acceptVars, clientVars, mutex, request, todo, boundVars,
                 inbox, stopping>>

(* Every other method: devices.list may leave the hubs open, the others,   *)
(* an unknown method or a line that is not JSON change nothing here.       *)
Query(c) ==
  /\ request[c] = "query" /\ Goto(c, "handle", "respond")
  /\ engineOpen' \in {engineOpen, TRUE}
  /\ UNCHANGED <<serving, acceptVars, clientVars, mutex, request, msg, todo, capturing,
                 capture, boundVars, inbox, stopping>>

(* The response, to this client only and without the clients' mutex.       *)
Respond(c) ==
  /\ Goto(c, "respond", "lines")
  /\ request' = [request EXCEPT ![c] = "query"]
  /\ UNCHANGED <<serving, acceptVars, clientVars, mutex, msg, todo, engineVars,
                 boundVars, inbox, stopping>>

RequestStep(c) == Halt(c) \/ Stop(c) \/ Start(c) \/ Query(c) \/ Respond(c)

(* A hub thread calls the engine's callback with a new event.              *)
Event(r) ==
  /\ capturing /\ events < MaxEvents /\ Goto(r, "idle", "notify")
  /\ events' = events + 1
  /\ msg' = [msg EXCEPT ![r] = Message("event", capture, events')]
  /\ UNCHANGED <<serving, acceptVars, clientVars, mutex, request, todo, engineVars,
                 calls, inbox, stopping>>

-----------------------------------------------------------------------------
(* IpcServer::Stop.                                                        *)

StopCalled ==
  /\ stopping = "no"
  /\ serving' = FALSE
  /\ stopping' = "disconnect"
  /\ UNCHANGED <<acceptVars, clientVars, mutex, threadVars, todo, engineVars,
                 boundVars, inbox>>

(* Faulty variant: the mutex stays locked after the first loop.            *)
DisconnectAllAndHold ==
  /\ stopping = "disconnect" /\ mutex = "free"
  /\ connected' = [c \in Clients |-> connected[c] /\ c \notin listed]
  /\ pipe' = [c \in Clients |-> IF c \in listed THEN "closed" ELSE pipe[c]]
  /\ mutex' = "stop"
  /\ stopping' = "joinAccept"
  /\ UNCHANGED <<serving, acceptVars, threadVars, todo, engineVars, boundVars, inbox>>

DisconnectAll ==
  /\ stopping = "disconnect" /\ mutex = "free"
  /\ connected' = [c \in Clients |-> connected[c] /\ c \notin listed]
  /\ pipe' = [c \in Clients |-> IF c \in listed THEN "closed" ELSE pipe[c]]
  /\ stopping' = "joinAccept"
  /\ UNCHANGED <<serving, acceptVars, mutex, threadVars, todo, engineVars, boundVars,
                 inbox>>

JoinAccept ==
  /\ stopping = "joinAccept" /\ accept = "exited"
  /\ stopping' = "lock"
  /\ UNCHANGED <<serving, acceptVars, clientVars, mutex, threadVars, todo, engineVars,
                 boundVars, inbox>>

LockClients ==
  /\ stopping = "lock" /\ mutex = "free"
  /\ mutex' = "stop"
  /\ stopping' = "joinClients"
  /\ UNCHANGED <<serving, acceptVars, clientVars, threadVars, todo, engineVars,
                 boundVars, inbox>>

(* Faulty variant: m_clients is cleared without joining.                   *)
ClearClients ==
  /\ stopping = "joinClients"
  /\ listed' = {}
  /\ mutex' = "free"
  /\ stopping' = "done"
  /\ UNCHANGED <<serving, accept, arriving, clientVars, threadVars, todo, engineVars,
                 boundVars, inbox>>

JoinClients ==
  /\ stopping = "joinClients" /\ \A c \in listed : pc[c] = "ended"
  /\ listed' = {}
  /\ mutex' = "free"
  /\ stopping' = "done"
  /\ UNCHANGED <<serving, accept, arriving, clientVars, threadVars, todo, engineVars,
                 boundVars, inbox>>

StopStep == DisconnectAll \/ JoinAccept \/ LockClients \/ JoinClients

-----------------------------------------------------------------------------
Next ==
  \/ AcceptStep \/ ConnectFails \/ StopCalled \/ StopStep
  \/ \E t \in Threads : CastStep(t)
  \/ \E r \in Readers : Event(r)
  \/ \E c \in Clients :
       \/ Connect(c) \/ LoopTest(c) \/ ReadTimeout(c) \/ ReadEnds(c) \/ Disconnect(c)
       \/ RequestStep(c)
       \/ \E q \in Requests : Receive(c, q)

Spec == Init /\ [][Next]_vars

(* Every thread that can run is scheduled.  A read ends when the server    *)
(* stops; nothing makes a client connect or send, or a hub capture.        *)
ReadStops(c) == ~serving /\ ReadEnds(c)

Fairness ==
  /\ WF_vars(AcceptStep) /\ WF_vars(StopStep)
  /\ \A r \in Readers : WF_vars(CastStep(r))
  /\ \A c \in Clients :
       WF_vars(CastStep(c) \/ LoopTest(c) \/ Disconnect(c) \/ RequestStep(c) \/ ReadStops(c))

FairSpec == Spec /\ Fairness

-----------------------------------------------------------------------------
CasterPcs == {"notify", "lock", "cast"}
ClientPcs == {"none", "loop", "lines", "wait", "handle", "halt", "respond", "bye", "ended"}
Messages == [kind : {"none", "event", "started", "stopped"}, capture : Nat, id : Nat]

(* Every variable keeps its type; a hub thread never runs a client's code. *)
IpcTypeOK ==
  /\ serving \in BOOLEAN
  /\ accept \in {"create", "connect", "push", "exited"}
  /\ listed \subseteq Clients /\ arriving \subseteq Clients
  /\ connected \in [Clients -> BOOLEAN]
  /\ pipe \in [Clients -> {"none", "open", "closed"}]
  /\ mutex \in Threads \cup {"free", "stop"}
  /\ pc \in [Threads -> CasterPcs \cup ClientPcs \cup {"idle"}]
  /\ \A r \in Readers : pc[r] \in CasterPcs \cup {"idle"}
  /\ \A c \in Clients : pc[c] \in CasterPcs \cup ClientPcs
  /\ request \in [Clients -> Requests]
  /\ msg \in [Threads -> Messages]
  /\ todo \in [Threads -> SUBSET Clients]
  /\ engineOpen \in BOOLEAN /\ capturing \in BOOLEAN /\ capture \in Nat
  /\ events \in Nat /\ calls \in Nat
  /\ inbox \in [Clients -> Seq(Messages)]
  /\ stopping \in {"no", "disconnect", "joinAccept", "lock", "joinClients", "done"}

(* All clients see the broadcasts they receive in the same order: no two   *)
(* clients disagree on whether an event came before capture.started or     *)
(* capture.stopped, or on which event came first.                          *)
SameOrder ==
  \A c, d \in Clients :
    \A i, j \in DOMAIN inbox[c] : \A k, l \in DOMAIN inbox[d] :
      (inbox[c][i] = inbox[d][k] /\ inbox[c][j] = inbox[d][l] /\ i < j) => k < l

(* Once a client has been told that a capture stopped, no event of it      *)
(* reaches that client: capture.stopped waits for the callbacks.           *)
StoppedIsLast ==
  \A c \in Clients : \A i, j \in DOMAIN inbox[c] :
    (i < j /\ inbox[c][i].kind = "stopped" /\ inbox[c][j].kind = "event")
      => inbox[c][j].capture > inbox[c][i].capture

(* When Stop has returned, no thread of the server is left and every pipe  *)
(* is closed, also that of a client that connected while Stop was waiting. *)
StopLeavesNothing ==
  stopping = "done" =>
    /\ accept = "exited"
    /\ \A c \in Clients : pc[c] \in {"none", "ended"} /\ pipe[c] # "open"

(* While Stop waits for the accept thread, and the accept thread for the   *)
(* mutex to list a client, whoever holds the mutex is a thread amid its    *)
(* writes, which waits for neither: Stop gets past the accept thread.      *)
AcceptNotBlocked ==
  (stopping = "joinAccept" /\ accept = "push")
    => mutex \in {"free"} \cup {t \in Threads : pc[t] = "cast"}

(* ipc_server.h: "Push an arbitrary notification to all connected clients".*)
ReachesConnected ==
  [][\A t \in Threads : Lock(t) =>
       \A c \in Clients : connected[c] => c \in todo'[t]]_vars

(* ipc_server.h: "Stop the server and close all connections": Stop returns.*)
IpcStopReturns == (stopping # "no") ~> (stopping = "done")
=============================================================================
