----------------------------- MODULE CoreBridge -----------------------------
(***************************************************************************)
(* CoreBridge (gui/core-bridge.js): the GUI server's end of the pipe to    *)
(* the core.  Its state is one socket, the timers that dial again, the     *)
(* requests waiting for an answer, the incomplete line of the last data    *)
(* event, and demo mode.  Callbacks run one at a time.                     *)
(*                                                                         *)
(* The core is external here: it answers the requests of a connection in   *)
(* order and sends the events of a capture, one line each (IpcServer       *)
(* models that side).  A data event carries any number of whole lines and  *)
(* possibly a part of the next.                                            *)
(***************************************************************************)
EXTENDS Integers, Sequences, SequencesExt

CONSTANTS
  MaxCalls,  (* bound on the calls of request                               *)
  MaxEvents, (* bound on the events the core captures                       *)
  MaxChunk   (* bound on the whole lines of one data event                  *)

ASSUME BridgeBounds == MaxCalls \in Nat /\ MaxEvents \in Nat /\ MaxChunk \in Nat \ {0}

Calls   == 1..MaxCalls
Methods == {"start", "stop", "status"}

VARIABLES
  sock,       (* client and connected: "none", "connecting" or "open"       *)
  booting,    (* the server's first connect() is still to come              *)
  timers,     (* reconnect timers that are running                          *)
  armed,      (* reconnectTimer names one of them                           *)
  demo,       (* demoMode                                                   *)
  demoTimer,  (* demoInterval is running                                    *)
  used,       (* calls of request so far                                    *)
  method,     (* the method of each call                                    *)
  promise,    (* the promise of each call                                   *)
  pending,    (* pendingRequests                                            *)
  buffer,     (* buffer: empty, a part of a line, or one of an old socket   *)
  asked,      (* requests on their way to the core and in it                *)
  wire,       (* lines on their way from the core                           *)
  coreCap,    (* the core captures                                          *)
  coreEvents  (* events captured, or made up in demo mode, so far           *)

dialVars   == <<sock, booting, timers, armed>>
demoVars   == <<demo, demoTimer>>
callVars   == <<used, method, promise, pending>>
coreVars   == <<asked, wire, coreCap, coreEvents>>
bridgeVars == <<dialVars, demoVars, callVars, buffer, coreVars>>

BridgeInit ==
  /\ sock = "none" /\ booting = TRUE /\ timers = 0 /\ armed = FALSE
  /\ demo = FALSE /\ demoTimer = FALSE
  /\ used = 0
  /\ method = [c \in Calls |-> "status"]
  /\ promise = [c \in Calls |-> "unused"]
  /\ pending = {}
  /\ buffer = "empty"
  /\ asked = <<>> /\ wire = <<>>
  /\ coreCap = FALSE /\ coreEvents = 0

-----------------------------------------------------------------------------
(* Dialling.                                                               *)

(* connect(): nothing in demo mode, or while there is a socket.            *)
Dial(demoNow) ==
  sock' = IF sock = "none" /\ ~demoNow THEN "connecting" ELSE sock

Boot ==
  /\ booting
  /\ booting' = FALSE
  /\ Dial(demo)
  /\ UNCHANGED <<timers, armed, demoVars, callVars, buffer, coreVars>>

(* A reconnect timer fires; the handler forgets reconnectTimer.            *)
Redial ==
  /\ timers > 0
  /\ timers' = timers - 1
  /\ armed' = FALSE
  /\ Dial(demo)
  /\ UNCHANGED <<booting, demoVars, callVars, buffer, coreVars>>

(* The bytes of a line that will never be completed.                       *)
Broken == IF buffer = "part" THEN "stale" ELSE buffer

(* Faulty variant: the pending requests are forgotten with the socket.     *)
ClosedForget ==
  /\ sock # "none"
  /\ sock' = "none"
  /\ buffer' = Broken
  /\ IF demo THEN UNCHANGED <<timers, armed>> ELSE timers' = timers + 1 /\ armed' = TRUE
  /\ pending' = {}
  /\ asked' = <<>> /\ wire' = <<>>
  /\ coreCap' \in {coreCap, FALSE} \cup {method[asked[i]] = "start" : i \in DOMAIN asked}
  /\ UNCHANGED <<booting, demoVars, used, method, promise, coreEvents>>

(* 'close': the dial failed, the pipe broke, or the core died.  Neither    *)
(* the buffer nor the pending requests are touched.  The core may have     *)
(* done what it was asked, and may go on without its client.               *)
Closed ==
  /\ sock # "none"
  /\ sock' = "none"
  /\ buffer' = Broken
  /\ IF demo THEN UNCHANGED <<timers, armed>> ELSE timers' = timers + 1 /\ armed' = TRUE
  /\ asked' = <<>> /\ wire' = <<>>
  /\ coreCap' \in {coreCap, FALSE} \cup {method[asked[i]] = "start" : i \in DOMAIN asked}
  /\ UNCHANGED <<booting, demoVars, callVars, coreEvents>>

-----------------------------------------------------------------------------
(* Demo mode.                                                              *)

(* Only the timer reconnectTimer names is cleared.                         *)
EnableDemo ==
  /\ demo' = TRUE
  /\ IF ~demo /\ armed THEN timers' = timers - 1 /\ armed' = FALSE
                       ELSE UNCHANGED <<timers, armed>>
  /\ UNCHANGED <<sock, booting, demoTimer, callVars, buffer, coreVars>>

(* Faulty variant: leaving demo mode does not dial.                        *)
DisableDemoIdle ==
  /\ demo' = FALSE
  /\ demoTimer' = (demoTimer /\ ~demo)
  /\ UNCHANGED <<dialVars, callVars, buffer, coreVars>>

DisableDemo ==
  /\ demo' = FALSE
  /\ demoTimer' = (demoTimer /\ ~demo)
  /\ IF demo THEN Dial(FALSE) ELSE UNCHANGED sock
  /\ UNCHANGED <<booting, timers, armed, callVars, buffer, coreVars>>

-----------------------------------------------------------------------------
(* request(): answered at once in demo mode, rejected without a            *)
(* connection, and otherwise pending until answered or timed out.  Its     *)
(* caller may have changed the connection, and says whether it is open.    *)
Request(m, connected) ==
  LET c == used + 1 IN
  /\ used < MaxCalls
  /\ used' = c
  /\ method' = [method EXCEPT ![c] = m]
  /\ CASE demo ->
            /\ promise' = [promise EXCEPT ![c] = "answered"]
            /\ demoTimer' = CASE m = "start" -> TRUE [] m = "stop" -> FALSE
                              [] OTHER -> demoTimer
            /\ UNCHANGED <<pending, asked>>
       [] ~demo /\ ~connected ->
            /\ promise' = [promise EXCEPT ![c] = "failed"]
            /\ UNCHANGED <<pending, asked, demoTimer>>
       [] OTHER ->
            /\ promise' = [promise EXCEPT ![c] = "waiting"]
            /\ pending' = pending \cup {c}
            /\ asked' = Append(asked, c)
            /\ UNCHANGED demoTimer
  /\ UNCHANGED <<demo, buffer, wire, coreCap, coreEvents>>

Asks(m) == Request(m, sock = "open") /\ UNCHANGED dialVars

(* The pipe opens; the 'connected' handler asks for the USBPcap status.    *)
Opened ==
  /\ sock = "connecting"
  /\ sock' = "open"
  /\ Request("status", TRUE)
  /\ UNCHANGED <<booting, timers, armed>>

(* The demo timer fires, and makes up some events.                         *)
DemoTick(k) ==
  /\ demoTimer
  /\ coreEvents + k <= MaxEvents
  /\ coreEvents' = coreEvents + k
  /\ UNCHANGED <<dialVars, demoVars, callVars, buffer, asked, wire, coreCap>>

(* The ten seconds of a request are over.                                  *)
Timeout(c) ==
  /\ c \in pending
  /\ pending' = pending \ {c}
  /\ promise' = [promise EXCEPT ![c] = "failed"]
  /\ UNCHANGED <<dialVars, demoVars, used, method, buffer, coreVars>>

(* A settled promise is awaited by nobody.                                 *)
Forgotten(c) ==
  /\ promise' = [promise EXCEPT ![c] = "unused"]
  /\ UNCHANGED <<dialVars, demoVars, used, method, pending, buffer, coreVars>>

-----------------------------------------------------------------------------
(* The core.  A start may be refused.                                      *)

Reply(c) == [kind |-> "reply", id |-> c]
Event(n) == [kind |-> "event", id |-> n]

CoreAnswers ==
  /\ asked # <<>>
  /\ LET c == Head(asked) IN
     /\ wire' = Append(wire, Reply(c))
     /\ coreCap' \in CASE method[c] = "start"  -> BOOLEAN
                       [] method[c] = "stop"   -> {FALSE}
                       [] method[c] = "status" -> {coreCap}
  /\ asked' = Tail(asked)
  /\ UNCHANGED <<dialVars, demoVars, callVars, buffer, coreEvents>>

(* A hub thread broadcasts an event, also while a start or a stop is under *)
(* way in the core.                                                        *)
CoreEvent ==
  /\ coreCap \/ (asked # <<>> /\ method[Head(asked)] = "start")
  /\ coreEvents < MaxEvents
  /\ coreEvents' = coreEvents + 1
  /\ wire' = IF sock = "open" THEN Append(wire, Event(coreEvents')) ELSE wire
  /\ UNCHANGED <<dialVars, demoVars, callVars, buffer, asked, coreCap>>

-----------------------------------------------------------------------------
(* 'data' and _processBuffer.                                              *)

IsEvent(l) == l.kind = "event"

(* The lines of a data event that parse: the first one does not if it is   *)
(* appended to what an earlier socket left in the buffer.                  *)
Parsed(n) ==
  LET lines == SubSeq(wire, 1, n)
  IN  IF buffer = "stale" THEN Tail(lines) ELSE lines

(* The requests these lines answer; other answers are late and dropped.    *)
(* An answer carries a result: the core answers a request with an error    *)
(* only when it does not know the method, and the server asks for none     *)
(* such; an exception is answered without an id, which no request has.     *)
Answered(n) == {c \in pending : Contains(Parsed(n), Reply(c))}

(* The events of a run of lines, in their order: the loop over the lines   *)
(* passes each on before it looks at the next.                             *)
EventIds(lines) ==
  LET upTo[i \in 0..Len(lines)] ==
        IF i = 0 THEN <<>>
        ELSE IF IsEvent(lines[i]) THEN Append(upTo[i - 1], lines[i].id) ELSE upTo[i - 1]
  IN  upTo[Len(lines)]

(* The events passed to the server.                                        *)
News(n) == EventIds(Parsed(n))

Data(n) ==
  /\ n \in 1..Len(wire)
  /\ wire' = SubSeq(wire, n + 1, Len(wire))
  /\ buffer' = "empty"
  /\ pending' = pending \ Answered(n)
  /\ promise' = [c \in Calls |-> IF c \in Answered(n) THEN "answered" ELSE promise[c]]
  /\ UNCHANGED <<dialVars, demoVars, used, method, asked, coreCap, coreEvents>>

(* The data ends inside a line.                                            *)
DataPart ==
  /\ wire # <<>> /\ buffer = "empty"
  /\ buffer' = "part"
  /\ UNCHANGED <<dialVars, demoVars, callVars, coreVars>>

-----------------------------------------------------------------------------
(* Every variable keeps its type, and a request is pending exactly while   *)
(* its promise waits.                                                      *)
BridgeTypeOK ==
  /\ sock \in {"none", "connecting", "open"}
  /\ booting \in BOOLEAN /\ timers \in Nat /\ armed \in BOOLEAN
  /\ demo \in BOOLEAN /\ demoTimer \in BOOLEAN
  /\ used \in 0..MaxCalls
  /\ method \in [Calls -> Methods]
  /\ promise \in [Calls -> {"unused", "waiting", "answered", "failed"}]
  /\ pending = {c \in Calls : promise[c] = "waiting"}
  /\ buffer \in {"empty", "part", "stale"}
  /\ asked \in Seq(Calls)
  /\ wire \in Seq([kind : {"reply", "event"}, id : Nat])
  /\ coreCap \in BOOLEAN /\ coreEvents \in Nat

(* The bridge never gives up on the core: outside demo mode it has a       *)
(* socket, or something is scheduled that will dial, whatever the order of *)
(* failed dials, lost connections, timers and demo mode switches.          *)
NeverStuck == demo \/ booting \/ timers > 0 \/ sock # "none"
=============================================================================
