------------------------------ MODULE GuiServer ------------------------------
(***************************************************************************)
(* The GUI server (gui/server.js) over its CoreBridge, and what the pages  *)
(* connected to it show (gui/public/js/app.js).                            *)
(*                                                                         *)
(* Node runs one callback at a time, and a callback that awaits a request  *)
(* goes on, once the request is settled, before any other callback starts. *)
(* So a step is a callback up to its await (every action below waits for   *)
(* Idle) or the rest of one (Resume).  A page is taken to have handled     *)
(* what was sent to it: its WebSocket keeps the order and it never answers *)
(* by itself.                                                              *)
(***************************************************************************)
EXTENDS CoreBridge, FiniteSets

CONSTANTS
  Browsers,  (* the pages                                                   *)
  NoBrowser, (* no page                                                     *)
  MaxBuffer, (* MAX_EVENTS                                                  *)
  InitBatch  (* the events of an init message, 1000                         *)

ASSUME GuiBounds == /\ NoBrowser \notin Browsers
                    /\ MaxBuffer \in Nat \ {0}
                    /\ InitBatch \in Nat \ {0}

VARIABLES
  events,    (* captureEvents                                               *)
  received,  (* the events since the last clear                             *)
  capturing, (* capturing                                                   *)
  browser,   (* each page: "closed", "joined" (in wsClients) or "ready"     *)
             (* (it has its init message)                                   *)
  shown,     (* each page's _capturing                                      *)
  table,     (* the events each page holds                                  *)
  task,      (* the callback that awaits each call, and its page            *)
  latest     (* the last start or stop whose answer was broadcast           *)

pageVars == <<browser, shown, table>>
dataVars == <<events, received>>
guiVars  == <<dataVars, capturing, pageVars, task, latest>>
vars     == <<bridgeVars, guiVars>>

Task(kind, b) == [kind |-> kind, page |-> b]
NoTask == Task("none", NoBrowser)

Init ==
  /\ BridgeInit
  /\ events = <<>> /\ received = <<>>
  /\ capturing = FALSE
  /\ browser = [b \in Browsers |-> "closed"]
  /\ shown = [b \in Browsers |-> FALSE]
  /\ table = [b \in Browsers |-> {}]
  /\ task = [c \in Calls |-> NoTask]
  /\ latest = 0

(* The members of wsClients.                                               *)
Clients == {b \in Browsers : browser[b] # "closed"}

(* The callbacks whose awaited request is settled.                         *)
Runnable == {c \in Calls : task[c] # NoTask /\ promise[c] # "waiting"}
Idle == Runnable = {}

(* The callback of page b awaits the request it has just made.             *)
Awaits(kind, b) == task' = [task EXCEPT ![used + 1] = Task(kind, b)]

(* Array.slice(-n).                                                        *)
LastOf(s, n) == IF Len(s) > n THEN SubSeq(s, Len(s) - n + 1, Len(s)) ELSE s

(* Faulty variant: slice(0, n).                                            *)
FirstOf(s, n) == IF Len(s) > n THEN SubSeq(s, 1, n) ELSE s

-----------------------------------------------------------------------------
(* Pages.                                                                  *)

(* Faulty variant: the init message has the oldest events.                 *)
FirstBatch == ToSet(FirstOf(events, InitBatch))

(* The events of an init message.                                          *)
InitEvents == ToSet(LastOf(events, InitBatch))

(* A page connects: a new one, or one that lost its WebSocket and still    *)
(* shows what it had.  Its init message waits for the USBPcap status if    *)
(* the core can be asked.                                                  *)
Connect(b, reloaded) ==
  LET held == IF reloaded THEN {} ELSE table[b]
      flag == shown[b] /\ ~reloaded
  IN
  /\ Idle
  /\ browser[b] = "closed"
  /\ IF sock = "open"
     THEN /\ browser' = [browser EXCEPT ![b] = "joined"]
          /\ shown' = [shown EXCEPT ![b] = flag]
          /\ table' = [table EXCEPT ![b] = held]
          /\ Asks("status")
          /\ Awaits("init", b)
     ELSE /\ browser' = [browser EXCEPT ![b] = "ready"]
          /\ shown' = [shown EXCEPT ![b] = capturing]
          /\ table' = [table EXCEPT ![b] = held \cup InitEvents]
          /\ UNCHANGED <<bridgeVars, task>>
  /\ UNCHANGED <<dataVars, capturing, latest>>

(* The WebSocket closes.  What was to be sent to it is sent to nobody.     *)
Leave(b) ==
  /\ Idle
  /\ b \in Clients
  /\ browser' = [browser EXCEPT ![b] = "closed"]
  /\ task' = [c \in Calls |-> IF task[c].page = b THEN [task[c] EXCEPT !.page = NoBrowser]
                                                  ELSE task[c]]
  /\ UNCHANGED <<bridgeVars, dataVars, capturing, shown, table, latest>>

(* handleWsMessage.                                                        *)
Start(b) ==
  /\ Idle /\ b \in Clients
  /\ capturing' = TRUE
  /\ Asks("start")
  /\ Awaits("start", b)
  /\ UNCHANGED <<dataVars, pageVars, latest>>

Stop(b) ==
  /\ Idle /\ b \in Clients
  /\ capturing' = FALSE
  /\ Asks("stop")
  /\ Awaits("stop", b)
  /\ UNCHANGED <<dataVars, pageVars, latest>>

Clear(b) ==
  /\ Idle /\ b \in Clients
  /\ events' = <<>> /\ received' = <<>>
  /\ table' = [p \in Browsers |-> IF p \in Clients THEN {} ELSE table[p]]
  /\ UNCHANGED <<bridgeVars, capturing, browser, shown, task, latest>>

(* Every other request of a page: its answer is sent, and changes nothing. *)
Query(b) ==
  /\ Idle /\ b \in Clients
  /\ Asks("status")
  /\ Awaits("answer", NoBrowser)
  /\ UNCHANGED <<dataVars, capturing, pageVars, latest>>

DemoOn(b) ==
  /\ Idle /\ b \in Clients
  /\ EnableDemo
  /\ UNCHANGED guiVars

DemoOff(b) ==
  /\ Idle /\ b \in Clients
  /\ DisableDemo
  /\ UNCHANGED guiVars

-----------------------------------------------------------------------------
(* The rest of a callback.                                                 *)

InitSent(b) ==
  /\ browser' = [browser EXCEPT ![b] = "ready"]
  /\ shown' = [shown EXCEPT ![b] = capturing]
  /\ table' = [table EXCEPT ![b] = @ \cup InitEvents]

(* Faulty variant: only the page that asked is told.                       *)
ToldAlone(b, flag) == [p \in Browsers |-> IF p = b THEN flag ELSE shown[p]]

(* The page that asked is told, and then every page.                       *)
Told(b, flag) == [p \in Browsers |-> IF p \in Clients THEN flag ELSE shown[p]]

(* A status request that fails leaves the init message as it is; a start   *)
(* or a stop that fails only shows an error in the page that asked for it. *)
(* Nothing refers to the promise any more.                                 *)
Resume(c) ==
  LET kind == task[c].kind
      b    == task[c].page
  IN
  /\ c \in Runnable /\ \A d \in Runnable : c <= d
  /\ task' = [task EXCEPT ![c] = NoTask]
  /\ IF kind = "init" /\ b # NoBrowser THEN InitSent(b)
     ELSE /\ shown' = IF kind \in {"start", "stop"} /\ promise[c] = "answered"
                      THEN Told(b, kind = "start") ELSE shown
          /\ UNCHANGED <<browser, table>>
  /\ latest' = IF kind \in {"start", "stop"} /\ promise[c] = "answered" THEN c ELSE latest
  /\ Forgotten(c)
  /\ UNCHANGED <<dataVars, capturing>>

-----------------------------------------------------------------------------
(* The bridge's events.                                                    *)

(* Faulty variant: the oldest events are kept.                             *)
KeepOldest(es) ==
  /\ received' = received \o es
  /\ events' = FirstOf(events \o es, MaxBuffer)
  /\ table' = [p \in Browsers |-> IF p \in Clients THEN table[p] \cup ToSet(es) ELSE table[p]]

(* 'capture-event', once for each event of es.                             *)
Captured(es) ==
  /\ received' = received \o es
  /\ events' = LastOf(events \o es, MaxBuffer)
  /\ table' = [p \in Browsers |-> IF p \in Clients THEN table[p] \cup ToSet(es) ELSE table[p]]

CoreData ==
  /\ Idle
  /\ \E n \in 1..MaxChunk : Data(n) /\ Captured(News(n))
  /\ UNCHANGED <<capturing, browser, shown, task, latest>>

DemoData ==
  /\ Idle
  /\ \E k \in 1..MaxChunk : DemoTick(k) /\ Captured([i \in 1..k |-> coreEvents + i])
  /\ UNCHANGED <<capturing, browser, shown, task, latest>>

Connected ==
  /\ Idle
  /\ Opened
  /\ Awaits("answer", NoBrowser)
  /\ UNCHANGED <<dataVars, capturing, pageVars, latest>>

(* The other callbacks of the bridge, and the core.                        *)
BridgeStep ==
  /\ Idle
  /\ Boot \/ Redial \/ Closed \/ DataPart \/ CoreAnswers \/ CoreEvent
  /\ UNCHANGED guiVars

TimedOut(c) ==
  /\ Idle
  /\ Timeout(c)
  /\ UNCHANGED guiVars

Next ==
  \/ \E b \in Browsers : \/ \E reloaded \in BOOLEAN : Connect(b, reloaded)
                         \/ Leave(b) \/ Start(b) \/ Stop(b) \/ Clear(b)
                         \/ Query(b) \/ DemoOn(b) \/ DemoOff(b)
  \/ \E c \in Calls : Resume(c) \/ TimedOut(c)
  \/ CoreData \/ DemoData \/ Connected \/ BridgeStep

Spec == Init /\ [][Next]_vars

(* Node runs the callbacks that can run, and the timers of requests fire.  *)
Progress == \E c \in Calls : Resume(c) \/ TimedOut(c)
FairSpec == Spec /\ WF_vars(Progress)

-----------------------------------------------------------------------------
(* Every variable keeps its type; a request is pending exactly while its   *)
(* promise waits, and only then can a callback be awaiting it.             *)
GuiTypeOK ==
  /\ BridgeTypeOK
  /\ events \in Seq(Nat) /\ received \in Seq(Nat)
  /\ capturing \in BOOLEAN
  /\ browser \in [Browsers -> {"closed", "joined", "ready"}]
  /\ shown \in [Browsers -> BOOLEAN]
  /\ \A b \in Browsers : table[b] \subseteq Nat
  /\ \A c \in Calls : task[c].kind \in {"none", "init", "start", "stop", "answer"}
  /\ latest \in 0..used

(* The server holds the newest MAX_EVENTS events since the last clear,     *)
(* none skipped or repeated, over lost connections, demo mode and chunks   *)
(* of any size.                                                            *)
BufferIsNewest == events = LastOf(received, MaxBuffer)

(* A page that joins while events flow misses none: once it has its init   *)
(* message it holds the newest events of the server, whatever arrived      *)
(* while the server awaited the USBPcap status, and it keeps up from then. *)
NoGap ==
  \A b \in Browsers : browser[b] = "ready" => ToSet(LastOf(events, InitBatch)) \subseteq table[b]

(* When the last start or stop broadcast is the last one asked for, every  *)
(* page shows what the server records, whichever page asked, whatever      *)
(* failed before and whoever joined meanwhile.                             *)
CaptureCalls == {c \in 1..used : method[c] \in {"start", "stop"}}
PagesAgree ==
  (latest \in CaptureCalls /\ \A c \in CaptureCalls : c <= latest) =>
    \A b \in Browsers : browser[b] = "ready" => shown[b] = capturing

(* A page that connects gets its init message (or leaves): also when the   *)
(* core that was asked dies, and its answer never comes.                   *)
InitArrives == \A b \in Browsers : browser[b] = "joined" ~> browser[b] # "joined"
=============================================================================
