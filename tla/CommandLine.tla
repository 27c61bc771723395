---------------------------- MODULE CommandLine -----------------------------
(***************************************************************************)
(* bhplus-cli: one query, one device action (UsbActions), or a capture     *)
(* with a filter, a limit and an export at the end.                        *)
(*                                                                         *)
(* The capture uses the engine as EventStream specifies it: one thread per *)
(* hub calls the callback while a capture is active.  The callback appends *)
(* to the vector captured and counts matchedCount, both locals of main,    *)
(* without a lock, and clears g_running at the limit; main polls that flag.*)
(* EventStream leaves open which numbers events carry: here the next one.  *)
(***************************************************************************)
EXTENDS UsbActions

CONSTANTS
  Hubs,
  Limits,     \* the values of -n tried; 0 is no limit
  MaxEvents,  \* bound on the events of a run
  NoEvent

ASSUME CliBounds == MaxEvents \in Nat /\ Limits \subseteq Nat

VARIABLES
  active, log,   \* EventStream's
  main,          \* main's position
  limit,         \* options.maxEvents
  stream,        \* streamTextToStdout
  signals,       \* Ctrl+C so far: the C runtime resets the handler each time
  running,       \* g_running
  locals,        \* captured and matchedCount exist
  slots, size, capacity,  \* captured
  count,         \* matchedCount
  at,            \* each hub thread's position in the callback
  item,          \* the record the thread holds
  held,          \* the size or count the thread has loaded
  written,       \* the records exported or printed
  exitCode,
  crashed,       \* a callback wrote to memory that is no longer the vector
  matches,       \* history: the events that matched, as they came
  overlapped,    \* history: two callbacks ran at the same time
  refused        \* history: the engine refused to start

captureVars == <<active, log>>
mainVars == <<main, limit, stream, signals, running, locals, written, exitCode, refused>>
vectorVars == <<slots, size, capacity>>
threadVars == <<at, item, held, matches, overlapped>>
cliVars == <<captureVars, mainVars, vectorVars, count, threadVars, crashed>>
vars == <<usbVars, cliVars>>

Engine == INSTANCE EventStream

Reserved == 1024  \* captured.reserve without a limit

Init ==
  /\ UsbInit
  /\ Engine!Init
  /\ main = "options"
  /\ limit = 0 /\ stream = FALSE
  /\ signals = 0 /\ running = TRUE
  /\ locals = FALSE
  /\ slots = [i \in 1..MaxEvents |-> NoEvent]
  /\ size = 0 /\ capacity = 0 /\ count = 0
  /\ at = [h \in Hubs |-> "out"]
  /\ item = [h \in Hubs |-> NoEvent]
  /\ held = [h \in Hubs |-> 0]
  /\ written = <<>> /\ exitCode = -1
  /\ crashed = FALSE
  /\ matches = <<>> /\ overlapped = FALSE /\ refused = FALSE

Quiet == \A h \in Hubs : at[h] = "out"

-----------------------------------------------------------------------------
(* main.                                                                   *)

MainOnly(next) ==
  /\ main' = next
  /\ UNCHANGED <<limit, stream, signals>>
  /\ UNCHANGED <<vectorVars, count, threadVars, crashed>>

Exit(next, code) ==
  /\ MainOnly(next) /\ exitCode' = code
  /\ UNCHANGED <<captureVars, running, locals, written, refused, usbVars>>

\* --status, --list-hubs, --list-devices, -h; a control transfer whose
\* options are incomplete; no driver.
Query ==
  /\ main = "options"
  /\ \E code \in {0, 1} : Exit("done", code)

RunAction ==
  /\ main = "options"
  /\ \E method \in {"reset", "control"}, a \in Addresses \cup {0} : Call(method, a)
  /\ MainOnly("action")
  /\ UNCHANGED <<captureVars, running, locals, written, exitCode, refused>>

ActionStep == main = "action" /\ UsbStep /\ UNCHANGED cliVars

ActionDone ==
  /\ main = "action" /\ step = "returned"
  /\ Exit("done", IF ok THEN 0 ELSE 1)

\* The options take effect: the vector is reserved, the callback set, and the hubs begin to start.
StartCapture ==
  /\ main = "options"
  /\ Engine!Begin
  /\ main' = "starting" /\ locals' = TRUE
  /\ limit' \in Limits /\ stream' \in BOOLEAN
  /\ capacity' = IF limit' > 0 THEN limit' ELSE Reserved
  /\ UNCHANGED <<signals, running, written, exitCode, refused, slots, size,
                 count, threadVars, crashed, usbVars>>

\* Room for that many records cannot be had, and nothing catches what reserve throws.
ReserveFails ==
  /\ main = "options"
  /\ main' = "killed"
  /\ limit' \in Limits \ {0} /\ stream' \in BOOLEAN
  /\ UNCHANGED <<captureVars, signals, running, locals, written, exitCode, refused,
                 vectorVars, count, threadVars, crashed, usbVars>>

Started ==
  /\ main = "starting"
  /\ MainOnly("polling")
  /\ UNCHANGED <<captureVars, running, locals, written, exitCode, refused, usbVars>>

\* A hub refused: main returns, captured and matchedCount end before the
\* engine, declared first, whose destructor stops the hubs that did start.
Refused ==
  /\ main = "starting"
  /\ MainOnly("unwinding")
  /\ locals' = FALSE /\ refused' = TRUE /\ exitCode' = 1
  /\ UNCHANGED <<captureVars, running, written, usbVars>>

EngineDestroyed ==
  /\ main = "unwinding" /\ Quiet
  /\ Engine!End
  /\ MainOnly("done")
  /\ UNCHANGED <<running, locals, written, exitCode, refused, usbVars>>

Poll ==
  /\ main = "polling" /\ ~running
  /\ MainOnly("stopping")
  /\ UNCHANGED <<captureVars, running, locals, written, exitCode, refused, usbVars>>

\* (mutant of StopReturns: the capture is exported before it is stopped)
StopLater ==
  /\ main = "stopping"
  /\ MainOnly("exporting")
  /\ UNCHANGED <<captureVars, running, locals, written, exitCode, refused, usbVars>>

\* StopCapture joins the hub threads before it returns.
StopReturns ==
  /\ main = "stopping" /\ Quiet
  /\ Engine!End
  /\ MainOnly("exporting")
  /\ UNCHANGED <<running, locals, written, exitCode, refused, usbVars>>

\* The file cannot be opened or written, or all of captured is exported.
Export ==
  /\ main = "exporting"
  /\ MainOnly("done") /\ locals' = FALSE
  /\ \/ ~stream /\ exitCode' = 1 /\ UNCHANGED written
     \/ /\ exitCode' = 0
        /\ written' = IF stream THEN written ELSE SubSeq(slots, 1, size)
  /\ UNCHANGED <<captureVars, running, refused, usbVars>>

\* signalHandler; a second Ctrl+C finds the default handler and ends the process.
CtrlC ==
  /\ main \notin {"done", "killed"} /\ signals < 2
  /\ signals' = signals + 1
  /\ running' = FALSE
  /\ main' = IF signals = 0 THEN main ELSE "killed"
  /\ UNCHANGED <<limit, stream, locals, written, exitCode, refused>>
  /\ UNCHANGED <<captureVars, vectorVars, count, threadVars, crashed, usbVars>>

-----------------------------------------------------------------------------
(* The callback, on the thread of hub h.                                   *)

To(h, position) == at' = [at EXCEPT ![h] = position]

\* Using captured or matchedCount after main has left may do anything.
Touch == crashed' \in {FALSE, ~locals}

\* The engine delivers an event; the filter decides.
Enter(h) ==
  LET e == [hub |-> h, seq |-> Len(log)]
  IN  /\ at[h] = "out" /\ Len(log) < MaxEvents
      /\ Engine!Deliver(h, Len(log))
      /\ \/ UNCHANGED threadVars
         \/ /\ To(h, IF stream THEN "print" ELSE "push")
            /\ item' = [item EXCEPT ![h] = e]
            /\ matches' = Append(matches, e)
            /\ overlapped' = (overlapped \/ ~Quiet)
            /\ UNCHANGED held
      /\ UNCHANGED <<mainVars, vectorVars, count, crashed, usbVars>>

PrintLine(h) ==
  /\ at[h] = "print"
  /\ written' = Append(written, item[h])
  /\ To(h, "count")
  /\ UNCHANGED <<main, limit, stream, signals, running, locals, exitCode, refused>>
  /\ UNCHANGED <<captureVars, vectorVars, count, item, held, matches, overlapped, crashed,
                 usbVars>>

\* push_back constructs the record behind the last one it sees ...
Push(h) ==
  /\ at[h] = "push" /\ size < capacity
  /\ slots' = [slots EXCEPT ![size + 1] = item[h]]
  /\ held' = [held EXCEPT ![h] = size]
  /\ To(h, "grow")
  /\ Touch
  /\ UNCHANGED <<captureVars, mainVars, size, capacity, count, item, matches, overlapped,
                 usbVars>>

\* ... in a new array when the old one is full: only the counted records move,
\* and a thread that is pushing into the old array may crash.
Reallocate(h) ==
  /\ at[h] = "push" /\ size >= capacity
  /\ capacity' = capacity + 1 + capacity \div 2
  /\ slots' = [i \in DOMAIN slots |-> IF i <= size THEN slots[i] ELSE
                                      IF i = size + 1 THEN item[h] ELSE NoEvent]
  /\ held' = [held EXCEPT ![h] = size]
  /\ To(h, "grow")
  /\ crashed' \in {FALSE, ~locals \/ \E g \in Hubs : at[g] = "grow"}
  /\ UNCHANGED <<captureVars, mainVars, size, count, item, matches, overlapped, usbVars>>

\* ... and then counts it, with or without a stale size.
Grow(h) ==
  /\ at[h] = "grow"
  /\ size' \in {held[h] + 1, size + 1}
  /\ To(h, "count")
  /\ Touch
  /\ UNCHANGED <<captureVars, mainVars, slots, capacity, count, item, held, matches,
                 overlapped, usbVars>>

LoadCount(h) ==
  /\ at[h] = "count"
  /\ held' = [held EXCEPT ![h] = count]
  /\ To(h, "store")
  /\ Touch
  /\ UNCHANGED <<captureVars, mainVars, vectorVars, count, item, matches, overlapped, usbVars>>

\* (mutant of AtLimit: the limit is taken as a maximum that may be reached)
BeyondLimit(n) == limit > 0 /\ n > limit

AtLimit(n) == limit > 0 /\ n >= limit

\* (mutant of StoreCount: an event is not counted once the capture is to end)
StoreIfRunning(h) ==
  /\ at[h] = "store"
  /\ count' = IF running THEN held[h] + 1 ELSE count
  /\ running' = (running /\ ~AtLimit(held[h] + 1))
  /\ To(h, "out")
  /\ Touch
  /\ UNCHANGED <<main, limit, stream, signals, locals, written, exitCode, refused>>
  /\ UNCHANGED <<captureVars, vectorVars, item, held, matches, overlapped, usbVars>>

StoreCount(h) ==
  /\ at[h] = "store"
  /\ count' = held[h] + 1
  /\ running' = (running /\ ~AtLimit(held[h] + 1))
  /\ To(h, "out")
  /\ Touch
  /\ UNCHANGED <<main, limit, stream, signals, locals, written, exitCode, refused>>
  /\ UNCHANGED <<captureVars, vectorVars, item, held, matches, overlapped, usbVars>>

Inside(h) == \/ PrintLine(h) \/ Push(h) \/ Reallocate(h) \/ Grow(h)
             \/ LoadCount(h) \/ StoreCount(h)

MainStep == \/ Query \/ RunAction \/ ActionStep \/ ActionDone \/ StartCapture
            \/ ReserveFails \/ Started \/ Refused \/ EngineDestroyed \/ Poll \/ StopReturns
            \/ Export

Alive == ~crashed /\ main # "killed"

Next ==
  /\ Alive
  /\ \/ MainStep \/ CtrlC
     \/ \E h \in Hubs : Enter(h) \/ Inside(h)
     \/ main = "action" /\ Bus /\ UNCHANGED cliVars

\* main and every hub thread inside the callback run; StopCapture, which may
\* wait for traffic (UsbPcapReader), is only given what Quiet asks.
Spec == /\ Init /\ [][Next]_vars
        /\ WF_vars(Alive /\ (Poll \/ Started \/ Refused))
        /\ \A h \in Hubs : WF_vars(Alive /\ Inside(h))

-----------------------------------------------------------------------------
(* Properties.                                                             *)

\* Once the export reads captured, and once main has left, no callback uses
\* them, unless a start was refused after a hub had started; only that, and
\* callbacks that overlap while the vector grows, can write to freed memory.
LocalsOutliveCallbacks ==
  /\ (main = "exporting" \/ ~locals) => refused \/ (Quiet /\ ~active)
  /\ crashed => refused \/ overlapped

\* How many of the matching events were asked for.
Asked == IF limit = 0 \/ limit > Len(matches) THEN Len(matches) ELSE limit

\* A run whose callbacks never overlapped, as with one hub, exports the
\* matching events from the first on, once and in order, at least as many as
\* were asked for, and reports how many it exported: neither Ctrl+C, nor the
\* way the limit ends the capture, nor a growing vector loses or doubles one.
AskedForExported ==
  main = "done" /\ exitCode = 0 /\ Len(log) > 0 /\ ~overlapped =>
    /\ written = SubSeq(matches, 1, Len(written))
    /\ Asked <= Len(written)
    /\ count = Len(written)

\* As many matching events as asked for end the capture, as long as no two
\* callbacks overlap; increments lost to an overlap may let it go on.
LimitStops ==
  (limit > 0 /\ Len(matches) >= limit /\ ~overlapped /\ main = "polling") ~>
    (main # "polling" \/ ~Alive \/ overlapped)

\* -n is the maximum of matching events to capture (the usage text).
LimitKept == main = "done" /\ exitCode = 0 /\ limit > 0 => Len(written) <= limit

\* The number reported is the number of events exported (the final message).
ReportsExported ==
  main = "done" /\ exitCode = 0 /\ Len(log) > 0 /\ ~stream => count = Len(written)
=============================================================================
