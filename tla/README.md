# A verification project for USBPcapGUI

USBPcapGUI captures USB traffic through the USBPcap driver: a C++ core service
reads the driver and pushes decoded events through a named pipe to a Node.js
server, which relays them to browsers. This directory holds TLA+ modules
translated from its source, TLC configurations that check them on small
instances, and proofs checked by TLAPS for every value of the constants.
Paths below are relative to the repository (`src/` in PROJECT.json).

## The system

| Part | State it keeps | Operations | What makes it correct |
|---|---|---|---|
| Hub reader, `core/src/usbpcap_reader.cpp` | handle, `m_running`, `m_thread`; shared sequence counter | Open, StartCapture, StopCapture, ReadLoop, destructor | no callback after a stop; numbers unique and in order per hub; none lost; a stop ends |
| IRP pairing, `core/src/pcap_parser.cpp` | table of pending requests by IRP pointer | Insert, Consume, Expire | a completion meets its own request; latencies are right; the table is bounded |
| Capture engine, `core/src/capture_engine.cpp` | `m_reader`, `m_stats` | StartCapture, StopCapture, EnumerateDevices, destructor | no hub thread outlives a capture; success means all hubs run |
| IPC server, `core/src/ipc_server.cpp` | clients, mutex, stop event | accept, read, request, broadcast, Stop | one order for all clients; nothing after capture.stopped; Stop ends |
| Core bridge, `gui/core-bridge.js` | socket, pending requests, line buffer, timers, demo flag | connect, request, data, close, demo on/off | each request settles once; reconnects for ever; no line lost |
| GUI server, `gui/server.js` | event buffer, `capturing`, browsers, core process | WebSocket and REST commands, relay | no gap for a connected browser; status agrees with the core |
| Browser, `gui/public/js/capture.js` | log, view, selection, DOM rows, scroll position | add, clear, filter, select, scroll | the view is the filtered log; rows show what their index means |
| Filters, `core/src/filter_engine.cpp`, `gui/server.js`, `gui/public/js/filter.js` | none | Parse, Matches, three times | the export selects what the table shows; the three evaluators agree where they read a token alike |
| Formats, `core/src/pcap_parser.cpp`, `export_engine.cpp`, `gui/server.js` | none | packet to event, event to pcap or JSON | what an export holds reads back as what was captured |
| Launcher, `launcher/src/main.cpp`; start and end of `gui/server.js` | child processes, mutex, port | start, quit, takeover of the port | no orphan; a takeover ends with a server |
| Command line, `cli/src/main.cpp` | captured vector, counter, `g_running` | query, device action, capture, export | the events asked for are exported; the limit ends the run; locals outlive callbacks |
| USB actions, `core/src/usb_actions.cpp` | handles | reset a device, control transfer | the device whose address matched is meant; every return closes what is open |
| Driver manager, device enumerator, trigger engine, SDK, kernel driver, protocol parsers | none | Windows calls, formatting | not modelled |

Interactions: hub threads call the engine's callback, which counts and calls
`IpcServer::BroadcastEvent` (all on the hub's thread); pipe clients' threads
call the engine; the bridge emits events to the server, which appends and
broadcasts; browsers send commands back the same way.

Hard behaviours: a stop in several steps against a read loop in many; a loop
that ends by itself; cancellation that comes before the read it should cancel;
shared counters; callbacks under a mutex that shutdown also takes; clients
that are connected before they are listed; clocks set back; reused pointers;
reconnects in mid-line; awaits between a test and its use; scroll events that
come after the table changed; processes that kill each other by name; callbacks
that use the locals of a main that returns; a bus that changes under a lookup.
PROJECT.json lists each hazard at its line with the properties that address it.

## Modules

**IrpPairing** - the table `IrpPairingTable` and its use by `ReadLoop`. One
action, `Packet`, is one turn of the loop: sweep when due, then insert or
consume, then deliver `event`. `table` is the map; `open` is the history the
properties compare it with (the request a completion ought to meet and the
latest time seen since). Timestamps are any values of `Times` in any order, as
the driver takes them from the wall clock; `U64` and `U32` are the moduli of
the subtraction and of the Duration field. MCIrpPairing gives the constants.

**UsbPcapReader** - all `UsbPcapReader` objects of one `UsbPcapMultiReader`.
`thread[h]` is where the read thread is: `header`/`headerWait` before and
inside the first ReadFile, `check` at the loop test, `read`/`readWait`,
`stamp` (a number is about to be taken), `deliver` (about to call back),
`exit`, `ended`; `none` means not joinable. `call[h]` is where the owner is
inside StopCapture. A destroyed joinable thread sets `terminated`. The driver
(START/STOP, buffer, CancelIoEx) is external: a read waits until a packet,
a failure or a cancellation of the pending read.

**CaptureEngine** extends it: one controller runs the engine's methods as loops
over hubs (`op`, `todo`), every reader step it makes is an action of
UsbPcapReader, and the callback's unlocked `m_stats` increment is a load and a
store (`cb`, `loaded`). The STOP ioctl may fail, a hub may refuse START, and a
configuration may select any set of hubs.

**EventStream** - what the engine promises to its callback's owner: events only
while a capture is active, each with a fresh number that grows within its hub.
CaptureEngine instantiates it (the refinement is by name: `active`, `log`).

**IpcServer** - accept thread, a read thread per client context, the hub
threads, and the caller of Stop, over `m_clientsMutex`. The engine is reduced
to what CaptureEngine establishes: callbacks while capturing, and a stop that
waits for the callbacks under way. A write takes at most five seconds and is
one step that may lose the message. `inbox` records what a client receives.

**CoreBridge** - the Node side of the pipe: `sock` is `client` and `connected`;
`timers` counts the reconnect timers running and `armed` says that
`reconnectTimer` names one (a server that dials late can have two, and demo
mode cancels only the named one); `promise` and `pending` are the requests;
`buffer` is whether the bytes kept by `_processBuffer` are none, the start of
the next line, or the remainder of a connection that is gone. The core is
external: it answers in order, may refuse a start, and sends one line per event.
It is composed by the next module and has no specification of its own.

**GuiServer** extends it: `events` is `captureEvents`, `browser[b]` whether page
b is in `wsClients` and has its init message, `shown` and `table` what the page
shows. `task[c]` is the callback that awaits request c: a handler is one step up
to its `await`, and `Resume` is the rest, which Node runs before any other
callback (`Idle`). `received` (every event since the last clear) and `latest`
(the last start or stop that was broadcast) are histories the properties use.

What the code does and no property claims: after a reconnect in mid-line the
first line of the new connection is lost with the remainder; a page that joins
while events flow gets some of them twice, from the broadcast and from its init
message; a start that fails leaves `capturing` set; answers of the pipe that
arrive after demo mode was switched on are broadcast after those of demo mode.

**CaptureTable** - the browser's table, one action per handler. `viewIsLog` says
that `filteredEvents` and `allEvents` are one array, which `Apply` makes of them
when there is no condition. `rows` are the DOM rows with what was drawn in them;
assigning `scrollTop` only marks a scroll event as pending, and `OnScroll`
handles it at any later time. `TrimForOne` and `TrimForBatch` are the two trims.

**Processes** - launchers, GUI servers, the port, and the cores each of them
starts (a core is named by its parent). A server that finds the port taken looks
up its owner, kills it, kills every core by name, polls the port, closes its test
server and listens again, all separate steps. Users, crashes and a foreign
program are part of `Next`; `interfered` records a server ended by hand.

**UsbActions** - `ResolveUsbDevice`, the restart and the control transfer, one
query per step, every one of which may fail. `Return(closed, good)` closes just the
handles that this return of the code closes, and `Hold` opens one: the hub, a device
list of SetupAPI (of the lookup of the instance, of the interface, of the restart), or
the device and its WinUSB handle. `Bus` moves devices between ports and addresses in between; `matched` is the
device whose address matched, `swapped` that its port changed before its driver
key was read: in that window the code takes the device that is at the port by then.

**CommandLine** extends it with `bhplus-cli`'s main and its callback on the hub
threads: `slots`, `size` and `capacity` are the vector `captured`, whose append is
a load and a store, with a reallocation in between when it is full; `locals` says
that main's frame is still there. A `-n` too large for `captured.reserve` ends the
process, since main catches nothing (`ReserveFails`). The engine is used as EventStream, the module
CaptureEngine is shown to implement, and not as CaptureEngine itself.

**EventFormats** - a packet as the driver writes it, `Event` (PcapStream), the
command line's export, `EventToJson`, and the GUI server's export, as operators on
records. **EventFilters** extends it with the three parsers and matchers of the
filter language. A `Word` (a token's value, or what follows its operator) says of a
string only what the evaluators ask: in which texts it is found as it stands, as a
JavaScript RegExp and as a std::regex, and what number it starts with. `Contains` is
the browser's `includes`, `FoundJs` and `FoundStd` the patterns; `ParseFloat` (the
table), `JsNumber` (the GUI server) and `Stoull` (the core) read the number, each in
its own way; `JsDirection` has the fallback to a pattern that `CoreDirection` lacks.
**MCEventFilters** names the packets, words and tokens that are tried.

In each module a definition marked "Faulty variant" or "mutant of" is a plausible
bug of the definition after it; it is used by no specification, and is there to
show that the properties notice it.

**IrpPairingProofs, CaptureEngineProofs** (the hub readers and the engine),
**IpcServerProofs, GuiServerProofs** (the bridge and the server),
**CaptureTableProofs, ProcessesProofs, CommandLineProofs** (with USB actions) and
**EventFormatsProofs** (formats and filters) - the theorems.

## Runs

| Run | Bounds | Shows |
|---|---|---|
| irp_pairing | 2 pointers, times 0..6, age limit 2, sweep interval 1, 6 packets | the pairing is right; six packets suffice for insert, reuse, jump back, sweep and completion on both pointers |
| capture_engine | 2 hubs, 2 packets, repeated captures, fair threads | every method sequence: quiet after stop, order, no loss, statistics that never count too much (exact with one hub), stops that end; implements EventStream |
| ipc_server | 2 clients, 1 hub thread, 1 event, 2 requests | order, stop notice, clean Stop, no deadlock with the accept thread |
| ipc_stop_returns (violated) | 1 client, fair threads | Stop may wait for ever on a client thread |
| gui_events | 1 page, 3 events, 3 requests, buffer of 2, init batch of 1 | the buffer is the newest events, a page misses none, the bridge never stops dialling |
| gui_pages | 2 pages, 3 requests, fair callbacks | pages agree on the capture state; an init message always arrives |
| capture_table | log of 2, trims of 1, 1 visible row, 2 kinds, 4 events | the view is the filtered log; the viewport is rendered; and, as long as the view is an array of its own, every row shows the event it selects and the panel the selected event |
| table_view (violated) | the same, 3 events | once the filter was cleared, the log holds events twice, and a trim shifts the view under the drawn rows and the selection |
| processes | 2 launchers, 2 servers, a foreign program | quit leaves nothing, takeovers end, cores are spared |
| command_line | 2 devices, ports and addresses, 4 moves; 2 hubs, limits 0 to 2, 3 events | handles, the device meant, the lifetime of locals, the export and the limit, as long as callbacks do not overlap |
| cli_limit (violated) | 1 hub, limits 0 to 2, 3 events | more events than `-n` says are exported |
| formats | packets of 5 transfer types, 4 header lengths, 4 data lengths; tokens of every key, operator, negation and quoting over words of every kind | exports read back; the export selects what the table shows, and the command line what the GUI server would, but for the tokens they read in different ways |

Two hubs show every interaction of hubs (they meet only at the counter and the
statistics, pairwise); two packets show order within a hub and across hubs.
Two clients show disagreement on an order; the event and the notice of a
request are two concurrent broadcasts. Three events overflow a buffer of two, in
one chunk or several; three requests are a connection's status request, a page's
init, and a start, or a start and a stop of two pages crossing. Pages meet only
in the capture flag, so the run with events has one page and the run with two
pages no events. Four events fill a log of two, trim it twice and leave the view
longer than it; the viewport needs one row to be wrong, and a view of three
leaves rows on both sides of it. Two launchers and two servers are the parties of
every takeover and every raid; more only repeat them. Two hub threads show every
overlap in the callback; three events pass a limit of two. Four moves unplug
both devices and exchange their addresses. A packet's header is shorter than the
type's details, exactly long enough, or longer; its data shorter than a setup
packet, equal to it, or longer, and longer than what JSON carries (8 here, 4096
in the code); an IRP number is exact in JavaScript or not. The words hold the cases in which the
evaluators part: a pattern that is not found as it stands (`01.*08`, `get|set`), one
that std::regex cannot compile, an empty value, numbers with an exponent, a prefix
`0x`, a sign or text behind them, and `in`, `<<<` and what is left of `<<<` once its
first character was taken for an operator. U64 is a million there, more than
any number a token or an event has. In EventFilters one
token stands for the conjunction of tokens a text is, since conditions are tested
one by one. `MaxPackets`, `MaxEvents`, `MaxCalls`, `MaxMoves` and `MaxReceived`
bound what the environment does, never what the code does. The runs do not check
deadlock: an idle program and a finished one stop in every module.
capture_table's symmetry permutes kinds, which no property or action tells apart.

Fairness. `FairEngineSpec` (and `FairReaderSpec` of the readers alone): each read
thread is scheduled when it can run (data is there, or it is not inside ReadFile)
and an owner inside StopCapture goes on, except that its STOP ioctl may wait for a
pending read, since the handle is opened for synchronous I/O; nothing is assumed of
packets, device failures or owner calls. `FairSpec` of
IpcServer: each thread that can run is scheduled, and a read ends when the stop
event is set; no client must connect or send. A mutex needs no strong fairness
here: after `m_running` is cleared only the broadcasts already past its test
contend for it. Both are what the Windows scheduler gives. `FairSpec` of
GuiServer: callbacks that can run are run and the ten-second timer of a request
fires, which is Node's event loop; nothing is assumed of the core. `Spec` of Processes: a server
that is starting goes on, as its polls are timers; nobody must start or quit.
`Spec` of CommandLine: main's poll and a hub thread inside the callback go on.

The violated runs are disagreements of code and comments, usage texts or documents,
listed under "findings" with the line they quote. `IpcServer::Stop` is called only by
the destructor in `main`, after a loop that nothing ends, so ipc_stop_returns is
about the class and not about today's program.

TLC refutes further definitions, which state what a comment or a document says and the
code does not do. No run lists them; each is violated when it is added to a
configuration:

- DurationIsLatency of IrpPairing: a 64-bit latency stored in 32 bits wraps.
- JoinedAfterStop of UsbPcapReader ("cancels I/O and joins thread",
  usbpcap_reader.h:75): a loop that ended by itself has cleared `m_running`, the stop
  returns without join, and destroying the reader then calls std::terminate.
- StopReturns of UsbPcapReader: a CancelIoEx that comes between the loop's test and
  its ReadFile cancels nothing, and the join waits for traffic; so may the STOP ioctl
  before it, while a read is pending.
- ReachesConnected of IpcServer: a broadcast skips a client that is connected and not
  yet in `m_clients`.
- EachOnce of CaptureTable ("a flat array of ALL capture events", capture.js:6): after
  a filter was cleared the log holds every further event twice.
- ReportsExported of CommandLine ("{} matching event(s) exported", cli/src/main.cpp:351):
  with two hubs an increment lost to an overlap makes the number too small.
- TableIsExport of EventFilters ("Export filtered data only", index.html:119): the
  table searches data and free text as they stand, the export as patterns and in the
  phase, too; the table reads numbers with parseFloat, the export with Number.
- EndpointFilters of EventFilters (DESIGN.md:264 has `endpoint:0x81` in a filter of the
  web page): the table does not know the key, and shows everything.

Some of these, and the findings table_view and cli_limit, have a counterpart that holds
and is checked. RowsTrue and DetailIsSelected are what TableShowsView says, restricted
to a view that is an array of its own (`~viewIsLog`; the view is the log from the
clearing of a filter to the next filter or clear). ViewIsExport is TableIsExport, restricted to
the tokens both read alike (`ReadAlike`). AskedForExported says what LimitKept and
ReportsExported leave of the export when callbacks do not overlap: the events asked
for, perhaps more, each once, and their number. StopCompletes is StopReturns for a
stop whose cancellation met a read or that a packet comes to, and QuietAfterStop what
holds of a stop that does not join.

Other facts of the code that the modules show and no property claims away:
the GUI's pcap export takes every transfer type for BULK, with no URB function
and no details of control and isochronous transfers, and rounds IRP numbers above
2^53; the command line exports every event that matches until StopCapture has
returned, at least as many as `-n` asks for and, even with one hub, possibly more
(main looks at `g_running` every 100 ms); with two hubs an increment lost to an overlap
lets the capture go on beyond the limit until further events come, which LimitStops
leaves out; a refused start ends main's vector under a running callback;
a second Ctrl+C kills the command line, since the C runtime resets the handler;
`Decode` may meet a DataLength beyond the data kept; a quoted whole token with a
colon has an unknown key in both JavaScript evaluators and matches everything;
the browser ignores the keys `phase` and `endpoint`; `dir:<<<` and `dir:>>>` lose their
first character to the operator in all three evaluators, after which the two in
JavaScript find the rest as a pattern and the core matches nothing; two callers of one port may
both find it free between the test server's close and the listen; a takeover
kills the cores of other servers, and a launcher's core lives beside its server's.

## Proofs

*IrpPairing*, for every set of pointers, times, age limit, sweep interval and
moduli that satisfies the module's named assumptions: TypeOK,
OffersLatestRequest, NoEarlyExpiry, StaleBound, FreshCompletionTimed. The
inductive invariant IInv adds to them that the last sweep lies in the past of
the clock value it is compared with and that every entry kept by a sweep is
young enough; without it, nothing bounds an entry between two sweeps.

*UsbPcapReader*, for every set of hubs and number of packets: ReaderTypeOK,
QuietAfterStop, StreamOrder, EveryNumberDelivered. RInv strengthens them by
ControlInv (flag, thread, call and reader life agree: a thread is alive exactly
while the flag is set or a stop is under way) and HeldInv (a number held by a
thread is used, is in no event, exceeds its hub's events, and is held by no
other thread); StreamOrder alone is not inductive, since it says nothing of the
number about to be appended. Steps that neither take nor deliver a number are
handled together (`Silent`).

*CaptureEngine*, for every set of hubs: each step of the engine is a step of
UsbPcapReader or leaves it alone (UsesReaders), so RInv holds in the engine.
QuietInv then gives QuietWhenIdle: a thread runs only while a capture is active,
since hubs are woken only by `starting`, and a stop loop leaves behind it only
stopped hubs, which QuietAfterStop makes quiet. With BetweenInv (the log is
cleared, and a capture begun, only between captures) and the HeldInv of the
readers (a number about to be delivered is new), every step maps to a step of
EventStream or a stutter: ImplementsStream. StartReportsAll needs StartInv: in the
start loop the open hubs are those selected, and while none was refused those the
loop has passed have a thread. StatsSound needs CountInv: neither the counter nor a
value a thread has loaded and not yet stored exceeds the number of events `Counted`,
which are the numbers taken less those whose increment is still to come; and with
one hub, SoleInv, which says at each position of the callback how far the counter
has come.

*IpcServer*, for every set of clients and hub threads and every number of events
and requests: AcceptNotBlocked, StopLeavesNothing, StoppedIsLast, SameOrder.
LockInv: a thread writes exactly while it owns the mutex, and Stop owns it exactly
while it joins the clients. AcceptInv: once Stop has joined the accept thread it has
exited, and until Stop is done every client thread is listed or about to be.
HandlerInv: requests are handled one at a time (a restriction of the model), and
one that stops the hubs does so with the capture over. MessageInv: every message in
an inbox or on its way is `Sound`, which for the notice of the current capture's
stop means that no callback of it runs or will run. OrderInv: messages on their way
differ, and one that has reached some inboxes is the last element there, since its
thread still owns the mutex.

*GuiServer*, for every set of pages and every bound: NeverStuck, GuiTypeOK,
BufferIsNewest, NoGap, PagesAgree. For NeverStuck, DialInv adds that a timer
`reconnectTimer` names is running, so that cancelling it on the way into demo mode
never cancels one that is gone; a first lemma reduces the steps of the whole server
to the six actions that touch the connection, its timers or demo mode. BridgeInv
and GuiInv are the types of bridge and server, with the facts they hang on: a call
not made yet has no promise and nobody awaits it. BufferIsNewest rests on what
cutting a sequence before and after each append leaves (LastOfAppend), and NoGap on
BufferIsNewest and on NewestOld: of the newest events after some arrived, an old one
was among the newest before. AgreeInv adds to PagesAgree that the server records
what the last start or stop asked for.

*CaptureTable*, for every size of the log, the trims, the container and the
overscan: ViewComplete, VisibleRendered, and, while the view is not the log itself,
RowsTrue and DetailIsSelected. TableInv says
that the rows drawn are those of `_renderedRange`, which is what makes the early
return of `_renderVisible` right, and that view and log are one array only without
conditions. RowsInv and DetailInv add that rows and selection lie in the view.
ViewInv gives the events that precede the passing ones in the view; a trim adds to
them, since filtering distributes over concatenation (PassingConcat). Two lemmas,
PushResult and RedrawDraws, say what an addition and a rendering leave.

*Processes*, for every set of launchers and servers: QuitLeavesNothing and
RaidSparesOwner. The first is strengthened by StartedInv (a launcher that has not
started has no core, and one that has not reached its server has none) and
OwnCoreInv (a server whose core is up is serving, so an ended server leaves no
core); most steps only end processes and are handled together as harmless. The
second rests on RaidInv: a server that raids has ended the owner it had found.

*CommandLine*, for every number of devices, ports, addresses, hubs and events:
HandlesReturned and ActsOnAddressed, from the types of the bus, OnePort (a device
is at one port), LookupInv (what is found is what matched, unless the port was
swapped between the query of its address and that of its driver key) and HandlesInv
(what the call holds at each of its steps, which is what makes the closes of each
return enough); LocalsOutliveCallbacks, with OverlapInv (two threads
in the callback are recorded as overlapped); and AskedForExported, with KeptInv:
as long as no two callbacks overlapped, the vector holds the matching events up to
the step the one thread in the callback has reached (`Kept`, ThreadInv), so that at
the end all that matched is exported and counted (AllExported), whatever the limit.

*EventFormats*, for every set of packets: ExportReadsBack and WebExportReadsBack.
TimeSplits puts a time together again from the seconds and microseconds the export
writes, and DetailsReadBack says that the reader finds stage, setup packet and
isochronous fields behind the header the export wrote; WebReadsBack says the same
of the GUI server's export, after the cut and the mapping of JSON. *EventFilters*,
for every set of packets, words and tokens - whatever a word is found in and
whatever number it starts with: ViewIsExport, by the kind of the key (KnownTexts,
KnownNumbers, KnownDirection, KnownData, KnownFreeText, UnknownKey), and CoreAgrees,
from what JSON keeps of an event (JsonOf) and again by the kind of the key
(CorePatterns, CoreCounts, CoreDirections). Both hold for the tokens that the two
evaluators read alike, which ReadAlike and CoreReadsAlike spell out.

Inductions over a number of steps inside one definition (the lines of a chunk, the
events of a batch) are proved from a lemma that takes the set of the numbers with
the property (Induction in GuiServerProofs and CaptureTableProofs; the library's
own takes an operator, which the installed provers cannot instantiate). Its least
missing number is had from FiniteSetTheorems: inclusion orders the sets 0..k well.
EventIds of CoreBridge and Passing of CaptureTable are recursive functions for
this reason.

Assumptions are those named in the modules; TLC evaluates them in every run. Two
deserve a word. CliBounds says that the number of events and the limits of `-n`
are natural numbers. TokensAssumption says that the tokens are different from "no
token", that there are unsigned numbers, and that a value without an operator is all
rest.

Every safety invariant and every action property that a passing run checks is proved. Only
model-checked are the liveness properties StopCompletes, InitArrives,
TakeoverEndsServing and LimitStops, which need ENABLED and fairness and are out of
the prover's reach. The violated runs are counterexamples, which TLC finds.

## Not modelled

Driver manager and device enumerator: queries of the registry, the service
manager and SetupAPI, pure I/O without state; where a module calls them, their
answer is a choice. Trigger engine: nothing in the program constructs it.
Protocol parsers, and CSV, text and JSON-line export: stateless formatting. SDK
and kernel skeleton: the capture path does not use them. Of the browser, the
device tree, the hex view and the reconnecting WebSocket; of the GUI server, the
REST copies of the WebSocket commands. Two simultaneous pipe clients inside the
engine (a data race without defined outcome), and the closing of one pipe handle
by two threads (its outcome depends on what reuses the handle). The answers of
query handlers. The five-second bound of one pipe write is a step, so that slow
clients delay nobody in the model.

## Plan

Done: the capture path, the GUI server, the table, processes, the command line,
USB actions, formats and filters, and the proofs of all safety properties. Left:

1. Proofs: an abstract specification of the log that a page and the command line
   promise (each event once, in order, the newest kept), and that CaptureTable,
   before a filter is cleared, and GuiServer implement it.
2. The page's reconnecting WebSocket, composed with GuiServer's pages.
3. The trigger engine, once the program uses it.
