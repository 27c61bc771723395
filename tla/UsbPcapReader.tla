--------------------------- MODULE UsbPcapReader ----------------------------
(***************************************************************************)
(* The hub readers of one UsbPcapMultiReader: one UsbPcapReader object per *)
(* root hub, each with a driver handle, the flag m_running, and a thread   *)
(* m_thread that runs ReadLoop.                                            *)
(*                                                                         *)
(* Two actors share a reader: its owner, who calls Open, StartCapture,     *)
(* StopCapture and the destructor one at a time, and its read thread.      *)
(* StopCapture runs in several steps (exchange, STOP ioctl, CancelIoEx,    *)
(* join) and ReadLoop in many, and they interleave.  The readers share the *)
(* sequence counter of the multi reader.                                   *)
(*                                                                         *)
(* The driver is external: it is modelled as the code expects it, with     *)
(* CancelIoEx failing the read that is pending at that moment.             *)
(***************************************************************************)
EXTENDS Integers, Sequences

CONSTANTS
  Hubs,       (* The root hubs (RootHubInfo.index).                         *)
  MaxPackets  (* Bound on the packets the bus carries in one capture.       *)

ASSUME MaxPacketsAssumption == MaxPackets \in Nat

VARIABLES
  open,        (* hubs with a reader object in m_readers, its handle open   *)
  running,     (* m_running                                                 *)
  thread,      (* control of the read thread; "none" iff not joinable       *)
  call,        (* the owner's position inside StopCapture                   *)
  stopped,     (* history: the last StopCapture has returned                *)
  stamp,       (* the number ReadLoop gave to the packet it holds           *)
  seqCounter,  (* m_seqCounter of the multi reader                          *)
  log,         (* history: the events passed to the callback                *)
  driverOn,    (* the driver is between START and STOP                      *)
  backlog,     (* packets in the driver's buffer                            *)
  traffic,     (* packets the bus may still carry                           *)
  terminated   (* std::terminate ended the process                          *)

ownerVars  == <<open, call, stopped>>
threadVars == <<running, thread, stamp>>
streamVars == <<seqCounter, log>>
driverVars == <<driverOn, backlog, traffic>>
readerVars == <<ownerVars, threadVars, streamVars, driverVars, terminated>>

-----------------------------------------------------------------------------
(* Positions of the read thread.                                           *)
Blocked == {"headerWait", "readWait"}          \* inside ReadFile
Alive   == {"header", "headerWait", "check", "read", "readWait",
            "stamp", "deliver", "exit"}        \* may still act
Joinable(h) == thread[h] # "none"

ReaderInit ==
  /\ open = {}
  /\ running = [h \in Hubs |-> FALSE]
  /\ thread = [h \in Hubs |-> "none"]
  /\ call = [h \in Hubs |-> "none"]
  /\ stopped = [h \in Hubs |-> FALSE]
  /\ stamp = [h \in Hubs |-> 0]
  /\ seqCounter = 0
  /\ log = <<>>
  /\ driverOn = [h \in Hubs |-> FALSE]
  /\ backlog = [h \in Hubs |-> 0]
  /\ traffic = MaxPackets
  /\ terminated = FALSE

-----------------------------------------------------------------------------
(* The driver.                                                             *)

(* The bus carries a packet of a hub that is being captured.               *)
Arrive(h) ==
  /\ driverOn[h] /\ traffic > 0
  /\ traffic' = traffic - 1
  /\ backlog' = [backlog EXCEPT ![h] = @ + 1]
  /\ UNCHANGED <<ownerVars, threadVars, streamVars, driverOn, terminated>>

-----------------------------------------------------------------------------
(* ReadLoop.                                                               *)

Advance(h, from, to) ==
  /\ thread[h] = from
  /\ thread' = [thread EXCEPT ![h] = to]

(* ReadFile is called: the thread blocks until data, failure or            *)
(* cancellation.                                                           *)
IssueRead(h) ==
  /\ \/ Advance(h, "header", "headerWait")
     \/ Advance(h, "read", "readWait")
  /\ UNCHANGED <<ownerVars, running, stamp, streamVars, driverVars, terminated>>

(* The global header, which the driver writes at START, has been read.     *)
HeaderRead(h) ==
  /\ Advance(h, "headerWait", "check")
  /\ UNCHANGED <<ownerVars, running, stamp, streamVars, driverVars, terminated>>

(* A read fails: the device is gone, or the header or record is malformed. *)
ReadFails(h) ==
  /\ \/ Advance(h, "headerWait", "exit")
     \/ Advance(h, "readWait", "exit")
  /\ UNCHANGED <<ownerVars, running, stamp, streamVars, driverVars, terminated>>

(* Faulty variant: a loop that never looks at m_running.                           *)
ContinueAlways(h) == TRUE

(* The loop condition.                                                     *)
Continue(h) == running[h]

Check(h) ==
  /\ IF Continue(h) THEN Advance(h, "check", "read") ELSE Advance(h, "check", "exit")
  /\ UNCHANGED <<ownerVars, running, stamp, streamVars, driverVars, terminated>>

PacketRead(h) ==
  /\ backlog[h] > 0
  /\ Advance(h, "readWait", "stamp")
  /\ backlog' = [backlog EXCEPT ![h] = @ - 1]
  /\ UNCHANGED <<ownerVars, running, stamp, streamVars, driverOn, traffic, terminated>>

(* Faulty variant: the number is the counter's value before the last packet.       *)
StampPrevious(h) ==
  /\ Advance(h, "stamp", "deliver")
  /\ stamp' = [stamp EXCEPT ![h] = seqCounter - 1]
  /\ seqCounter' = seqCounter + 1
  /\ UNCHANGED <<ownerVars, running, log, driverVars, terminated>>

(* seqCounter.fetch_add(1)                                                 *)
Stamp(h) ==
  /\ Advance(h, "stamp", "deliver")
  /\ stamp' = [stamp EXCEPT ![h] = seqCounter]
  /\ seqCounter' = seqCounter + 1
  /\ UNCHANGED <<ownerVars, running, log, driverVars, terminated>>

(* Faulty variant: the event is dropped when a stop has been requested meanwhile.  *)
DeliverIfRunning(h) ==
  /\ Advance(h, "deliver", "check")
  /\ log' = IF running[h] THEN Append(log, [hub |-> h, seq |-> stamp[h]]) ELSE log
  /\ UNCHANGED <<ownerVars, running, stamp, seqCounter, driverVars, terminated>>

(* The callback has been given the event.                                  *)
Deliver(h) ==
  /\ Advance(h, "deliver", "check")
  /\ log' = Append(log, [hub |-> h, seq |-> stamp[h]])
  /\ UNCHANGED <<ownerVars, running, stamp, seqCounter, driverVars, terminated>>

(* ReadLoop returns, clearing m_running whether or not it was asked to.    *)
Exit(h) ==
  /\ Advance(h, "exit", "ended")
  /\ running' = [running EXCEPT ![h] = FALSE]
  /\ UNCHANGED <<ownerVars, stamp, streamVars, driverVars, terminated>>

ThreadStep(h) ==
  \/ IssueRead(h) \/ HeaderRead(h) \/ ReadFails(h) \/ Check(h)
  \/ PacketRead(h) \/ Stamp(h) \/ Deliver(h) \/ Exit(h)

-----------------------------------------------------------------------------
(* The owner.                                                              *)

(* A new UsbPcapMultiReader: a new sequence counter.                       *)
NewMultiReader ==
  /\ open = {}
  /\ seqCounter' = 0
  /\ log' = <<>>
  /\ traffic' = MaxPackets
  /\ UNCHANGED <<ownerVars, threadVars, driverOn, backlog, terminated>>

(* Create a reader for h and open its device.                              *)
Open(h) ==
  /\ h \notin open
  /\ open' = open \cup {h}
  /\ stopped' = [stopped EXCEPT ![h] = FALSE]
  /\ UNCHANGED <<call, threadVars, streamVars, driverVars, terminated>>

(* Faulty variant: each hub's start resets the shared counter.                     *)
StartResetsCounter(h) ==
  /\ h \in open /\ call[h] = "none" /\ ~running[h] /\ ~Joinable(h) /\ ~stopped[h]
  /\ driverOn' = [driverOn EXCEPT ![h] = TRUE]
  /\ running' = [running EXCEPT ![h] = TRUE]
  /\ thread' = [thread EXCEPT ![h] = "header"]
  /\ seqCounter' = 0
  /\ UNCHANGED <<ownerVars, stamp, log, backlog, traffic, terminated>>

(* StartCapture on a reader that has not been started: START succeeds, the *)
(* flag is set and the thread starts.  On one that runs it returns true    *)
(* and changes nothing.                                                    *)
Start(h) ==
  /\ h \in open /\ call[h] = "none" /\ ~running[h] /\ ~Joinable(h) /\ ~stopped[h]
  /\ driverOn' = [driverOn EXCEPT ![h] = TRUE]
  /\ running' = [running EXCEPT ![h] = TRUE]
  /\ thread' = [thread EXCEPT ![h] = "header"]
  /\ UNCHANGED <<ownerVars, stamp, streamVars, backlog, traffic, terminated>>

(* StopCapture finds m_running already false and returns.                  *)
StopEarly(h) ==
  /\ h \in open /\ call[h] = "none" /\ ~running[h]
  /\ stopped' = [stopped EXCEPT ![h] = TRUE]
  /\ UNCHANGED <<open, call, threadVars, streamVars, driverVars, terminated>>

(* StopCapture's exchange finds m_running true.                            *)
StopBegin(h) ==
  /\ h \in open /\ call[h] = "none" /\ running[h]
  /\ running' = [running EXCEPT ![h] = FALSE]
  /\ call' = [call EXCEPT ![h] = "ioctl"]
  /\ UNCHANGED <<open, stopped, thread, stamp, streamVars, driverVars, terminated>>

(* The STOP ioctl; its failure is ignored.  The handle is opened for       *)
(* synchronous I/O, so that Windows may keep the ioctl waiting while a     *)
(* read is pending: Stopping does not ask that it be done then.            *)
StopIoctl(h) ==
  /\ call[h] = "ioctl"
  /\ \E ok \in BOOLEAN : driverOn' = [driverOn EXCEPT ![h] = ~ok]
  /\ call' = [call EXCEPT ![h] = "cancel"]
  /\ UNCHANGED <<open, stopped, threadVars, streamVars, backlog, traffic, terminated>>

(* CancelIoEx: the read that is pending now fails; a later one does not.   *)
StopCancel(h) ==
  /\ call[h] = "cancel"
  /\ thread' = [thread EXCEPT ![h] = IF @ \in Blocked THEN "exit" ELSE @]
  /\ call' = [call EXCEPT ![h] = "join"]
  /\ UNCHANGED <<open, stopped, running, stamp, streamVars, driverVars, terminated>>

(* Faulty variant: StopCapture returns without waiting for the thread.             *)
StopDetach(h) ==
  /\ call[h] = "join"
  /\ call' = [call EXCEPT ![h] = "none"]
  /\ stopped' = [stopped EXCEPT ![h] = TRUE]
  /\ UNCHANGED <<open, threadVars, streamVars, driverVars, terminated>>

(* The thread is joined; StopCapture returns.                              *)
StopJoin(h) ==
  /\ call[h] = "join"
  /\ Advance(h, "ended", "none")
  /\ call' = [call EXCEPT ![h] = "none"]
  /\ stopped' = [stopped EXCEPT ![h] = TRUE]
  /\ UNCHANGED <<open, running, stamp, streamVars, driverVars, terminated>>

StopStep(h) == StopBegin(h) \/ StopIoctl(h) \/ StopCancel(h) \/ StopJoin(h)

(* The destructor, after the StopCapture it calls first has returned (the  *)
(* steps above): closing the handle ends the driver's capture, and         *)
(* destroying a joinable std::thread calls std::terminate.                 *)
Destroy(h) ==
  /\ h \in open /\ call[h] = "none" /\ ~running[h]
  /\ IF Joinable(h)
     THEN /\ terminated' = TRUE
          /\ UNCHANGED <<ownerVars, threadVars, streamVars, driverVars>>
     ELSE /\ open' = open \ {h}
          /\ driverOn' = [driverOn EXCEPT ![h] = FALSE]
          /\ backlog' = [backlog EXCEPT ![h] = 0]
          /\ UNCHANGED <<call, stopped, threadVars, streamVars, traffic, terminated>>

OwnerStep(h) == Open(h) \/ Start(h) \/ StopEarly(h) \/ StopStep(h) \/ Destroy(h)

-----------------------------------------------------------------------------
ReaderNext ==
  /\ ~terminated
  /\ \/ NewMultiReader
     \/ \E h \in Hubs : OwnerStep(h) \/ ThreadStep(h) \/ Arrive(h)

ReaderSpec == ReaderInit /\ [][ReaderNext]_readerVars

(* The scheduler runs every thread that can run, ReadFile returns when     *)
(* there is data, and an owner inside StopCapture goes on.  Nothing makes  *)
(* packets arrive, the device fail, or an owner call.                      *)
Running(h) == ~terminated /\ (IssueRead(h) \/ Check(h) \/ PacketRead(h) \/ Stamp(h)
                              \/ Deliver(h) \/ Exit(h))
Stopping(h) == ~terminated /\ \/ StopIoctl(h) /\ thread[h] \notin Blocked
                              \/ StopCancel(h) \/ StopJoin(h)

ReaderFairness ==
  \A h \in Hubs : WF_readerVars(Running(h)) /\ WF_readerVars(Stopping(h))

FairReaderSpec == ReaderSpec /\ ReaderFairness

-----------------------------------------------------------------------------
(* Every variable keeps its type.                                          *)
ReaderTypeOK ==
  /\ open \subseteq Hubs
  /\ running \in [Hubs -> BOOLEAN]
  /\ thread \in [Hubs -> Alive \cup {"none", "ended"}]
  /\ call \in [Hubs -> {"none", "ioctl", "cancel", "join"}]
  /\ stopped \in [Hubs -> BOOLEAN]
  /\ stamp \in [Hubs -> Nat]
  /\ seqCounter \in Nat
  /\ log \in Seq([hub : Hubs, seq : Nat])
  /\ driverOn \in [Hubs -> BOOLEAN]
  /\ backlog \in [Hubs -> Nat]
  /\ traffic \in Nat
  /\ terminated \in BOOLEAN

(* Once StopCapture has returned, by either path, the read thread can do   *)
(* nothing more: no callback runs after the owner was told the capture     *)
(* stopped.                                                                *)
QuietAfterStop ==
  \A h \in Hubs : h \in open /\ stopped[h] => thread[h] \in {"none", "ended"}

(* The events of one capture carry different sequence numbers, and those   *)
(* of one hub are delivered in the order of their numbers.                 *)
StreamOrder ==
  \A i, j \in DOMAIN log : i < j =>
    /\ log[i].seq # log[j].seq
    /\ log[i].hub = log[j].hub => log[i].seq < log[j].seq

(* Every number taken from the counter reaches the callback: it is in the   *)
(* log, or its thread is about to deliver it.  A stop never drops a packet *)
(* that was already numbered.                                              *)
EveryNumberDelivered ==
  \A n \in 0..(seqCounter - 1) :
    \/ \E i \in DOMAIN log : log[i].seq = n
    \/ \E h \in Hubs : thread[h] = "deliver" /\ stamp[h] = n

(* A StopCapture that waits in join for a thread that is not (about to be) *)
(* inside ReadFile returns.                                                *)
StopCompletes ==
  \A h \in Hubs :
    (call[h] = "join" /\ thread[h] \in {"check", "stamp", "deliver", "exit", "ended"})
      ~> (call[h] = "none" \/ terminated)

(* usbpcap_reader.h:75: "StopCapture() cancels I/O and joins thread."      *)
JoinedAfterStop == \A h \in Hubs : h \in open /\ stopped[h] => ~Joinable(h)

(* usbpcap_reader.cpp:392: "Cancel any pending I/O on the handle - will    *)
(* unblock ReadFile", so the join that follows ends.                       *)
StopReturns ==
  \A h \in Hubs : (call[h] = "join") ~> (call[h] = "none" \/ terminated)
=============================================================================
