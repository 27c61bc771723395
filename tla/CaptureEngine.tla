--------------------------- MODULE CaptureEngine ----------------------------
(***************************************************************************)
(* CaptureEngine over UsbPcapMultiReader: StartCapture, StopCapture,       *)
(* EnumerateDevices and the destructor walk the hub readers one by one and *)
(* call the reader operations of UsbPcapReader, while the read threads run *)
(* and count events in m_stats before they hand them to the callback.      *)
(*                                                                         *)
(* One controller calls the engine: the engine has no lock of its own, and *)
(* this module does not cover two pipe clients calling it at once.         *)
(***************************************************************************)
EXTENDS UsbPcapReader

(* Hubs are numbered, and visited in that order.                           *)
ASSUME HubsAssumption == Hubs \subseteq Nat

VARIABLES
  reader,   (* m_reader is not null                                         *)
  op,       (* the controller's position in the engine                      *)
  purpose,  (* the engine method the controller is in                       *)
  todo,     (* the hubs its current loop over m_readers has yet to visit    *)
  config,   (* the hubs the configuration selects and that can be opened    *)
  allOk,    (* allOk of UsbPcapMultiReader::StartCapture                    *)
  active,   (* history: from the start of the hubs until a stop returned    *)
  total,    (* m_stats.TotalEventsCaptured                                  *)
  cb,       (* position of each read thread in the engine's callback        *)
  loaded    (* the value of total a read thread has loaded                  *)

controlVars == <<reader, op, purpose, todo, config, allOk, active>>
statsVars   == <<total, cb, loaded>>
engineVars  == <<readerVars, controlVars, statsVars>>

EngineInit ==
  /\ ReaderInit
  /\ reader = FALSE
  /\ op = "idle"
  /\ purpose = "none"
  /\ todo = {}
  /\ config = {}
  /\ allOk = TRUE
  /\ active = FALSE
  /\ total = 0
  /\ cb = [h \in Hubs |-> "load"]
  /\ loaded = [h \in Hubs |-> 0]

(* The loops over m_readers go by hub index.                               *)
IsNext(h) == h \in todo /\ \A g \in todo : h <= g

Visited(h) == todo' = todo \ {h}

-----------------------------------------------------------------------------
(* Calls.                                                                  *)

(* StartCapture: CloseDriver first, then OpenDriver with the new config.   *)
CallStart(hubs) ==
  /\ op = "idle"
  /\ purpose' = "start"
  /\ config' = hubs
  /\ op' = IF reader THEN "closing" ELSE "opening"
  /\ todo' = open
  /\ UNCHANGED <<readerVars, reader, allOk, active, statsVars>>

CallStop ==
  /\ op = "idle" /\ reader
  /\ purpose' = "stop"
  /\ op' = "stopping"
  /\ todo' = open
  /\ UNCHANGED <<readerVars, reader, config, allOk, active, statsVars>>

(* EnumerateDevices opens the hubs, without starting them, when no reader  *)
(* exists; otherwise it only reads.                                        *)
CallEnumerate(hubs) ==
  /\ op = "idle" /\ ~reader
  /\ purpose' = "enumerate"
  /\ config' = hubs
  /\ op' = "opening"
  /\ UNCHANGED <<readerVars, reader, todo, allOk, active, statsVars>>

(* The destructor: StopCapture, then CloseDriver.                          *)
CallDestroy ==
  /\ op = "idle"
  /\ purpose' = "destroy"
  /\ op' = IF reader THEN "stopping" ELSE "gone"
  /\ todo' = open
  /\ UNCHANGED <<readerVars, reader, config, allOk, active, statsVars>>

-----------------------------------------------------------------------------
(* UsbPcapMultiReader::StopCapture, as called by StopCapture and by Close. *)

(* Faulty variant: the loop ends after its first reader.                            *)
StopFirstOnly(h) ==
  /\ op \in {"stopping", "closing"} /\ IsNext(h)
  /\ \/ (StopBegin(h) \/ StopIoctl(h) \/ StopCancel(h)) /\ UNCHANGED todo
     \/ (StopEarly(h) \/ StopJoin(h)) /\ todo' = {}
  /\ UNCHANGED <<reader, op, purpose, config, allOk, active, statsVars>>

StopNext(h) ==
  /\ op \in {"stopping", "closing"} /\ IsNext(h)
  /\ \/ (StopBegin(h) \/ StopIoctl(h) \/ StopCancel(h)) /\ UNCHANGED todo
     \/ (StopEarly(h) \/ StopJoin(h)) /\ Visited(h)
  /\ UNCHANGED <<reader, op, purpose, config, allOk, active, statsVars>>

(* The stop loop is done: StopCapture returns, or CloseDriver goes on.     *)
StopDone ==
  /\ op \in {"stopping", "closing"} /\ todo = {}
  /\ active' = FALSE
  /\ todo' = open
  /\ op' = CASE op = "closing"                           -> "clearing"
             [] op = "stopping" /\ purpose = "destroy"   -> "closing"
             [] OTHER                                    -> "idle"
  /\ UNCHANGED <<readerVars, reader, purpose, config, allOk, statsVars>>

(* m_readers.clear(): the readers are destroyed.                           *)
ClearNext(h) ==
  /\ op = "clearing" /\ IsNext(h)
  /\ Destroy(h)
  /\ Visited(h)
  /\ UNCHANGED <<reader, op, purpose, config, allOk, active, statsVars>>

ClearDone ==
  /\ op = "clearing" /\ todo = {}
  /\ reader' = FALSE
  /\ op' = IF purpose = "destroy" THEN "gone" ELSE "opening"
  /\ UNCHANGED <<readerVars, purpose, todo, config, allOk, active, statsVars>>

-----------------------------------------------------------------------------
(* OpenDriver.                                                             *)

OpenFails ==
  /\ op = "opening" /\ config = {}
  /\ op' = "idle"
  /\ UNCHANGED <<readerVars, reader, purpose, todo, config, allOk, active, statsVars>>

OpenBegin ==
  /\ op = "opening" /\ config # {}
  /\ NewMultiReader
  /\ reader' = TRUE
  /\ todo' = config
  /\ op' = "openingHubs"
  /\ UNCHANGED <<purpose, config, allOk, active, statsVars>>

OpenNext(h) ==
  /\ op = "openingHubs" /\ IsNext(h)
  /\ Open(h)
  /\ Visited(h)
  /\ UNCHANGED <<reader, op, purpose, config, allOk, active, statsVars>>

(* Faulty variant: the statistics of the last capture are kept.                    *)
OpenDoneKeepStats ==
  /\ op = "openingHubs" /\ todo = {}
  /\ IF purpose = "start"
     THEN op' = "starting" /\ todo' = open /\ allOk' = TRUE /\ active' = TRUE
     ELSE op' = "idle" /\ UNCHANGED <<todo, allOk, active>>
  /\ UNCHANGED <<readerVars, reader, purpose, config, statsVars>>

(* EnumerateDevices returns; StartCapture clears the statistics and starts *)
(* the hubs (no hub of a new multi reader is capturing yet).               *)
OpenDone ==
  /\ op = "openingHubs" /\ todo = {}
  /\ IF purpose = "start"
     THEN /\ op' = "starting"
          /\ total' = 0
          /\ todo' = open
          /\ allOk' = TRUE
          /\ active' = TRUE
     ELSE /\ op' = "idle"
          /\ UNCHANGED <<total, todo, allOk, active>>
  /\ UNCHANGED <<readerVars, reader, purpose, config, cb, loaded>>

-----------------------------------------------------------------------------
(* UsbPcapMultiReader::StartCapture: a hub whose START is refused does not *)
(* stop the others.                                                        *)

StartNext(h) ==
  /\ op = "starting" /\ IsNext(h)
  /\ Start(h)
  /\ Visited(h)
  /\ UNCHANGED <<reader, op, purpose, config, allOk, active, statsVars>>

(* Faulty variant: a refused hub is only logged.                                   *)
StartRefusedSilently(h) ==
  /\ op = "starting" /\ IsNext(h)
  /\ Visited(h)
  /\ UNCHANGED <<readerVars, reader, op, purpose, config, allOk, active, statsVars>>

StartRefused(h) ==
  /\ op = "starting" /\ IsNext(h)
  /\ allOk' = FALSE
  /\ Visited(h)
  /\ UNCHANGED <<readerVars, reader, op, purpose, config, active, statsVars>>

(* StartCapture returns allOk.                                             *)
StartDone ==
  /\ op = "starting" /\ todo = {}
  /\ op' = "idle"
  /\ UNCHANGED <<readerVars, reader, purpose, todo, config, allOk, active, statsVars>>

-----------------------------------------------------------------------------
(* The engine's callback on a read thread: m_stats.TotalEventsCaptured++   *)
(* is a load and a store without a lock, then the event is handed on.      *)

Load(h) ==
  /\ thread[h] = "deliver" /\ cb[h] = "load"
  /\ loaded' = [loaded EXCEPT ![h] = total]
  /\ cb' = [cb EXCEPT ![h] = "store"]
  /\ UNCHANGED <<readerVars, controlVars, total>>

(* Faulty variant: the counter is moved the wrong way.                             *)
StoreDown(h) ==
  /\ cb[h] = "store"
  /\ total' = loaded[h] - 1
  /\ cb' = [cb EXCEPT ![h] = "emit"]
  /\ UNCHANGED <<readerVars, controlVars, loaded>>

Store(h) ==
  /\ cb[h] = "store"
  /\ total' = loaded[h] + 1
  /\ cb' = [cb EXCEPT ![h] = "emit"]
  /\ UNCHANGED <<readerVars, controlVars, loaded>>

Emit(h) ==
  /\ cb[h] = "emit"
  /\ Deliver(h)
  /\ cb' = [cb EXCEPT ![h] = "load"]
  /\ UNCHANGED <<controlVars, total, loaded>>

(* The steps of ReadLoop outside the callback, and the driver.             *)
LoopStep(h) ==
  /\ \/ IssueRead(h) \/ HeaderRead(h) \/ ReadFails(h) \/ Check(h)
     \/ PacketRead(h) \/ Stamp(h) \/ Exit(h) \/ Arrive(h)
  /\ UNCHANGED <<controlVars, statsVars>>

Controller ==
  \/ \E hubs \in SUBSET Hubs : CallStart(hubs) \/ CallEnumerate(hubs)
  \/ CallStop \/ CallDestroy
  \/ StopDone \/ ClearDone \/ OpenFails \/ OpenBegin \/ OpenDone \/ StartDone
  \/ \E h \in Hubs : \/ StopNext(h) \/ ClearNext(h) \/ OpenNext(h)
                     \/ StartNext(h) \/ StartRefused(h)

EngineNext ==
  /\ ~terminated
  /\ \/ Controller
     \/ \E h \in Hubs : Load(h) \/ Store(h) \/ Emit(h) \/ LoopStep(h)

EngineSpec == EngineInit /\ [][EngineNext]_engineVars

(* Every read thread that can run does, and so does a controller that is   *)
(* in a stop, unless its ioctl waits for a pending read; nothing makes     *)
(* packets arrive, a read fail or a caller call.                           *)
LoopRuns(h) ==
  \/ /\ IssueRead(h) \/ Check(h) \/ PacketRead(h) \/ Stamp(h) \/ Exit(h)
     /\ UNCHANGED <<controlVars, statsVars>>
  \/ Load(h) \/ Store(h) \/ Emit(h)

IoctlWaits(h) == call[h] = "ioctl" /\ thread[h] \in Blocked

EngineFairness ==
  \A h \in Hubs : /\ WF_engineVars(~terminated /\ LoopRuns(h))
                 /\ WF_engineVars(~terminated /\ StopNext(h) /\ ~IoctlWaits(h))

FairEngineSpec == EngineSpec /\ EngineFairness

-----------------------------------------------------------------------------
(* Every variable of the engine keeps its type.                            *)
EngineTypeOK ==
  /\ ReaderTypeOK
  /\ reader \in BOOLEAN
  /\ op \in {"idle", "stopping", "closing", "clearing", "opening", "openingHubs",
             "starting", "gone"}
  /\ purpose \in {"none", "start", "stop", "enumerate", "destroy"}
  /\ todo \subseteq Hubs
  /\ config \subseteq Hubs
  /\ allOk \in BOOLEAN
  /\ active \in BOOLEAN
  /\ total \in Nat
  /\ cb \in [Hubs -> {"load", "store", "emit"}]
  /\ loaded \in [Hubs -> Nat]

(* When no capture is active, and the controller is in no engine method,   *)
(* no read thread can run the callback: neither a failed open, nor a stop, *)
(* nor an enumeration leaves a thread behind.                              *)
QuietWhenIdle ==
  (op \in {"idle", "gone"} /\ ~active) =>
    \A h \in Hubs : thread[h] \in {"none", "ended"}

(* The statistics of a capture never count more events than the capture    *)
(* has numbered, and with a single hub they count exactly the events       *)
(* delivered once the thread is outside the callback.  (With several hubs  *)
(* the unlocked increment may lose events.)                                *)
StatsSound ==
  active =>
    /\ total <= seqCounter
    /\ \A h \in Hubs : (open = {h} /\ cb[h] = "load") => total = Len(log)

(* StartCapture returns true only when every hub it selected has been      *)
(* started: a refused START of one hub is never reported as success.       *)
StartReportsAll ==
  [][(op = "starting" /\ op' = "idle" /\ allOk) =>
       /\ open = config
       /\ \A h \in config : Joinable(h)]_engineVars

(* The engine gives its callback the stream EventStream promises.          *)
Stream == INSTANCE EventStream WITH Hubs <- Hubs, active <- active, log <- log
StreamSpec == Stream!Spec
=============================================================================
