----------------------------- MODULE IrpPairing -----------------------------
(***************************************************************************)
(* The request/completion pairing one hub's read loop performs             *)
(* (UsbPcapReader::ReadLoop with its IrpPairingTable).                     *)
(*                                                                         *)
(* USBPcap reports every transfer twice, as a request (DOWN) and as a      *)
(* completion (UP) that carry the same IRP pointer.  The loop keeps the    *)
(* requests it has seen in a map keyed by that pointer, takes the request  *)
(* out again when the completion arrives to compute the latency, and       *)
(* sweeps requests that were never answered.  An IRP pointer is reused by  *)
(* the kernel, and packet timestamps come from the wall clock, which may   *)
(* be set backwards: neither is excluded here.                             *)
(*                                                                         *)
(* One step is one packet, from ReadNextPacket's success to the callback.  *)
(***************************************************************************)
EXTENDS Integers

CONSTANTS
  Irps,           (* The IRP pointers the packets carry.                    *)
  Times,          (* The packet timestamps, in ticks of the model.          *)
  MaxAge,         (* Expire's maxAgeUsec: 5s in the code.                   *)
  ExpireInterval, (* EXPIRE_INTERVAL_US: 1s in the code.                    *)
  U64,            (* The number of values of the 64-bit timestamps.         *)
  U32,            (* The number of values of the 32-bit Duration field.     *)
  MaxPackets,     (* Bound on the number of packets read.                   *)
  NoEntry         (* The map has no entry for an IRP.                       *)

(* A timestamp is seconds * 10^6 + microseconds with 32-bit fields, so it  *)
(* stays far below 2^64; five seconds fit the 32-bit Duration.             *)
ASSUME PairingAssumption ==
  /\ Times \subseteq Nat
  /\ MaxAge \in Nat
  /\ ExpireInterval \in Nat
  /\ U64 \in Nat
  /\ \A t \in Times : t + ExpireInterval < U64
  /\ U32 \in Nat
  /\ MaxAge < U32
  /\ MaxPackets \in Nat

Down == "down"  \* BHPLUS_DIR_DOWN, a request
Up   == "up"    \* BHPLUS_DIR_UP, a completion

PendingEntry == [timestamp : Nat, sequenceNum : Nat]

(* An entry of the history: a request and the latest timestamp since it.   *)
OpenEntry == [timestamp : Nat, sequenceNum : Nat, peak : Nat]

ASSUME NoEntryAssumption == NoEntry \notin PendingEntry \cup OpenEntry

VARIABLES
  table,       (* m_irpTable: IRP -> PendingEntry, or NoEntry               *)
  lastExpire,  (* the read loop's lastExpire                                *)
  seq,         (* the next sequence number                                  *)
  event,       (* the event the last step passed to the callback            *)
  open         (* history: the unanswered request of each IRP, with the     *)
               (* latest timestamp read since it (peak)                     *)

vars == <<table, lastExpire, seq, event, open>>

Larger(a, b) == IF a >= b THEN a ELSE b

(***************************************************************************)
(* IrpPairingTable.                                                        *)
(***************************************************************************)

(* Faulty variant: emplace, which keeps the entry that is there.                   *)
InsertIfAbsent(t, irp, entry) ==
  IF t[irp] = NoEntry THEN [t EXCEPT ![irp] = entry] ELSE t

Insert(t, irp, entry) == [t EXCEPT ![irp] = entry]

(* Faulty variant: find without erase.                                             *)
ConsumeKeeps(t, irp) == t

Consume(t, irp) == [t EXCEPT ![irp] = NoEntry]

(* Faulty variant: the age limit is taken one tick early.                          *)
TooOldAtLimit(entry, now) ==
  /\ now > entry.timestamp
  /\ now - entry.timestamp >= MaxAge

TooOld(entry, now) ==
  /\ now > entry.timestamp
  /\ now - entry.timestamp > MaxAge

Expire(t, now) ==
  [irp \in Irps |->
     IF t[irp] # NoEntry /\ TooOld(t[irp], now) THEN NoEntry ELSE t[irp]]

(***************************************************************************)
(* Arithmetic of the read loop.                                            *)
(***************************************************************************)

(* Faulty variant: the difference is taken on signed integers.                     *)
SinceExpireSigned(now) == now - lastExpire

(* now - lastExpire on uint64_t: it wraps when the clock was set back.      *)
SinceExpire(now) ==
  IF now >= lastExpire THEN now - lastExpire ELSE now - lastExpire + U64

ExpiryDue(now) == SinceExpire(now) > ExpireInterval

(* Faulty variant: no clamp for a completion stamped before its request.           *)
LatencySigned(entry, now) == now - entry.timestamp

(* The latency of a paired completion, stored in a UINT32.                 *)
Latency(entry, now) ==
  IF now > entry.timestamp THEN (now - entry.timestamp) % U32 ELSE 0

(* The table after the pairing part of the loop, before the sweep.         *)
Paired(irp, dir, now) ==
  IF dir = Down
  THEN Insert(table, irp, [timestamp |-> now, sequenceNum |-> seq])
  ELSE Consume(table, irp)

(* RecordToEvent zeroes Duration; only a paired completion sets it.        *)
Duration(irp, dir, now) ==
  IF dir = Up /\ table[irp] # NoEntry THEN Latency(table[irp], now) ELSE 0

(* History: what a reference that never forgets a request would know.      *)
Track(irp, dir, now) ==
  [i \in Irps |->
     IF i = irp
     THEN IF dir = Down
          THEN [timestamp |-> now, sequenceNum |-> seq, peak |-> now]
          ELSE NoEntry
     ELSE IF open[i] = NoEntry
          THEN NoEntry
          ELSE [open[i] EXCEPT !.peak = Larger(open[i].peak, now)]]

Init ==
  /\ table = [irp \in Irps |-> NoEntry]
  /\ lastExpire = 0
  /\ seq = 0
  /\ event = [irp |-> NoEntry, dir |-> Down, timestamp |-> 0, duration |-> 0]
  /\ open = [irp \in Irps |-> NoEntry]

(* One packet of the read loop: stamp, pair, sweep when due, deliver.      *)
Packet(irp, dir, now) ==
  /\ seq < MaxPackets
  /\ seq' = seq + 1
  /\ event' = [irp |-> irp, dir |-> dir, timestamp |-> now,
               duration |-> Duration(irp, dir, now)]
  /\ \/ /\ ExpiryDue(now)
        /\ table' = Expire(Paired(irp, dir, now), now)
        /\ lastExpire' = now
     \/ /\ ~ExpiryDue(now)
        /\ table' = Paired(irp, dir, now)
        /\ UNCHANGED lastExpire
  /\ open' = Track(irp, dir, now)

Next == \E irp \in Irps, dir \in {Down, Up}, now \in Times : Packet(irp, dir, now)

Spec == Init /\ [][Next]_vars

-----------------------------------------------------------------------------
(* Every variable keeps its type.                                          *)
TypeOK ==
  /\ table \in [Irps -> PendingEntry \cup {NoEntry}]
  /\ lastExpire \in Nat
  /\ seq \in Nat
  /\ event \in [irp : Irps \cup {NoEntry}, dir : {Down, Up}, timestamp : Nat,
                duration : Nat]
  /\ open \in [Irps -> OpenEntry \cup {NoEntry}]

(* The request the table offers to a completion is the last one read for   *)
(* that IRP and no completion has taken it: reuse of an IRP pointer never  *)
(* resurrects the earlier request, and no request is paired twice.         *)
OffersLatestRequest ==
  \A irp \in Irps : table[irp] # NoEntry =>
    /\ open[irp] # NoEntry
    /\ open[irp].timestamp = table[irp].timestamp
    /\ open[irp].sequenceNum = table[irp].sequenceNum

(* A request that is waiting for its completion is forgotten only when a   *)
(* packet more than MaxAge younger has been read.                          *)
NoEarlyExpiry ==
  \A irp \in Irps : open[irp] # NoEntry /\ table[irp] = NoEntry =>
    open[irp].peak - open[irp].timestamp > MaxAge

(* After every packet, a pending request is at most MaxAge plus one sweep  *)
(* interval older than that packet, even if the clock was set back: the    *)
(* unsigned difference then wraps and forces a sweep.  This is what bounds *)
(* the table.                                                              *)
StaleBound ==
  \A irp \in Irps : table[irp] # NoEntry =>
    event.timestamp - table[irp].timestamp <= MaxAge + ExpireInterval

(* A completion read within MaxAge of its request is delivered with the    *)
(* exact latency, whatever other packets were read in between.             *)
FreshCompletion(irp) ==
  /\ event'.irp = irp
  /\ event'.dir = Up
  /\ open[irp] # NoEntry
  /\ Larger(open[irp].peak, event'.timestamp) - open[irp].timestamp <= MaxAge

FreshCompletionTimed ==
  [][\A irp \in Irps : (seq' # seq /\ FreshCompletion(irp)) =>
       event'.duration = Larger(event'.timestamp - open[irp].timestamp, 0)]_vars

(* bhplus_types.h calls Duration the request/response latency in           *)
(* microseconds: whenever it is not zero it should be that latency.        *)
DurationIsLatency ==
  [][\A irp \in Irps :
       (seq' # seq /\ event'.irp = irp /\ event'.duration # 0) =>
         event'.duration = event'.timestamp - open[irp].timestamp]_vars
=============================================================================
