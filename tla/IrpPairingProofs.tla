-------------------------- MODULE IrpPairingProofs --------------------------
(***************************************************************************)
(* Proofs about IrpPairing, for every set of IRPs, every set of timestamps *)
(* and every age limit that fit the assumptions of the module.             *)
(***************************************************************************)
EXTENDS IrpPairing, TLAPS

(* What a sweep leaves behind, relative to the last sweep and to the last  *)
(* packet.  StaleBound alone is not inductive: the bound on the next       *)
(* packet needs to know how old an entry was when the last sweep ran.      *)
SweepInv ==
  /\ lastExpire <= event.timestamp
  /\ event.timestamp <= lastExpire + ExpireInterval
  /\ \A irp \in Irps : table[irp] # NoEntry =>
       lastExpire - table[irp].timestamp <= MaxAge

(* lastExpire is a timestamp of a packet, or 0, so it is below 2^64.       *)
ClockInv == lastExpire \in Times \cup {0}

IInv ==
  /\ TypeOK
  /\ ClockInv
  /\ SweepInv
  /\ OffersLatestRequest
  /\ NoEarlyExpiry

(* The unsigned difference is a natural number, and it reaches the sweep   *)
(* interval whenever the clock was set back: only a timestamp between      *)
(* lastExpire and lastExpire + ExpireInterval leaves the table unswept.    *)
LEMMA NotDue ==
  ASSUME ClockInv, NEW now \in Times, ~ExpiryDue(now)
  PROVE  /\ lastExpire <= now
         /\ now <= lastExpire + ExpireInterval
  BY PairingAssumption DEF ClockInv, ExpiryDue, SinceExpire

(* Pairing keeps the shape of the table.                                   *)
LEMMA PairedType ==
  ASSUME TypeOK, NEW irp \in Irps, NEW dir \in {Down, Up}, NEW now \in Times
  PROVE  Paired(irp, dir, now) \in [Irps -> PendingEntry \cup {NoEntry}]
<1>1. [timestamp |-> now, sequenceNum |-> seq] \in PendingEntry
  BY PairingAssumption DEF TypeOK, PendingEntry
<1>2. QED
  BY <1>1 DEF TypeOK, Paired, Insert, Consume

(* A sweep keeps the shape of the table and only removes entries.          *)
LEMMA ExpireType ==
  ASSUME NEW t \in [Irps -> PendingEntry \cup {NoEntry}], NEW now \in Times
  PROVE  Expire(t, now) \in [Irps -> PendingEntry \cup {NoEntry}]
  BY DEF Expire

(* The latency field is a natural number.                                  *)
LEMMA DurationType ==
  ASSUME TypeOK, NEW irp \in Irps, NEW dir \in {Down, Up}, NEW now \in Times
  PROVE  Duration(irp, dir, now) \in Nat
<1>1. CASE dir = Up /\ table[irp] # NoEntry
  <2>1. table[irp].timestamp \in Nat /\ now \in Nat
    BY <1>1, PairingAssumption DEF TypeOK, PendingEntry
  <2>2. U32 \in Nat /\ U32 > 0
    BY PairingAssumption
  <2>3. now > table[irp].timestamp => (now - table[irp].timestamp) % U32 \in Nat
    BY <2>1, <2>2
  <2>4. QED
    BY <1>1, <2>3 DEF Duration, Latency
<1>2. CASE ~(dir = Up /\ table[irp] # NoEntry)
  BY <1>2 DEF Duration
<1>3. QED
  BY <1>1, <1>2

(* The history keeps its shape.                                            *)
LEMMA TrackType ==
  ASSUME TypeOK, NEW irp \in Irps, NEW dir \in {Down, Up}, NEW now \in Times
  PROVE  Track(irp, dir, now) \in [Irps -> OpenEntry \cup {NoEntry}]
<1> SUFFICES ASSUME NEW i \in Irps
             PROVE  Track(irp, dir, now)[i] \in OpenEntry \cup {NoEntry}
  BY DEF Track
<1>1. now \in Nat /\ seq \in Nat
  BY PairingAssumption DEF TypeOK
<1>2. CASE i = irp
  BY <1>1, <1>2 DEF Track, OpenEntry
<1>3. CASE i # irp /\ open[i] = NoEntry
  BY <1>3 DEF Track
<1>4. CASE i # irp /\ open[i] # NoEntry
  <2>1. open[i] \in OpenEntry
    BY <1>4 DEF TypeOK
  <2>2. Larger(open[i].peak, now) \in Nat
    BY <1>1, <2>1 DEF OpenEntry, Larger
  <2>3. [open[i] EXCEPT !.peak = Larger(open[i].peak, now)] \in OpenEntry
    BY <2>1, <2>2 DEF OpenEntry
  <2>4. QED
    BY <1>4, <2>3 DEF Track
<1>5. QED
  BY <1>2, <1>3, <1>4

LEMMA InitIInv == Init => IInv
<1> SUFFICES ASSUME Init PROVE IInv
  OBVIOUS
<1>1. TypeOK
  BY DEF Init, TypeOK
<1>2. ClockInv /\ SweepInv
  BY PairingAssumption DEF Init, ClockInv, SweepInv
<1>3. OffersLatestRequest /\ NoEarlyExpiry
  BY DEF Init, OffersLatestRequest, NoEarlyExpiry
<1>4. QED
  BY <1>1, <1>2, <1>3 DEF IInv

(* Every step keeps the types.                                             *)
LEMMA PacketType ==
  ASSUME TypeOK, NEW irp \in Irps, NEW dir \in {Down, Up}, NEW now \in Times,
         Packet(irp, dir, now)
  PROVE  TypeOK'
<1>1. now \in Nat
  BY PairingAssumption
<1>2. table' \in [Irps -> PendingEntry \cup {NoEntry}]
  BY PairedType, ExpireType DEF Packet
<1>3. lastExpire' \in Nat
  BY <1>1 DEF Packet, TypeOK
<1>4. seq' \in Nat
  BY DEF Packet, TypeOK
<1>5. event' \in [irp : Irps \cup {NoEntry}, dir : {Down, Up}, timestamp : Nat,
                  duration : Nat]
  BY <1>1, DurationType DEF Packet
<1>6. open' \in [Irps -> OpenEntry \cup {NoEntry}]
  BY TrackType DEF Packet
<1>7. QED
  BY <1>2, <1>3, <1>4, <1>5, <1>6 DEF TypeOK

(* lastExpire stays the timestamp of a packet.                             *)
LEMMA PacketClock ==
  ASSUME ClockInv, NEW irp \in Irps, NEW dir \in {Down, Up}, NEW now \in Times,
         Packet(irp, dir, now)
  PROVE  ClockInv'
  BY DEF Packet, ClockInv

(* After a packet, lastExpire is within one interval below its timestamp   *)
(* and no entry was older than MaxAge when the last sweep ran: an entry    *)
(* written since then is not older than that sweep.                        *)
LEMMA PacketSweep ==
  ASSUME TypeOK, ClockInv, SweepInv,
         NEW irp \in Irps, NEW dir \in {Down, Up}, NEW now \in Times,
         Packet(irp, dir, now)
  PROVE  SweepInv'
<1>1. event'.timestamp = now /\ now \in Nat /\ ExpireInterval \in Nat /\ MaxAge \in Nat
  BY PairingAssumption DEF Packet
<1>2. Paired(irp, dir, now) \in [Irps -> PendingEntry \cup {NoEntry}]
  BY PairedType
<1>3. CASE ExpiryDue(now)
  <2>1. lastExpire' = now /\ table' = Expire(Paired(irp, dir, now), now)
    BY <1>3 DEF Packet
  <2>2. ASSUME NEW i \in Irps, table'[i] # NoEntry
        PROVE  now - table'[i].timestamp <= MaxAge
    <3>1. /\ table'[i] = Paired(irp, dir, now)[i]
          /\ ~TooOld(table'[i], now)
      BY <2>1, <2>2 DEF Expire
    <3>2. table'[i].timestamp \in Nat
      BY <1>2, <2>2, <3>1 DEF PendingEntry
    <3>3. QED
      BY <1>1, <3>1, <3>2 DEF TooOld
  <2>3. QED
    BY <1>1, <2>1, <2>2 DEF SweepInv
<1>4. CASE ~ExpiryDue(now)
  <2>1. lastExpire' = lastExpire /\ table' = Paired(irp, dir, now)
    BY <1>4 DEF Packet
  <2>2. lastExpire <= now /\ now <= lastExpire + ExpireInterval
    BY <1>4, NotDue
  <2>3. ASSUME NEW i \in Irps, table'[i] # NoEntry
        PROVE  lastExpire - table'[i].timestamp <= MaxAge
    <3>1. CASE i = irp
      <4>1. table'[i].timestamp = now
        BY <2>1, <2>3, <3>1 DEF Paired, Insert, Consume, TypeOK
      <4>2. QED
        BY <1>1, <2>2, <4>1 DEF TypeOK
    <3>2. CASE i # irp
      <4>1. table'[i] = table[i]
        BY <2>1, <3>2 DEF Paired, Insert, Consume, TypeOK
      <4>2. QED
        BY <2>3, <4>1 DEF SweepInv
    <3>3. QED
      BY <3>1, <3>2
  <2>4. QED
    BY <1>1, <2>1, <2>2, <2>3 DEF SweepInv
<1>5. QED
  BY <1>3, <1>4

(* The table only ever holds what pairing put there.                       *)
LEMMA SweepRemovesOnly ==
  ASSUME TypeOK, NEW irp \in Irps, NEW dir \in {Down, Up}, NEW now \in Times,
         Packet(irp, dir, now), NEW i \in Irps
  PROVE  \/ table'[i] = Paired(irp, dir, now)[i]
         \/ /\ table'[i] = NoEntry
            /\ TooOld(Paired(irp, dir, now)[i], now)
  BY DEF Packet, Expire

(* Pairing, entry by entry.                                                *)
LEMMA PairedValue ==
  ASSUME TypeOK, NEW irp \in Irps, NEW dir \in {Down, Up}, NEW now \in Times,
         NEW i \in Irps
  PROVE  /\ i # irp => Paired(irp, dir, now)[i] = table[i]
         /\ i = irp /\ dir = Down =>
              Paired(irp, dir, now)[i] = [timestamp |-> now, sequenceNum |-> seq]
         /\ i = irp /\ dir = Up => Paired(irp, dir, now)[i] = NoEntry
<1>1. DOMAIN table = Irps
  BY DEF TypeOK
<1>2. Down # Up
  BY DEF Down, Up
<1>3. CASE dir = Down
  BY <1>1, <1>2, <1>3 DEF Paired, Insert, TypeOK
<1>4. CASE dir = Up
  BY <1>1, <1>2, <1>4 DEF Paired, Consume, TypeOK
<1>5. QED
  BY <1>3, <1>4

LEMMA PacketOffers ==
  ASSUME TypeOK, OffersLatestRequest,
         NEW irp \in Irps, NEW dir \in {Down, Up}, NEW now \in Times,
         Packet(irp, dir, now)
  PROVE  OffersLatestRequest'
<1> SUFFICES ASSUME NEW i \in Irps, table'[i] # NoEntry
             PROVE  /\ open'[i] # NoEntry
                    /\ open'[i].timestamp = table'[i].timestamp
                    /\ open'[i].sequenceNum = table'[i].sequenceNum
  BY DEF OffersLatestRequest
<1>1. table'[i] = Paired(irp, dir, now)[i]
  BY SweepRemovesOnly
<1>2. table'[i] \in PendingEntry /\ now \in Nat /\ seq \in Nat
  BY PacketType, PairingAssumption DEF TypeOK
<1>3. CASE i = irp
  <2>1. dir = Down /\ table'[i] = [timestamp |-> now, sequenceNum |-> seq]
    BY <1>1, <1>3, PairedValue
  <2>2. open'[i] = [timestamp |-> now, sequenceNum |-> seq, peak |-> now]
    BY <1>3, <2>1 DEF Packet, Track
  <2>3. open'[i] \in OpenEntry
    BY <1>2, <2>2 DEF OpenEntry
  <2>4. QED
    BY <2>1, <2>2, <2>3, NoEntryAssumption
<1>4. CASE i # irp
  <2>1. table[i] = table'[i]
    BY <1>1, <1>4, PairedValue
  <2>2. /\ open[i] # NoEntry
        /\ open[i].timestamp = table'[i].timestamp
        /\ open[i].sequenceNum = table'[i].sequenceNum
    BY <2>1 DEF OffersLatestRequest
  <2>3. /\ open[i] \in OpenEntry
        /\ open'[i] = [open[i] EXCEPT !.peak = Larger(open[i].peak, now)]
    BY <1>4, <2>2 DEF TypeOK, Packet, Track
  <2>4. /\ open'[i].timestamp = open[i].timestamp
        /\ open'[i].sequenceNum = open[i].sequenceNum
        /\ open'[i] \in OpenEntry
    BY <2>3, <1>2 DEF OpenEntry, Larger
  <2>5. QED
    BY <2>2, <2>4, NoEntryAssumption
<1>5. QED
  BY <1>3, <1>4

LEMMA PacketNoEarlyExpiry ==
  ASSUME TypeOK, OffersLatestRequest, NoEarlyExpiry,
         NEW irp \in Irps, NEW dir \in {Down, Up}, NEW now \in Times,
         Packet(irp, dir, now)
  PROVE  NoEarlyExpiry'
<1> SUFFICES ASSUME NEW i \in Irps, open'[i] # NoEntry, table'[i] = NoEntry
             PROVE  open'[i].peak - open'[i].timestamp > MaxAge
  BY DEF NoEarlyExpiry
<1>1. now \in Nat /\ seq \in Nat /\ MaxAge \in Nat
  BY PairingAssumption DEF TypeOK
<1>2. CASE i = irp
  <2>1. dir = Down
    BY <1>2 DEF Packet, Track
  <2>2. Paired(irp, dir, now)[i] = [timestamp |-> now, sequenceNum |-> seq]
    BY <1>2, <2>1, PairedValue
  <2>3. Paired(irp, dir, now)[i] # NoEntry
    BY <1>1, <2>2, NoEntryAssumption DEF PendingEntry
  <2>4. TooOld(Paired(irp, dir, now)[i], now)
    BY <2>3, SweepRemovesOnly
  <2>5. QED
    BY <1>1, <2>2, <2>4 DEF TooOld
<1>3. CASE i # irp
  <2>1. /\ open[i] \in OpenEntry
        /\ open'[i] = [open[i] EXCEPT !.peak = Larger(open[i].peak, now)]
    BY <1>3 DEF TypeOK, Packet, Track
  <2>2. /\ open'[i].timestamp = open[i].timestamp
        /\ open'[i].peak >= now
        /\ open'[i].peak >= open[i].peak
        /\ open'[i].peak \in Nat /\ open[i].peak \in Nat /\ open[i].timestamp \in Nat
    BY <1>1, <2>1 DEF OpenEntry, Larger
  <2>3. CASE table[i] = NoEntry
    <3>1. open[i].peak - open[i].timestamp > MaxAge
      BY <2>1, <2>3, NoEntryAssumption DEF NoEarlyExpiry
    <3>2. QED
      BY <1>1, <2>2, <3>1
  <2>4. CASE table[i] # NoEntry
    <3>1. TooOld(table[i], now)
      <4>1. Paired(irp, dir, now)[i] = table[i]
        BY <1>3, PairedValue
      <4>2. QED
        BY <2>4, <4>1, SweepRemovesOnly
    <3>2. open[i].timestamp = table[i].timestamp
      BY <2>4 DEF OffersLatestRequest
    <3>3. QED
      BY <1>1, <2>2, <3>1, <3>2 DEF TooOld
  <2>5. QED
    BY <2>3, <2>4
<1>4. QED
  BY <1>2, <1>3

LEMMA NextIInv == IInv /\ [Next]_vars => IInv'
<1> SUFFICES ASSUME IInv, [Next]_vars
             PROVE  IInv'
  OBVIOUS
<1>1. ASSUME NEW irp \in Irps, NEW dir \in {Down, Up}, NEW now \in Times,
             Packet(irp, dir, now)
      PROVE  IInv'
  BY <1>1, PacketType, PacketClock, PacketSweep, PacketOffers, PacketNoEarlyExpiry
     DEF IInv
<1>2. CASE UNCHANGED vars
  BY <1>2 DEF vars, IInv, TypeOK, ClockInv, SweepInv, OffersLatestRequest, NoEarlyExpiry
<1>3. QED
  BY <1>1, <1>2 DEF Next

(* The strengthened invariant holds in every reachable state.              *)
THEOREM PairingInvariant == Spec => []IInv
  BY InitIInv, NextIInv, PTL DEF Spec

(* Every variable keeps its type.                                          *)
THEOREM TypeCorrect == Spec => []TypeOK
<1>1. IInv => TypeOK
  BY DEF IInv
<1>2. QED
  BY <1>1, PairingInvariant, PTL

(* The table offers a completion only the last unanswered request.         *)
THEOREM LatestRequest == Spec => []OffersLatestRequest
<1>1. IInv => OffersLatestRequest
  BY DEF IInv
<1>2. QED
  BY <1>1, PairingInvariant, PTL

(* A waiting request is forgotten only after more than MaxAge.             *)
THEOREM FreshKept == Spec => []NoEarlyExpiry
<1>1. IInv => NoEarlyExpiry
  BY DEF IInv
<1>2. QED
  BY <1>1, PairingInvariant, PTL

(* The age of every pending request is bounded after every packet, for any *)
(* sequence of timestamps.                                                 *)
THEOREM BoundedAge == Spec => []StaleBound
<1>1. IInv => StaleBound
  <2> SUFFICES ASSUME IInv, NEW irp \in Irps, table[irp] # NoEntry
               PROVE  event.timestamp - table[irp].timestamp <= MaxAge + ExpireInterval
    BY DEF StaleBound
  <2>1. table[irp].timestamp \in Nat /\ event.timestamp \in Nat /\ lastExpire \in Nat
    BY DEF IInv, TypeOK, PendingEntry
  <2>2. /\ event.timestamp <= lastExpire + ExpireInterval
        /\ lastExpire - table[irp].timestamp <= MaxAge
    BY DEF IInv, SweepInv
  <2>3. QED
    BY <2>1, <2>2, PairingAssumption
<1>2. QED
  BY <1>1, PairingInvariant, PTL

(* A completion within MaxAge of its request carries the exact latency.    *)
THEOREM ExactLatency == Spec => FreshCompletionTimed
<1>1. ASSUME IInv, [Next]_vars, NEW irp \in Irps, seq' # seq, FreshCompletion(irp)
      PROVE  event'.duration = Larger(event'.timestamp - open[irp].timestamp, 0)
  <2>1. PICK i \in Irps, dir \in {Down, Up}, now \in Times : Packet(i, dir, now)
    BY <1>1 DEF Next, vars
  <2>2. i = irp /\ dir = Up /\ event'.timestamp = now
    BY <1>1, <2>1 DEF FreshCompletion, Packet
  <2>3. /\ open[irp] \in OpenEntry /\ now \in Nat
        /\ U32 \in Nat /\ MaxAge \in Nat /\ MaxAge < U32
    BY <1>1, PairingAssumption DEF IInv, TypeOK, FreshCompletion
  <2>4. Larger(open[irp].peak, now) - open[irp].timestamp <= MaxAge
    BY <1>1, <2>2 DEF FreshCompletion
  <2>5. /\ open[irp].peak \in Nat /\ open[irp].timestamp \in Nat
        /\ open[irp].peak - open[irp].timestamp <= MaxAge
        /\ now - open[irp].timestamp <= MaxAge
    BY <2>3, <2>4 DEF Larger, OpenEntry
  <2>6. table[irp] # NoEntry
    BY <1>1, <2>3, <2>5 DEF IInv, NoEarlyExpiry, FreshCompletion
  <2>7. table[irp].timestamp = open[irp].timestamp
    BY <1>1, <2>6 DEF IInv, OffersLatestRequest
  <2>8. event'.duration = Latency(table[irp], now)
    BY <2>1, <2>2, <2>6 DEF Packet, Duration
  <2>9. now > open[irp].timestamp =>
          (now - open[irp].timestamp) % U32 = now - open[irp].timestamp
    BY <2>3, <2>5
  <2>10. QED
    BY <2>2, <2>3, <2>5, <2>7, <2>8, <2>9 DEF Latency, Larger
<1>2. IInv /\ [Next]_vars =>
        [\A irp \in Irps : (seq' # seq /\ FreshCompletion(irp)) =>
           event'.duration = Larger(event'.timestamp - open[irp].timestamp, 0)]_vars
  BY <1>1
<1>3. QED
  BY <1>2, PairingInvariant, PTL DEF Spec, FreshCompletionTimed
=============================================================================
