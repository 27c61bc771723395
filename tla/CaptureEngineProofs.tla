------------------------- MODULE CaptureEngineProofs -------------------------
(***************************************************************************)
(* Theorems about UsbPcapReader and CaptureEngine, for every set of hubs   *)
(* and every number of packets: what StopCapture and the shared counter    *)
(* guarantee; that the engine uses its hub readers as UsbPcapReader allows *)
(* (so what holds of them holds in the engine), is quiet when no capture   *)
(* is active, starts all it says it started, and counts soundly; and that  *)
(* the events it hands to its callback are those EventStream promises.     *)
(***************************************************************************)
EXTENDS CaptureEngine, SequenceTheorems, FiniteSetTheorems, TLAPS

-----------------------------------------------------------------------------
(* The hub readers alone.                                                  *)

(* The flag, the thread, the owner's call and the reader's life agree.     *)
ControlInv ==
  \A h \in Hubs :
    /\ running[h] => thread[h] \in Alive
    /\ ~running[h] /\ call[h] = "none" => thread[h] \in {"none", "ended"}
    /\ call[h] # "none" => ~running[h] /\ thread[h] # "none"
    /\ stopped[h] => ~running[h] /\ call[h] = "none"
    /\ h \notin open => ~running[h] /\ call[h] = "none" /\ thread[h] = "none"

(* A number in the hand of a thread is used, new, and later than what its  *)
(* hub delivered; two threads never hold the same number.                  *)
HeldInv ==
  /\ \A i \in DOMAIN log : log[i].seq < seqCounter
  /\ \A h \in Hubs : thread[h] = "deliver" =>
       /\ stamp[h] < seqCounter
       /\ \A i \in DOMAIN log :
            /\ log[i].seq # stamp[h]
            /\ log[i].hub = h => log[i].seq < stamp[h]
  /\ \A g, h \in Hubs :
       (thread[g] = "deliver" /\ thread[h] = "deliver" /\ g # h) => stamp[g] # stamp[h]

RInv ==
  /\ ReaderTypeOK
  /\ ControlInv
  /\ HeldInv
  /\ StreamOrder
  /\ EveryNumberDelivered

LEMMA InitRInv == ReaderInit => RInv
<1> SUFFICES ASSUME ReaderInit PROVE RInv
  OBVIOUS
<1>1. ReaderTypeOK
  <2>1. <<>> \in Seq([hub : Hubs, seq : Nat])
    OBVIOUS
  <2>2. thread \in [Hubs -> Alive \cup {"none", "ended"}]
    BY DEF ReaderInit
  <2>3. QED
    BY <2>1, <2>2, MaxPacketsAssumption DEF ReaderInit, ReaderTypeOK
<1>2. ControlInv
  BY DEF ReaderInit, ControlInv
<1>3. HeldInv /\ StreamOrder /\ EveryNumberDelivered
  BY DEF ReaderInit, HeldInv, StreamOrder, EveryNumberDelivered
<1>4. QED
  BY <1>1, <1>2, <1>3 DEF RInv

(* The steps that neither change the stream nor put a thread into, or take *)
(* it out of, the delivery of a number.                                    *)
Silent ==
  /\ UNCHANGED <<seqCounter, log, stamp>>
  /\ \A h \in Hubs : thread'[h] = "deliver" <=> thread[h] = "deliver"

LEMMA SilentStream ==
  ASSUME HeldInv, StreamOrder, EveryNumberDelivered, Silent
  PROVE  HeldInv' /\ StreamOrder' /\ EveryNumberDelivered'
<1>1. HeldInv'
  BY DEF Silent, HeldInv
<1>2. StreamOrder'
  BY DEF Silent, StreamOrder
<1>3. EveryNumberDelivered'
  BY DEF Silent, EveryNumberDelivered
<1>4. QED
  BY <1>1, <1>2, <1>3

(* Types, action by action.                                                *)
LEMMA StepType ==
  ASSUME ReaderTypeOK, ReaderNext
  PROVE  ReaderTypeOK'
<1> USE DEF ReaderTypeOK, ownerVars, threadVars, streamVars, driverVars
<1>1. CASE NewMultiReader
  BY <1>1, MaxPacketsAssumption DEF NewMultiReader
<1>2. ASSUME NEW h \in Hubs, OwnerStep(h)
      PROVE  ReaderTypeOK'
  <2>1. CASE Open(h)
    BY <2>1 DEF Open
  <2>2. CASE Start(h)
    BY <2>2 DEF Start, Alive
  <2>3. CASE StopEarly(h)
    BY <2>3 DEF StopEarly
  <2>4. CASE StopBegin(h)
    BY <2>4 DEF StopBegin
  <2>5. CASE StopIoctl(h)
    <3>1. \E ok \in BOOLEAN : driverOn' = [driverOn EXCEPT ![h] = ~ok]
      BY <2>5 DEF StopIoctl
    <3>2. driverOn' \in [Hubs -> BOOLEAN]
      BY <3>1
    <3>3. QED
      BY <2>5, <3>2 DEF StopIoctl
  <2>6. CASE StopCancel(h)
    BY <2>6 DEF StopCancel, Alive
  <2>7. CASE StopJoin(h)
    BY <2>7 DEF StopJoin, Advance
  <2>8. CASE Destroy(h)
    <3>1. CASE Joinable(h)
      BY <2>8, <3>1 DEF Destroy
    <3>2. CASE ~Joinable(h)
      <4>1. /\ open' = open \ {h}
            /\ driverOn' = [driverOn EXCEPT ![h] = FALSE]
            /\ backlog' = [backlog EXCEPT ![h] = 0]
            /\ UNCHANGED <<call, stopped, threadVars, streamVars, traffic, terminated>>
        BY <2>8, <3>2 DEF Destroy
      <4>2. QED
        BY <4>1
    <3>3. QED
      BY <3>1, <3>2
  <2>9. QED
    BY <1>2, <2>1, <2>2, <2>3, <2>4, <2>5, <2>6, <2>7, <2>8 DEF OwnerStep, StopStep
<1>3. ASSUME NEW h \in Hubs, ThreadStep(h)
      PROVE  ReaderTypeOK'
  <2>1. CASE IssueRead(h)
    BY <2>1 DEF IssueRead, Advance, Alive
  <2>2. CASE HeaderRead(h)
    BY <2>2 DEF HeaderRead, Advance, Alive
  <2>3. CASE ReadFails(h)
    BY <2>3 DEF ReadFails, Advance, Alive
  <2>4. CASE Check(h)
    BY <2>4 DEF Check, Advance, Alive
  <2>5. CASE PacketRead(h)
    BY <2>5 DEF PacketRead, Advance, Alive
  <2>6. CASE Stamp(h)
    BY <2>6 DEF Stamp, Advance, Alive
  <2>7. CASE Deliver(h)
    BY <2>7 DEF Deliver, Advance, Alive
  <2>8. CASE Exit(h)
    BY <2>8 DEF Exit, Advance
  <2>9. QED
    BY <1>3, <2>1, <2>2, <2>3, <2>4, <2>5, <2>6, <2>7, <2>8 DEF ThreadStep
<1>4. ASSUME NEW h \in Hubs, Arrive(h)
      PROVE  ReaderTypeOK'
  BY <1>4 DEF Arrive
<1>5. QED
  BY <1>1, <1>2, <1>3, <1>4 DEF ReaderNext

(* Control, action by action.                                              *)
LEMMA StepControl ==
  ASSUME ReaderTypeOK, ControlInv, ReaderNext
  PROVE  ControlInv'
<1> USE DEF ReaderTypeOK, ControlInv, Alive, ownerVars, threadVars
<1>1. CASE NewMultiReader
  BY <1>1 DEF NewMultiReader
<1>2. ASSUME NEW h \in Hubs, OwnerStep(h)
      PROVE  ControlInv'
  <2>1. CASE Open(h)
    BY <2>1 DEF Open
  <2>2. CASE Start(h)
    BY <2>2 DEF Start
  <2>3. CASE StopEarly(h)
    BY <2>3 DEF StopEarly
  <2>4. CASE StopBegin(h)
    BY <2>4 DEF StopBegin
  <2>5. CASE StopIoctl(h)
    BY <2>5 DEF StopIoctl
  <2>6. CASE StopCancel(h)
    BY <2>6 DEF StopCancel, Blocked
  <2>7. CASE StopJoin(h)
    BY <2>7 DEF StopJoin, Advance
  <2>8. CASE Destroy(h)
    BY <2>8 DEF Destroy, Joinable
  <2>9. QED
    BY <1>2, <2>1, <2>2, <2>3, <2>4, <2>5, <2>6, <2>7, <2>8 DEF OwnerStep, StopStep
<1>3. ASSUME NEW h \in Hubs, ThreadStep(h)
      PROVE  ControlInv'
  <2>1. CASE IssueRead(h)
    BY <2>1 DEF IssueRead, Advance
  <2>2. CASE HeaderRead(h)
    BY <2>2 DEF HeaderRead, Advance
  <2>3. CASE ReadFails(h)
    BY <2>3 DEF ReadFails, Advance
  <2>4. CASE Check(h)
    BY <2>4 DEF Check, Advance, Continue
  <2>5. CASE PacketRead(h)
    BY <2>5 DEF PacketRead, Advance
  <2>6. CASE Stamp(h)
    BY <2>6 DEF Stamp, Advance
  <2>7. CASE Deliver(h)
    BY <2>7 DEF Deliver, Advance
  <2>8. CASE Exit(h)
    BY <2>8 DEF Exit, Advance
  <2>9. QED
    BY <1>3, <2>1, <2>2, <2>3, <2>4, <2>5, <2>6, <2>7, <2>8 DEF ThreadStep
<1>4. ASSUME NEW h \in Hubs, Arrive(h)
      PROVE  ControlInv'
  BY <1>4 DEF Arrive
<1>5. QED
  BY <1>1, <1>2, <1>3, <1>4 DEF ReaderNext

(* A new multi reader starts an empty stream: without readers there is no  *)
(* thread that holds a number.                                             *)
LEMMA NewStream ==
  ASSUME ControlInv, NewMultiReader
  PROVE  HeldInv' /\ StreamOrder' /\ EveryNumberDelivered'
<1>1. /\ open = {} /\ seqCounter' = 0 /\ log' = <<>> /\ thread' = thread
      /\ \A h \in Hubs : thread[h] # "deliver"
  BY DEF NewMultiReader, ControlInv, threadVars
<1>2. QED
  BY <1>1 DEF HeldInv, StreamOrder, EveryNumberDelivered

(* Taking a number.                                                        *)
LEMMA StampStream ==
  ASSUME ReaderTypeOK, HeldInv, StreamOrder, EveryNumberDelivered,
         NEW h \in Hubs, Stamp(h)
  PROVE  HeldInv' /\ StreamOrder' /\ EveryNumberDelivered'
<1>1. /\ thread[h] = "stamp" /\ log' = log /\ seqCounter' = seqCounter + 1
      /\ thread' = [thread EXCEPT ![h] = "deliver"]
      /\ stamp' = [stamp EXCEPT ![h] = seqCounter]
  BY DEF Stamp, Advance
<1>2. /\ thread \in [Hubs -> Alive \cup {"none", "ended"}] /\ stamp \in [Hubs -> Nat]
      /\ seqCounter \in Nat /\ log \in Seq([hub : Hubs, seq : Nat])
  BY DEF ReaderTypeOK
<1>3. \A i \in DOMAIN log : log[i].seq \in Nat /\ log[i].seq < seqCounter
  <2>1. \A i \in DOMAIN log : log[i] \in [hub : Hubs, seq : Nat]
    <3>1. DOMAIN log = 1..Len(log)
      BY <1>2, LenProperties
    <3>2. QED
      BY <1>2, <3>1, ElementOfSeq
  <2>2. \A i \in DOMAIN log : log[i].seq \in Nat
    BY <2>1
  <2>3. QED
    BY <2>2 DEF HeldInv
<1>4. HeldInv'
  <2>1. \A i \in DOMAIN log' : log'[i].seq < seqCounter'
    BY <1>1, <1>2, <1>3
  <2>2. ASSUME NEW g \in Hubs, thread'[g] = "deliver"
        PROVE  /\ stamp'[g] < seqCounter'
               /\ \A i \in DOMAIN log' :
                    /\ log'[i].seq # stamp'[g]
                    /\ log'[i].hub = g => log'[i].seq < stamp'[g]
    <3>1. CASE g = h
      BY <1>1, <1>2, <1>3, <3>1
    <3>2. CASE g # h
      <4>1. thread[g] = "deliver" /\ stamp'[g] = stamp[g]
        BY <1>1, <1>2, <2>2, <3>2
      <4>2. QED
        BY <1>1, <1>2, <4>1 DEF HeldInv
    <3>3. QED
      BY <3>1, <3>2
  <2>3. ASSUME NEW f \in Hubs, NEW g \in Hubs, f # g,
               thread'[f] = "deliver", thread'[g] = "deliver"
        PROVE  stamp'[f] # stamp'[g]
    BY <1>1, <1>2, <2>3 DEF HeldInv
  <2>4. QED
    BY <2>1, <2>2, <2>3 DEF HeldInv
<1>5. StreamOrder'
  BY <1>1 DEF StreamOrder
<1>6. EveryNumberDelivered'
  <2> SUFFICES ASSUME NEW n \in 0..(seqCounter' - 1)
               PROVE  \/ \E i \in DOMAIN log' : log'[i].seq = n
                      \/ \E g \in Hubs : thread'[g] = "deliver" /\ stamp'[g] = n
    BY DEF EveryNumberDelivered
  <2>1. CASE n = seqCounter
    BY <1>1, <1>2, <2>1
  <2>2. CASE n # seqCounter
    <3>1. n \in 0..(seqCounter - 1)
      BY <1>1, <1>2, <2>2
    <3>2. CASE \E i \in DOMAIN log : log[i].seq = n
      BY <1>1, <3>2
    <3>3. CASE \E g \in Hubs : thread[g] = "deliver" /\ stamp[g] = n
      <4>1. PICK g \in Hubs : thread[g] = "deliver" /\ stamp[g] = n
        BY <3>3
      <4>2. g # h
        BY <1>1, <4>1
      <4>3. QED
        BY <1>1, <1>2, <4>1, <4>2
    <3>4. QED
      BY <3>1, <3>2, <3>3 DEF EveryNumberDelivered
  <2>3. QED
    BY <2>1, <2>2
<1>7. QED
  BY <1>4, <1>5, <1>6

(* Handing the event to the callback.                                      *)
LEMMA DeliverStream ==
  ASSUME ReaderTypeOK, HeldInv, StreamOrder, EveryNumberDelivered,
         NEW h \in Hubs, Deliver(h)
  PROVE  HeldInv' /\ StreamOrder' /\ EveryNumberDelivered'
<1> DEFINE e == [hub |-> h, seq |-> stamp[h]]
<1>1. /\ thread[h] = "deliver" /\ seqCounter' = seqCounter /\ stamp' = stamp
      /\ thread' = [thread EXCEPT ![h] = "check"]
      /\ log' = Append(log, e)
  BY DEF Deliver, Advance
<1>2. /\ thread \in [Hubs -> Alive \cup {"none", "ended"}] /\ stamp \in [Hubs -> Nat]
      /\ seqCounter \in Nat /\ log \in Seq([hub : Hubs, seq : Nat])
  BY DEF ReaderTypeOK
<1>3. e \in [hub : Hubs, seq : Nat] /\ e.hub = h /\ e.seq = stamp[h]
  BY <1>2
<1>4. /\ Len(log') = Len(log) + 1 /\ Len(log) \in Nat
      /\ DOMAIN log = 1..Len(log) /\ DOMAIN log' = 1..Len(log')
      /\ log'[Len(log')] = e
      /\ \A i \in DOMAIN log : log'[i] = log[i]
  BY <1>1, <1>2, <1>3
<1>5. /\ stamp[h] < seqCounter
      /\ \A i \in DOMAIN log :
           /\ log[i].seq # stamp[h]
           /\ log[i].hub = h => log[i].seq < stamp[h]
  BY <1>1 DEF HeldInv
<1>6. \A i \in DOMAIN log' : i \in DOMAIN log \/ log'[i] = e
  BY <1>4
<1>7. HeldInv'
  <2>1. ASSUME NEW i \in DOMAIN log'
        PROVE  log'[i].seq < seqCounter'
    BY <1>1, <1>3, <1>4, <1>5, <1>6 DEF HeldInv
  <2>2. ASSUME NEW g \in Hubs, thread'[g] = "deliver", NEW i \in DOMAIN log'
        PROVE  /\ stamp'[g] < seqCounter'
               /\ log'[i].seq # stamp'[g]
               /\ log'[i].hub = g => log'[i].seq < stamp'[g]
    <3>1. g # h /\ thread[g] = "deliver"
      BY <1>1, <1>2, <2>2
    <3>2. stamp[g] # stamp[h] /\ stamp[g] < seqCounter
      BY <1>1, <3>1 DEF HeldInv
    <3>3. CASE i \in DOMAIN log
      BY <1>1, <1>4, <3>1, <3>2, <3>3 DEF HeldInv
    <3>4. CASE log'[i] = e
      BY <1>1, <1>3, <3>1, <3>2, <3>4
    <3>5. QED
      BY <1>6, <3>3, <3>4
  <2>3. ASSUME NEW f \in Hubs, NEW g \in Hubs, f # g,
               thread'[f] = "deliver", thread'[g] = "deliver"
        PROVE  stamp'[f] # stamp'[g]
    BY <1>1, <1>2, <2>3 DEF HeldInv
  <2>4. DOMAIN log' # {}
    BY <1>4
  <2>5. QED
    BY <2>1, <2>2, <2>3, <2>4 DEF HeldInv
<1>8. StreamOrder'
  <2> SUFFICES ASSUME NEW i \in DOMAIN log', NEW j \in DOMAIN log', i < j
               PROVE  /\ log'[i].seq # log'[j].seq
                      /\ log'[i].hub = log'[j].hub => log'[i].seq < log'[j].seq
    BY DEF StreamOrder
  <2>1. i \in DOMAIN log
    BY <1>4
  <2>2. CASE j \in DOMAIN log
    <3>1. log'[i] = log[i] /\ log'[j] = log[j]
      BY <1>4, <2>1, <2>2
    <3>2. QED
      BY <2>1, <2>2, <3>1 DEF StreamOrder
  <2>3. CASE log'[j] = e
    <3>1. log'[i] = log[i] /\ log'[j].hub = h /\ log'[j].seq = stamp[h]
      BY <1>3, <1>4, <2>1, <2>3
    <3>2. log[i].seq # stamp[h] /\ (log[i].hub = h => log[i].seq < stamp[h])
      BY <1>5, <2>1
    <3>3. QED
      BY <3>1, <3>2
  <2>4. QED
    BY <1>6, <2>2, <2>3
<1>9. EveryNumberDelivered'
  <2> SUFFICES ASSUME NEW n \in 0..(seqCounter - 1)
               PROVE  \/ \E i \in DOMAIN log' : log'[i].seq = n
                      \/ \E g \in Hubs : thread'[g] = "deliver" /\ stamp'[g] = n
    BY <1>1 DEF EveryNumberDelivered
  <2>1. CASE \E i \in DOMAIN log : log[i].seq = n
    BY <1>4, <2>1
  <2>2. CASE \E g \in Hubs : thread[g] = "deliver" /\ stamp[g] = n
    <3>1. PICK g \in Hubs : thread[g] = "deliver" /\ stamp[g] = n
      BY <2>2
    <3>2. CASE g = h
      <4>1. Len(log') \in DOMAIN log' /\ log'[Len(log')].seq = n
        BY <1>3, <1>4, <3>1, <3>2
      <4>2. QED
        BY <4>1
    <3>3. CASE g # h
      BY <1>1, <1>2, <3>1, <3>3
    <3>4. QED
      BY <3>2, <3>3
  <2>3. QED
    BY <2>1, <2>2 DEF EveryNumberDelivered
<1>10. QED
  BY <1>7, <1>8, <1>9

(* Every other step is silent.                                             *)
LEMMA OwnerSilent ==
  ASSUME ReaderTypeOK, ControlInv, NEW h \in Hubs, OwnerStep(h)
  PROVE  Silent
<1> USE DEF ReaderTypeOK, Silent, ownerVars, threadVars, streamVars
<1>1. CASE Open(h) \/ StopEarly(h) \/ StopBegin(h) \/ StopIoctl(h)
  BY <1>1 DEF Open, StopEarly, StopBegin, StopIoctl
<1>2. CASE Start(h)
  BY <1>2 DEF Start, Joinable
<1>3. CASE StopCancel(h)
  BY <1>3 DEF StopCancel, Blocked
<1>4. CASE StopJoin(h)
  BY <1>4 DEF StopJoin, Advance
<1>5. CASE Destroy(h)
  BY <1>5 DEF Destroy
<1>6. QED
  BY <1>1, <1>2, <1>3, <1>4, <1>5 DEF OwnerStep, StopStep

LEMMA ThreadSilent ==
  ASSUME ReaderTypeOK, NEW h \in Hubs, ThreadStep(h), ~Stamp(h), ~Deliver(h)
  PROVE  Silent
<1> USE DEF ReaderTypeOK, Silent, streamVars, Advance
<1>1. CASE IssueRead(h) \/ HeaderRead(h) \/ ReadFails(h)
  BY <1>1 DEF IssueRead, HeaderRead, ReadFails
<1>2. CASE Check(h) \/ PacketRead(h) \/ Exit(h)
  BY <1>2 DEF Check, PacketRead, Exit
<1>3. QED
  BY <1>1, <1>2 DEF ThreadStep

LEMMA StepStream ==
  ASSUME RInv, ReaderNext
  PROVE  HeldInv' /\ StreamOrder' /\ EveryNumberDelivered'
<1> USE DEF RInv
<1>1. CASE NewMultiReader
  BY <1>1, NewStream
<1>2. ASSUME NEW h \in Hubs, OwnerStep(h)
      PROVE  HeldInv' /\ StreamOrder' /\ EveryNumberDelivered'
  BY <1>2, OwnerSilent, SilentStream
<1>3. ASSUME NEW h \in Hubs, ThreadStep(h)
      PROVE  HeldInv' /\ StreamOrder' /\ EveryNumberDelivered'
  <2>1. CASE Stamp(h)
    BY <2>1, StampStream
  <2>2. CASE Deliver(h)
    BY <2>2, DeliverStream
  <2>3. CASE ~Stamp(h) /\ ~Deliver(h)
    BY <1>3, <2>3, ThreadSilent, SilentStream
  <2>4. QED
    BY <2>1, <2>2, <2>3
<1>4. ASSUME NEW h \in Hubs, Arrive(h)
      PROVE  HeldInv' /\ StreamOrder' /\ EveryNumberDelivered'
  <2>1. Silent
    BY <1>4 DEF Arrive, Silent, threadVars, streamVars
  <2>2. QED
    BY <2>1, SilentStream
<1>5. QED
  BY <1>1, <1>2, <1>3, <1>4 DEF ReaderNext

LEMMA NextRInv == RInv /\ [ReaderNext]_readerVars => RInv'
<1> SUFFICES ASSUME RInv, [ReaderNext]_readerVars
             PROVE  RInv'
  OBVIOUS
<1>1. CASE ReaderNext
  BY <1>1, StepType, StepControl, StepStream DEF RInv
<1>2. CASE UNCHANGED readerVars
  BY <1>2 DEF readerVars, ownerVars, threadVars, streamVars, driverVars, RInv,
              ReaderTypeOK, ControlInv, HeldInv, StreamOrder, EveryNumberDelivered
<1>3. QED
  BY <1>1, <1>2

(* The strengthened invariant holds in every reachable state.              *)
THEOREM ReaderInvariant == ReaderSpec => []RInv
  BY InitRInv, NextRInv, PTL DEF ReaderSpec

(* Every variable keeps its type.                                          *)
THEOREM ReaderTypeCorrect == ReaderSpec => []ReaderTypeOK
<1>1. RInv => ReaderTypeOK
  BY DEF RInv
<1>2. QED
  BY <1>1, ReaderInvariant, PTL

(* After StopCapture has returned, no callback of that hub runs.           *)
THEOREM QuietAfterStopCorrect == ReaderSpec => []QuietAfterStop
<1>1. RInv => QuietAfterStop
  BY DEF RInv, ControlInv, QuietAfterStop
<1>2. QED
  BY <1>1, ReaderInvariant, PTL

(* Numbers are unique in a capture and increase within a hub.              *)
THEOREM StreamOrderCorrect == ReaderSpec => []StreamOrder
<1>1. RInv => StreamOrder
  BY DEF RInv
<1>2. QED
  BY <1>1, ReaderInvariant, PTL

(* No number is lost between the counter and the callback.                 *)
THEOREM NoNumberLost == ReaderSpec => []EveryNumberDelivered
<1>1. RInv => EveryNumberDelivered
  BY DEF RInv
<1>2. QED
  BY <1>1, ReaderInvariant, PTL

-----------------------------------------------------------------------------
(* The engine uses the readers as they may be used.                        *)

(* The controller's steps that leave the readers alone.                    *)
Calling ==
  \/ \E hubs \in SUBSET Hubs : CallStart(hubs) \/ CallEnumerate(hubs)
  \/ CallStop \/ CallDestroy

Returning == StopDone \/ ClearDone \/ OpenFails \/ OpenDone \/ StartDone

LEMMA ControllerReads ==
  Controller => ReaderNext \/ UNCHANGED readerVars \/ terminated
<1> SUFFICES ASSUME Controller, ~terminated PROVE ReaderNext \/ UNCHANGED readerVars
  OBVIOUS
<1>1. CASE Calling
  BY <1>1 DEF Calling, CallStart, CallEnumerate, CallStop, CallDestroy
<1>2. CASE Returning
  BY <1>2 DEF Returning, StopDone, ClearDone, OpenFails, OpenDone, StartDone
<1>3. CASE OpenBegin
  BY <1>3 DEF OpenBegin, ReaderNext
<1>4. ASSUME NEW h \in Hubs, StopNext(h) \/ ClearNext(h) \/ OpenNext(h)
                             \/ StartNext(h) \/ StartRefused(h)
      PROVE  ReaderNext \/ UNCHANGED readerVars
  BY <1>4 DEF StopNext, ClearNext, OpenNext, StartNext, StartRefused,
              ReaderNext, OwnerStep, StopStep
<1> QED
  BY <1>1, <1>2, <1>3, <1>4 DEF Controller, Calling, Returning

LEMMA EngineReads == [EngineNext]_engineVars => [ReaderNext]_readerVars
<1> SUFFICES ASSUME [EngineNext]_engineVars PROVE [ReaderNext]_readerVars
  OBVIOUS
<1>1. CASE EngineNext /\ Controller
  BY <1>1, ControllerReads DEF EngineNext
<1>2. ASSUME NEW h \in Hubs, ~terminated, Load(h) \/ Store(h) \/ Emit(h) \/ LoopStep(h)
      PROVE  [ReaderNext]_readerVars
  BY <1>2 DEF Load, Store, Emit, LoopStep, ReaderNext, ThreadStep
<1>3. CASE UNCHANGED engineVars
  BY <1>3 DEF engineVars
<1> QED
  BY <1>1, <1>2, <1>3 DEF EngineNext

(* The engine's calls never break the rules of UsbPcapReader's owner: what *)
(* is proved of the readers holds under every sequence of engine methods.  *)
THEOREM UsesReaders == EngineSpec => ReaderSpec
<1>1. EngineInit => ReaderInit
  BY DEF EngineInit
<1> QED
  BY <1>1, EngineReads, PTL DEF EngineSpec, ReaderSpec

(* What was proved of the readers holds in the engine.                     *)
THEOREM ReadersInEngine == EngineSpec => []RInv
  BY UsesReaders, ReaderInvariant, PTL

-----------------------------------------------------------------------------
(* Quiet when idle.                                                        *)

QuietAll == \A h \in Hubs : thread[h] \in {"none", "ended"}

(* A thread can run only while a capture is active; hubs are started only  *)
(* then; and the hubs a stop loop has behind it have been stopped.         *)
QuietInv ==
  /\ ~active => QuietAll
  /\ op = "starting" => active
  /\ op \in {"stopping", "closing"} => \A h \in open \ todo : stopped[h]

LEMMA QuietInit == EngineInit => QuietInv
BY DEF EngineInit, ReaderInit, QuietInv, QuietAll

(* Only a start wakes a hub.                                               *)
LEMMA StaysQuiet ==
  ASSUME ReaderTypeOK, QuietAll, NEW h \in Hubs,
         \/ OwnerStep(h) /\ ~Start(h)
         \/ ThreadStep(h) \/ Arrive(h)
  PROVE  QuietAll'
<1> USE DEF QuietAll, ReaderTypeOK, threadVars
<1>1. CASE OwnerStep(h) /\ ~Start(h)
  BY <1>1 DEF OwnerStep, Open, StopEarly, StopStep, StopBegin, StopIoctl, StopCancel,
              StopJoin, Destroy, Advance, Blocked
<1>2. CASE ThreadStep(h)
  BY <1>2 DEF ThreadStep, IssueRead, HeaderRead, ReadFails, Check, PacketRead, Stamp,
              Deliver, Exit, Advance
<1>3. CASE Arrive(h)
  BY <1>3 DEF Arrive
<1> QED
  BY <1>1, <1>2, <1>3

LEMMA AllStoppedQuiet ==
  ASSUME RInv, \A h \in open : stopped[h]
  PROVE  QuietAll
BY DEF RInv, ReaderTypeOK, ControlInv, QuietAll

LEMMA QuietStep ==
  ASSUME RInv, QuietInv, [EngineNext]_engineVars
  PROVE  QuietInv'
<1> USE DEF QuietInv
<1>t. ReaderTypeOK
  BY DEF RInv
<1>1. CASE Calling
  BY <1>1 DEF Calling, CallStart, CallEnumerate, CallStop, CallDestroy, QuietAll,
              readerVars, ownerVars, threadVars
<1>2. CASE Returning
  <2>1. CASE StopDone
    <3>1. \A h \in open : stopped[h]
      BY <2>1 DEF StopDone
    <3>2. QuietAll
      BY <3>1, AllStoppedQuiet
    <3> QED
      BY <2>1, <3>2 DEF StopDone, QuietAll, readerVars, ownerVars, threadVars
  <2>2. CASE ClearDone \/ OpenFails \/ OpenDone \/ StartDone
    BY <2>2 DEF ClearDone, OpenFails, OpenDone, StartDone, QuietAll,
                readerVars, ownerVars, threadVars
  <2> QED
    BY <1>2, <2>1, <2>2 DEF Returning
<1>3. CASE OpenBegin
  BY <1>3 DEF OpenBegin, NewMultiReader, QuietAll, ownerVars, threadVars
<1>4. ASSUME NEW h \in Hubs, StopNext(h)
      PROVE  QuietInv'
  <2>1. OwnerStep(h) /\ ~Start(h) /\ UNCHANGED <<op, active, open>>
    BY <1>4, <1>t DEF StopNext, OwnerStep, StopStep, StopBegin, StopIoctl, StopCancel,
            StopEarly, StopJoin, Start, ownerVars, ReaderTypeOK
  <2>2. ~active => QuietAll'
    BY <2>1, <1>t, StaysQuiet
  <2>3. \A g \in open \ todo' : stopped'[g]
    BY <1>4, <1>t DEF StopNext, StopBegin, StopIoctl, StopCancel, StopEarly, StopJoin,
            Visited, ReaderTypeOK
  <2>4. op # "starting"
    BY <1>4 DEF StopNext
  <2> QED
    BY <2>1, <2>2, <2>3, <2>4
<1>5. ASSUME NEW h \in Hubs, ClearNext(h) \/ OpenNext(h)
      PROVE  QuietInv'
  <2>1. OwnerStep(h) /\ ~Start(h) /\ UNCHANGED <<op, active>>
    BY <1>5, <1>t DEF ClearNext, OpenNext, OwnerStep, Open, Destroy, Start, ownerVars,
            threadVars, ReaderTypeOK, Joinable
  <2>2. ~active => QuietAll'
    BY <2>1, <1>t, StaysQuiet
  <2>3. op \in {"clearing", "openingHubs"}
    BY <1>5 DEF ClearNext, OpenNext
  <2> QED
    BY <2>1, <2>2, <2>3
<1>6. ASSUME NEW h \in Hubs, StartNext(h) \/ StartRefused(h)
      PROVE  QuietInv'
  BY <1>6 DEF StartNext, StartRefused
<1>7. ASSUME NEW h \in Hubs, Load(h) \/ Store(h)
      PROVE  QuietInv'
  BY <1>7 DEF Load, Store, controlVars, QuietAll, readerVars, ownerVars, threadVars
<1>8. ASSUME NEW h \in Hubs, Emit(h) \/ LoopStep(h)
      PROVE  QuietInv'
  <2>1. (ThreadStep(h) \/ Arrive(h)) /\ UNCHANGED <<controlVars, ownerVars>>
    BY <1>8 DEF Emit, LoopStep, ThreadStep, IssueRead, HeaderRead, ReadFails, Check,
            PacketRead, Stamp, Deliver, Exit, Arrive, ownerVars
  <2>2. ~active => QuietAll'
    BY <2>1, <1>t, StaysQuiet
  <2> QED
    BY <2>1, <2>2 DEF controlVars, ownerVars
<1>9. CASE UNCHANGED engineVars
  BY <1>9 DEF engineVars, controlVars, QuietAll, readerVars, ownerVars, threadVars
<1> QED
  BY <1>1, <1>2, <1>3, <1>4, <1>5, <1>6, <1>7, <1>8, <1>9
     DEF EngineNext, Controller, Calling, Returning

(* Neither a failed open, nor a stop, nor an enumeration leaves a thread   *)
(* that could still call back: for every set of hubs.                      *)
THEOREM EngineQuietWhenIdle == EngineSpec => []QuietWhenIdle
<1>1. QuietInv => QuietWhenIdle
  BY DEF QuietInv, QuietWhenIdle, QuietAll
<1>2. RInv /\ QuietInv /\ [EngineNext]_engineVars => QuietInv'
  BY QuietStep
<1> QED
  BY <1>1, <1>2, QuietInit, ReadersInEngine, PTL DEF EngineSpec

-----------------------------------------------------------------------------
(* The engine implements EventStream.                                      *)

(* The stream is cleared, and a capture begins, only between captures.     *)
BetweenInv ==
  /\ active \in BOOLEAN
  /\ op \in {"clearing", "opening", "openingHubs"} => ~active
  /\ op = "openingHubs" => reader
  /\ active => reader

LEMMA BetweenStep == BetweenInv /\ [EngineNext]_engineVars => BetweenInv'
<1> SUFFICES ASSUME BetweenInv, [EngineNext]_engineVars PROVE BetweenInv'
  OBVIOUS
<1> USE DEF BetweenInv
<1>1. CASE Calling
  BY <1>1 DEF Calling, CallStart, CallEnumerate, CallStop, CallDestroy
<1>2. CASE Returning
  <2>1. CASE StopDone
    BY <2>1 DEF StopDone
  <2>2. CASE ClearDone
    BY <2>2 DEF ClearDone
  <2>3. CASE OpenDone
    BY <2>3 DEF OpenDone
  <2>4. CASE OpenFails \/ StartDone
    BY <2>4 DEF OpenFails, StartDone
  <2> QED
    BY <1>2, <2>1, <2>2, <2>3, <2>4 DEF Returning
<1>3. CASE OpenBegin
  BY <1>3 DEF OpenBegin
<1>4. ASSUME NEW h \in Hubs, StopNext(h) \/ ClearNext(h) \/ OpenNext(h)
                             \/ StartNext(h) \/ StartRefused(h)
      PROVE  BetweenInv'
  BY <1>4 DEF StopNext, ClearNext, OpenNext, StartNext, StartRefused
<1>5. ASSUME NEW h \in Hubs, Load(h) \/ Store(h) \/ Emit(h) \/ LoopStep(h)
      PROVE  BetweenInv'
  BY <1>5 DEF Load, Store, Emit, LoopStep, controlVars
<1>6. CASE UNCHANGED engineVars
  BY <1>6 DEF engineVars, controlVars
<1> QED
  BY <1>1, <1>2, <1>3, <1>4, <1>5, <1>6 DEF EngineNext, Controller, Calling, Returning

(* The event a thread hands on is fresh, and the capture is active.        *)
LEMMA EmitDelivers ==
  ASSUME RInv, QuietInv, NEW h \in Hubs, Emit(h)
  PROVE  Stream!Next
<1>1. /\ thread[h] = "deliver"
      /\ log' = Append(log, [hub |-> h, seq |-> stamp[h]])
      /\ active' = active
  BY DEF Emit, Deliver, Advance, controlVars
<1>2. log \in Seq([hub : Hubs, seq : Nat]) /\ stamp[h] \in Nat
  BY DEF RInv, ReaderTypeOK
<1>3. active
  BY <1>1 DEF QuietInv, QuietAll
<1>4. Stream!Fresh(h, stamp[h])
  BY <1>1 DEF RInv, HeldInv, Stream!Fresh
<1>5. Len(log') > 0 /\ log'[Len(log')] = [hub |-> h, seq |-> stamp[h]]
  BY <1>1, <1>2
<1>6. Stream!Deliver(h, stamp[h])
  BY <1>1, <1>3, <1>4 DEF Stream!Deliver
<1> QED
  BY <1>2, <1>5, <1>6 DEF Stream!Next, Stream!DeliverSome

LEMMA EngineStreams ==
  ASSUME RInv, QuietInv, BetweenInv, [EngineNext]_engineVars
  PROVE  [Stream!Next]_<<active, log>>
<1>1. CASE Calling
  BY <1>1 DEF Calling, CallStart, CallEnumerate, CallStop, CallDestroy, readerVars, streamVars
<1>2. CASE StopDone
  <2>1. log' = log /\ active' = FALSE
    BY <1>2 DEF StopDone, readerVars, streamVars
  <2>2. CASE active
    BY <2>1, <2>2 DEF Stream!Next, Stream!End
  <2>3. CASE ~active
    <3>1. active' = active
      BY <2>1, <2>3, Zenon DEF BetweenInv
    <3> QED
      BY <2>1, <3>1
  <2> QED
    BY <2>2, <2>3
<1>3. CASE OpenDone
  BY <1>3 DEF OpenDone, BetweenInv, readerVars, streamVars, Stream!Next, Stream!Begin
<1>4. CASE ClearDone \/ OpenFails \/ StartDone
  BY <1>4 DEF ClearDone, OpenFails, StartDone, readerVars, streamVars
<1>5. CASE OpenBegin
  BY <1>5 DEF OpenBegin, NewMultiReader, BetweenInv, Stream!Next, Stream!Clear
<1>6. ASSUME NEW h \in Hubs, StopNext(h) \/ ClearNext(h) \/ OpenNext(h)
                             \/ StartNext(h) \/ StartRefused(h)
      PROVE  UNCHANGED <<active, log>>
  <2>1. CASE StopNext(h)
    BY <2>1 DEF StopNext, StopBegin, StopIoctl, StopCancel, StopEarly, StopJoin, streamVars
  <2>2. CASE ClearNext(h)
    BY <2>2 DEF ClearNext, Destroy, streamVars
  <2>3. CASE OpenNext(h) \/ StartNext(h) \/ StartRefused(h)
    BY <2>3 DEF OpenNext, StartNext, StartRefused, Open, Start, readerVars, streamVars
  <2> QED
    BY <1>6, <2>1, <2>2, <2>3
<1>7. ASSUME NEW h \in Hubs, Load(h) \/ Store(h) \/ LoopStep(h)
      PROVE  UNCHANGED <<active, log>>
  BY <1>7 DEF Load, Store, LoopStep, IssueRead, HeaderRead, ReadFails, Check, PacketRead,
              Stamp, Exit, Arrive, controlVars, readerVars, streamVars
<1>8. ASSUME NEW h \in Hubs, Emit(h)
      PROVE  Stream!Next
  BY <1>8, EmitDelivers
<1>9. CASE UNCHANGED engineVars
  BY <1>9 DEF engineVars, controlVars, readerVars, streamVars
<1> QED
  BY <1>1, <1>2, <1>3, <1>4, <1>5, <1>6, <1>7, <1>8, <1>9
     DEF EngineNext, Controller, Calling, Returning

(* The callback is given the stream EventStream promises: events only      *)
(* while a capture is active, each with a number that is new in it and     *)
(* larger than what its hub has sent; for every set of hubs.               *)
THEOREM ImplementsStream == EngineSpec => StreamSpec
<1>1. EngineInit => BetweenInv /\ Stream!Init
  BY DEF EngineInit, ReaderInit, BetweenInv, Stream!Init
<1>2. RInv /\ QuietInv /\ [EngineNext]_engineVars => QuietInv'
  BY QuietStep
<1>3. RInv /\ QuietInv /\ BetweenInv /\ [EngineNext]_engineVars
        => [Stream!Next]_<<active, log>>
  BY EngineStreams
<1> QED
  BY <1>1, <1>2, <1>3, QuietInit, BetweenStep, ReadersInEngine, PTL
     DEF EngineSpec, StreamSpec, Stream!Spec, Stream!streamSpecVars

-----------------------------------------------------------------------------
(* Types.                                                                  *)

LEMMA EngineTypeInit == EngineInit => EngineTypeOK
<1> SUFFICES ASSUME EngineInit PROVE EngineTypeOK
  OBVIOUS
<1>1. ReaderTypeOK
  BY InitRInv DEF EngineInit, RInv
<1>2. reader \in BOOLEAN /\ allOk \in BOOLEAN /\ active \in BOOLEAN
  BY Zenon DEF EngineInit
<1>3. /\ cb \in [Hubs -> {"load", "store", "emit"}] /\ loaded \in [Hubs -> Nat]
      /\ total \in Nat /\ todo \subseteq Hubs /\ config \subseteq Hubs
      /\ op = "idle" /\ purpose = "none"
  BY DEF EngineInit
<1> QED
  BY <1>1, <1>2, <1>3 DEF EngineTypeOK

LEMMA EngineTypeStep == EngineTypeOK /\ RInv' /\ [EngineNext]_engineVars => EngineTypeOK'
<1> SUFFICES ASSUME EngineTypeOK, RInv', [EngineNext]_engineVars PROVE EngineTypeOK'
  OBVIOUS
<1> USE DEF EngineTypeOK, RInv, statsVars
<1>1. open \subseteq Hubs
  BY DEF ReaderTypeOK
<1>2. CASE Calling
  BY <1>1, <1>2 DEF Calling, CallStart, CallEnumerate, CallStop, CallDestroy
<1>3. CASE Returning
  <2>1. CASE StopDone
    BY <1>1, <2>1 DEF StopDone
  <2>2. CASE ClearDone
    BY <2>2 DEF ClearDone
  <2>3. CASE OpenFails \/ StartDone
    BY <2>3 DEF OpenFails, StartDone
  <2>4. CASE OpenDone
    <3>1. allOk' \in BOOLEAN /\ active' \in BOOLEAN /\ reader' \in BOOLEAN
      BY <2>4, Zenon DEF OpenDone
    <3>2. /\ op' \in {"idle", "starting"} /\ todo' \subseteq Hubs /\ total' \in Nat
          /\ UNCHANGED <<purpose, config, cb, loaded>>
      BY <1>1, <2>4 DEF OpenDone
    <3> QED
      BY <3>1, <3>2
  <2> QED
    BY <1>3, <2>1, <2>2, <2>3, <2>4 DEF Returning
<1>4. CASE OpenBegin
  BY <1>4 DEF OpenBegin
<1>5. ASSUME NEW h \in Hubs, StopNext(h) \/ ClearNext(h) \/ OpenNext(h)
                             \/ StartNext(h) \/ StartRefused(h)
      PROVE  EngineTypeOK'
  BY <1>5 DEF StopNext, ClearNext, OpenNext, StartNext, StartRefused, Visited
<1>6. ASSUME NEW h \in Hubs, Load(h) \/ Store(h) \/ Emit(h) \/ LoopStep(h)
      PROVE  EngineTypeOK'
  BY <1>6 DEF Load, Store, Emit, LoopStep, controlVars
<1>7. CASE UNCHANGED engineVars
  BY <1>7 DEF engineVars, controlVars
<1> QED
  BY <1>2, <1>3, <1>4, <1>5, <1>6, <1>7 DEF EngineNext, Controller, Calling, Returning

(* Every variable of the engine keeps its type, for every set of hubs.     *)
THEOREM EngineTypeCorrect == EngineSpec => []EngineTypeOK
BY EngineTypeInit, EngineTypeStep, ReadersInEngine, PTL DEF EngineSpec

-----------------------------------------------------------------------------
(* A start reports every hub.                                              *)

(* The hubs of a new multi reader are those selected, less those still to  *)
(* be opened, and it has handed on nothing; of those a start has behind it *)
(* each has its thread, unless one was refused.                            *)
StartInv ==
  /\ op = "openingHubs" => todo \subseteq config /\ open = config \ todo /\ log = <<>>
  /\ op = "starting" => open = config /\ (allOk => \A h \in open \ todo : Joinable(h))

(* A read thread's step touches no reader but its own, and ends no thread. *)
LEMMA LoopKeeps ==
  ASSUME ReaderTypeOK, NEW h \in Hubs, Emit(h) \/ LoopStep(h)
  PROVE  /\ UNCHANGED <<op, todo, config, allOk, active, open>>
         /\ \A g \in Hubs : thread[g] # "none" => thread'[g] # "none"
         /\ log' # log => thread[h] = "deliver"
<1> USE DEF ReaderTypeOK, controlVars, ownerVars, threadVars, streamVars, Advance
<1>1. CASE Emit(h)
  BY <1>1 DEF Emit, Deliver
<1>2. CASE LoopStep(h)
  <2>1. CASE IssueRead(h) \/ HeaderRead(h) \/ ReadFails(h) \/ Check(h)
    BY <1>2, <2>1 DEF LoopStep, IssueRead, HeaderRead, ReadFails, Check
  <2>2. CASE PacketRead(h) \/ Stamp(h) \/ Exit(h) \/ Arrive(h)
    BY <1>2, <2>2 DEF LoopStep, PacketRead, Stamp, Exit, Arrive
  <2> QED
    BY <1>2, <2>1, <2>2 DEF LoopStep
<1> QED
  BY <1>1, <1>2

LEMMA StartStep ==
  ASSUME EngineTypeOK, QuietInv, BetweenInv, StartInv, [EngineNext]_engineVars
  PROVE  StartInv'
<1> USE DEF StartInv
<1>t. ReaderTypeOK /\ open \subseteq Hubs /\ config \subseteq Hubs
  BY DEF EngineTypeOK, ReaderTypeOK
<1>1. CASE Calling
  BY <1>1 DEF Calling, CallStart, CallEnumerate, CallStop, CallDestroy
<1>2. CASE Returning
  BY <1>2 DEF Returning, StopDone, ClearDone, OpenFails, OpenDone, StartDone, readerVars, ownerVars
<1>3. CASE OpenBegin
  BY <1>3 DEF OpenBegin, NewMultiReader, ownerVars
<1>4. ASSUME NEW h \in Hubs, StopNext(h) \/ ClearNext(h) PROVE StartInv'
  BY <1>4 DEF StopNext, ClearNext
<1>5. ASSUME NEW h \in Hubs, OpenNext(h) PROVE StartInv'
  BY <1>5, <1>t DEF OpenNext, Open, IsNext, Visited, streamVars
<1>6. ASSUME NEW h \in Hubs, StartNext(h) PROVE StartInv'
  <2>1. /\ op' = "starting" /\ open' = open /\ config' = config /\ allOk' = allOk
        /\ todo' = todo \ {h} /\ open = config
        /\ thread' = [thread EXCEPT ![h] = "header"]
    BY <1>6 DEF StartNext, Start, Visited, ownerVars
  <2>2. thread'[h] = "header" /\ \A g \in Hubs : g # h => thread'[g] = thread[g]
    BY <1>t, <2>1 DEF ReaderTypeOK
  <2> QED
    BY <1>t, <2>1, <2>2, <1>6 DEF StartNext, Joinable
<1>7. ASSUME NEW h \in Hubs, StartRefused(h) PROVE StartInv'
  BY <1>7 DEF StartRefused, readerVars, ownerVars
<1>8. ASSUME NEW h \in Hubs, Load(h) \/ Store(h) PROVE StartInv'
  BY <1>8 DEF Load, Store, controlVars, readerVars, ownerVars, threadVars, streamVars, Joinable
<1>9. ASSUME NEW h \in Hubs, Emit(h) \/ LoopStep(h) PROVE StartInv'
  <2>1. op = "openingHubs" => log' = log
    BY <1>9, <1>t, LoopKeeps DEF BetweenInv, QuietInv, QuietAll
  <2> QED
    BY <1>9, <1>t, <2>1, LoopKeeps DEF Joinable
<1>10. CASE UNCHANGED engineVars
  BY <1>10 DEF engineVars, controlVars, readerVars, ownerVars, threadVars, streamVars, Joinable
<1> QED
  BY <1>1, <1>2, <1>3, <1>4, <1>5, <1>6, <1>7, <1>8, <1>9, <1>10
     DEF EngineNext, Controller, Calling, Returning

(* A start that reports success has started every hub it selected, for     *)
(* every set of hubs, whatever the hubs started first do meanwhile.        *)
THEOREM StartReportsAllCorrect == EngineSpec => StartReportsAll
<1>1. EngineInit => BetweenInv /\ StartInv
  BY DEF EngineInit, BetweenInv, StartInv
<1>2. RInv /\ QuietInv /\ [EngineNext]_engineVars => QuietInv'
  BY QuietStep
<1>3. EngineTypeOK /\ QuietInv /\ BetweenInv /\ StartInv /\ [EngineNext]_engineVars => StartInv'
  BY StartStep
<1>4. StartInv /\ [EngineNext]_engineVars
        => [(op = "starting" /\ op' = "idle" /\ allOk) =>
              /\ open = config
              /\ \A h \in config : Joinable(h)]_engineVars
  <2> SUFFICES ASSUME StartInv, EngineNext, op = "starting", op' = "idle", allOk
               PROVE  open = config /\ \A h \in config : Joinable(h)
    OBVIOUS
  <2>1. todo = {}
    BY DEF EngineNext, Controller, CallStart, CallEnumerate, CallStop, CallDestroy, StopDone,
           ClearDone, OpenFails, OpenBegin, OpenDone, StartDone, StopNext, ClearNext, OpenNext,
           StartNext, StartRefused, Load, Store, Emit, LoopStep, controlVars
  <2> QED
    BY <2>1 DEF StartInv
<1> QED
  BY <1>1, <1>2, <1>3, <1>4, QuietInit, BetweenStep, ReadersInEngine, EngineTypeCorrect, PTL
     DEF EngineSpec, StartReportsAll

-----------------------------------------------------------------------------
(* The statistics.                                                         *)

(* The threads whose event is numbered but not yet counted, and the        *)
(* numbers of the events that have been counted (or whose count was lost). *)
Uncounted == {h \in Hubs : thread[h] = "deliver" /\ cb[h] # "emit"}
Counted   == (0..(seqCounter - 1)) \ {stamp[h] : h \in Uncounted}

(* The counter never exceeds the number of events counted, not even when a *)
(* thread stores what it has loaded: the number of events counted has not  *)
(* gone down since, and grows by one with the store.                       *)
CountInv ==
  /\ \A h \in Hubs : cb[h] # "load" => thread[h] = "deliver"
  /\ active => total <= Cardinality(Counted)
  /\ active => \A h \in Hubs : cb[h] = "store" => loaded[h] <= Cardinality(Counted)

LEMMA CountedFinite ==
  ASSUME ReaderTypeOK
  PROVE  IsFiniteSet(Counted) /\ Cardinality(Counted) \in Nat /\ Cardinality(Counted) <= seqCounter
<1>1. seqCounter \in Int /\ seqCounter - 1 \in Int /\ seqCounter \in Nat
  BY DEF ReaderTypeOK
<1>2. IsFiniteSet(0..(seqCounter - 1)) /\ Cardinality(0..(seqCounter - 1)) = seqCounter
  BY <1>1, FS_Interval
<1>3. Counted \in SUBSET (0..(seqCounter - 1))
  BY DEF Counted
<1>4. IsFiniteSet(Counted) /\ Cardinality(Counted) <= Cardinality(0..(seqCounter - 1))
  BY <1>2, <1>3, FS_Subset
<1> QED
  BY <1>2, <1>4, FS_CardinalityType

(* What the steps outside the callback and the numbering leave alone.      *)
SilentStep ==
  /\ UNCHANGED <<seqCounter, stamp, total, cb, loaded>>
  /\ \A h \in Hubs : thread'[h] = "deliver" <=> thread[h] = "deliver"

LEMMA ControllerSilent ==
  ASSUME EngineTypeOK, ControlInv, Controller
  PROVE  SilentStep \/ OpenBegin \/ OpenDone
<1> USE DEF SilentStep, statsVars
<1>t. ReaderTypeOK
  BY DEF EngineTypeOK
<1>1. CASE Calling
  BY <1>1 DEF Calling, CallStart, CallEnumerate, CallStop, CallDestroy, readerVars, threadVars, streamVars
<1>2. CASE StopDone \/ ClearDone \/ OpenFails \/ StartDone
  BY <1>2 DEF StopDone, ClearDone, OpenFails, StartDone, readerVars, threadVars, streamVars
<1>3. ASSUME NEW h \in Hubs, StopNext(h) \/ ClearNext(h) \/ OpenNext(h) \/ StartNext(h)
      PROVE  SilentStep
  <2>1. OwnerStep(h) /\ UNCHANGED statsVars
    BY <1>3 DEF StopNext, ClearNext, OpenNext, StartNext, OwnerStep, StopStep
  <2> QED
    BY <1>t, <2>1, OwnerSilent DEF Silent
<1>4. ASSUME NEW h \in Hubs, StartRefused(h)
      PROVE  SilentStep
  BY <1>4 DEF StartRefused, readerVars, threadVars, streamVars
<1> QED
  BY <1>1, <1>2, <1>3, <1>4 DEF Controller, Calling

LEMMA LoopSilent ==
  ASSUME EngineTypeOK, NEW h \in Hubs, LoopStep(h)
  PROVE  SilentStep \/ Stamp(h)
<1>t. ReaderTypeOK
  BY DEF EngineTypeOK
<1>1. CASE Arrive(h)
  BY <1>1 DEF LoopStep, Arrive, SilentStep, statsVars, threadVars, streamVars
<1>2. CASE ThreadStep(h) /\ ~Stamp(h) /\ ~Deliver(h)
  BY <1>2, <1>t, ThreadSilent DEF LoopStep, SilentStep, Silent, statsVars
<1>3. Deliver(h) => thread[h] = "deliver"
  BY DEF Deliver, Advance
<1>4. thread[h] = "deliver" => Arrive(h)
  BY DEF LoopStep, IssueRead, HeaderRead, ReadFails, Check, PacketRead, Stamp, Exit, Advance
<1> QED
  BY <1>1, <1>2, <1>3, <1>4 DEF LoopStep, ThreadStep

LEMMA SilentCounts ==
  ASSUME CountInv, SilentStep, active' => active
  PROVE  CountInv'
<1>1. Uncounted' = Uncounted
  BY DEF SilentStep, Uncounted
<1>2. Counted' = Counted
  BY <1>1 DEF SilentStep, Counted
<1> QED
  BY <1>2 DEF SilentStep, CountInv

(* A thread takes a number: it is one more, and not counted.               *)
LEMMA StampCounts ==
  ASSUME ReaderTypeOK, CountInv, NEW h \in Hubs, Stamp(h), UNCHANGED statsVars, active' = active
  PROVE  CountInv'
<1>1. /\ thread[h] = "stamp" /\ thread' = [thread EXCEPT ![h] = "deliver"]
      /\ stamp' = [stamp EXCEPT ![h] = seqCounter] /\ seqCounter' = seqCounter + 1
      /\ UNCHANGED <<total, cb, loaded>>
  BY DEF Stamp, Advance, statsVars
<1>2. /\ thread'[h] = "deliver" /\ stamp'[h] = seqCounter /\ seqCounter \in Nat
      /\ \A g \in Hubs : g # h => thread'[g] = thread[g] /\ stamp'[g] = stamp[g]
  BY <1>1 DEF ReaderTypeOK
<1>3. cb[h] = "load"
  BY <1>1 DEF CountInv
<1>4. Uncounted' = Uncounted \cup {h} /\ h \notin Uncounted
  BY <1>1, <1>2, <1>3 DEF Uncounted
<1>5. {stamp'[g] : g \in Uncounted'} = {stamp[g] : g \in Uncounted} \cup {seqCounter}
  <2>1. \A g \in Uncounted : g \in Hubs /\ g # h
    BY <1>4 DEF Uncounted
  <2> QED
    BY <1>2, <1>4, <2>1
<1>6. 0..(seqCounter' - 1) = (0..(seqCounter - 1)) \cup {seqCounter}
  BY <1>1, <1>2
<1>7. seqCounter \notin 0..(seqCounter - 1)
  BY <1>2
<1>8. Counted' = Counted
  BY <1>5, <1>6, <1>7 DEF Counted
<1> QED
  BY <1>1, <1>2, <1>8 DEF CountInv

(* A thread stores the count: its event is one more that is counted.       *)
LEMMA StoreCounts ==
  ASSUME EngineTypeOK, RInv, CountInv, NEW h \in Hubs, Store(h)
  PROVE  CountInv'
<1>1. /\ cb[h] = "store" /\ thread[h] = "deliver"
      /\ cb' = [cb EXCEPT ![h] = "emit"] /\ total' = loaded[h] + 1
      /\ UNCHANGED <<thread, stamp, seqCounter, loaded, active>>
  BY DEF Store, CountInv, readerVars, controlVars, threadVars, streamVars
<1>2. cb'[h] = "emit" /\ \A g \in Hubs : g # h => cb'[g] = cb[g]
  BY <1>1 DEF EngineTypeOK
<1>3. Uncounted' = Uncounted \ {h} /\ h \in Uncounted
  BY <1>1, <1>2 DEF Uncounted
<1>4. stamp[h] \in 0..(seqCounter - 1) /\ \A g \in Uncounted' : stamp[g] # stamp[h]
  <2>1. stamp[h] \in Nat /\ seqCounter \in Nat
    BY DEF RInv, ReaderTypeOK
  <2>2. stamp[h] < seqCounter
    BY <1>1 DEF RInv, HeldInv
  <2>3. \A g \in Uncounted' : g \in Hubs /\ g # h /\ thread[g] = "deliver"
    BY <1>3 DEF Uncounted
  <2> QED
    BY <1>1, <2>1, <2>2, <2>3 DEF RInv, HeldInv
<1>5. {stamp'[g] : g \in Uncounted'} = {stamp[g] : g \in Uncounted} \ {stamp[h]}
  BY <1>1, <1>3, <1>4
<1>6. Counted' = Counted \cup {stamp[h]} /\ stamp[h] \notin Counted
  BY <1>1, <1>3, <1>4, <1>5 DEF Counted
<1>7. /\ IsFiniteSet(Counted) /\ Cardinality(Counted) \in Nat
      /\ Cardinality(Counted') = Cardinality(Counted) + 1
  BY <1>6, CountedFinite, FS_AddElement DEF RInv
<1>8. \A g \in Hubs : loaded[g] \in Nat
  BY DEF EngineTypeOK
<1> QED
  BY <1>1, <1>2, <1>7, <1>8 DEF CountInv

LEMMA CountStep ==
  ASSUME EngineTypeOK, RInv, QuietInv, BetweenInv, CountInv, [EngineNext]_engineVars
  PROVE  CountInv'
<1>t. /\ ReaderTypeOK /\ Cardinality(Counted) \in Nat
      /\ cb \in [Hubs -> {"load", "store", "emit"}] /\ loaded \in [Hubs -> Nat] /\ total \in Nat
      /\ thread \in [Hubs -> Alive \cup {"none", "ended"}]
  BY CountedFinite DEF RInv, EngineTypeOK, ReaderTypeOK
<1>q. ~active => \A h \in Hubs : thread[h] # "deliver" /\ cb[h] = "load"
  <2>1. ~active => \A h \in Hubs : thread[h] # "deliver"
    BY DEF QuietInv, QuietAll
  <2>2. \A h \in Hubs : thread[h] # "deliver" => cb[h] = "load"
    BY DEF CountInv
  <2> QED
    BY <2>1, <2>2
<1>1. CASE OpenDone
  <2>1. /\ UNCHANGED <<thread, cb, stamp, seqCounter>>
        /\ active' => active \/ total' = 0
        /\ ~active
    BY <1>1 DEF OpenDone, readerVars, threadVars, streamVars, BetweenInv
  <2>2. Counted' = Counted
    BY <2>1 DEF Counted, Uncounted
  <2> QED
    BY <1>t, <1>q, <2>1, <2>2 DEF CountInv
<1>2. CASE OpenBegin
  <2>1. UNCHANGED <<thread, cb>> /\ ~active'
    BY <1>2 DEF OpenBegin, NewMultiReader, BetweenInv, statsVars, threadVars
  <2> QED
    BY <2>1 DEF CountInv
<1>3. CASE Controller /\ SilentStep /\ ~OpenDone
  <2>1. active' => active
    BY <1>3 DEF Controller, CallStart, CallEnumerate, CallStop, CallDestroy, StopDone, ClearDone,
                OpenFails, OpenBegin, StartDone, StopNext, ClearNext, OpenNext, StartNext, StartRefused
  <2> QED
    BY <1>3, <2>1, SilentCounts
<1>4. ASSUME NEW h \in Hubs, Load(h) PROVE CountInv'
  <2>1. /\ UNCHANGED <<thread, stamp, seqCounter, total, active>>
        /\ cb[h] = "load" /\ cb' = [cb EXCEPT ![h] = "store"] /\ thread[h] = "deliver"
        /\ loaded' = [loaded EXCEPT ![h] = total]
    BY <1>4 DEF Load, readerVars, controlVars, threadVars, streamVars
  <2>2. /\ cb'[h] = "store" /\ loaded'[h] = total
        /\ \A g \in Hubs : g # h => cb'[g] = cb[g] /\ loaded'[g] = loaded[g]
    BY <1>t, <2>1
  <2>3. Uncounted' = Uncounted
    BY <2>1, <2>2 DEF Uncounted
  <2>4. Counted' = Counted
    BY <2>1, <2>3 DEF Counted
  <2> QED
    BY <2>1, <2>2, <2>4 DEF CountInv
<1>5. ASSUME NEW h \in Hubs, Store(h) PROVE CountInv'
  BY <1>5, StoreCounts
<1>6. ASSUME NEW h \in Hubs, Emit(h) PROVE CountInv'
  <2>1. /\ UNCHANGED <<stamp, seqCounter, total, loaded, active>>
        /\ cb[h] = "emit" /\ cb' = [cb EXCEPT ![h] = "load"]
        /\ thread' = [thread EXCEPT ![h] = "check"]
    BY <1>6 DEF Emit, Deliver, Advance, controlVars
  <2>2. /\ cb'[h] = "load" /\ thread'[h] = "check"
        /\ \A g \in Hubs : g # h => cb'[g] = cb[g] /\ thread'[g] = thread[g]
    BY <1>t, <2>1
  <2>3. Uncounted' = Uncounted
    BY <2>1, <2>2 DEF Uncounted
  <2>4. Counted' = Counted
    BY <2>1, <2>3 DEF Counted
  <2> QED
    BY <2>1, <2>2, <2>4 DEF CountInv
<1>7. ASSUME NEW h \in Hubs, LoopStep(h) PROVE CountInv'
  <2>1. active' = active /\ UNCHANGED statsVars
    BY <1>7 DEF LoopStep, controlVars
  <2> QED
    BY <1>7, <1>t, <2>1, LoopSilent, SilentCounts, StampCounts
<1>8. CASE UNCHANGED engineVars
  <2>1. SilentStep /\ active' = active
    BY <1>8 DEF engineVars, SilentStep, readerVars, controlVars, statsVars, threadVars, streamVars
  <2> QED
    BY <2>1, SilentCounts
<1> QED
  BY <1>1, <1>2, <1>3, <1>4, <1>5, <1>6, <1>7, <1>8, ControllerSilent DEF EngineNext, RInv

(* With a single hub there is one thread to count, and no count is lost.   *)
SoleInv ==
  active => \A h \in Hubs : open = {h} =>
    /\ cb[h] = "load"  => total = Len(log)
    /\ cb[h] = "store" => total = Len(log) /\ loaded[h] = total
    /\ cb[h] = "emit"  => total = Len(log) + 1

LEMMA SoleStep ==
  ASSUME EngineTypeOK, RInv, QuietInv, BetweenInv, StartInv, CountInv, SoleInv, [EngineNext]_engineVars
  PROVE  SoleInv'
<1>t. /\ ReaderTypeOK
      /\ cb \in [Hubs -> {"load", "store", "emit"}] /\ loaded \in [Hubs -> Nat] /\ total \in Nat
      /\ log \in Seq([hub : Hubs, seq : Nat]) /\ stamp \in [Hubs -> Nat]
  BY DEF RInv, EngineTypeOK, ReaderTypeOK
<1>o. \A g, h \in Hubs : (open = {h} /\ thread[g] = "deliver") => g = h
  <2>1. \A g \in Hubs : thread[g] = "deliver" => g \in open
    BY DEF RInv, ControlInv
  <2> QED
    BY <2>1
<1>1. CASE OpenDone
  <2>1. cb' = cb /\ log' = <<>>
    BY <1>1 DEF OpenDone, readerVars, streamVars, StartInv
  <2>0. active' => total' = 0
    BY <1>1 DEF OpenDone, BetweenInv
  <2>2. \A h \in Hubs : thread[h] # "deliver"
    BY <1>1 DEF OpenDone, BetweenInv, QuietInv, QuietAll
  <2>3. \A h \in Hubs : cb'[h] = "load"
    BY <2>1, <2>2 DEF CountInv
  <2>4. Len(log') = 0
    BY <2>1
  <2>5. SUFFICES ASSUME active', NEW h \in Hubs PROVE total' = Len(log') /\ cb'[h] = "load"
    BY DEF SoleInv
  <2> QED
    BY <2>0, <2>3, <2>4, <2>5
<1>2. ASSUME UNCHANGED <<cb, log, total, loaded>>, active' => active /\ open' = open
      PROVE  SoleInv'
  BY <1>2 DEF SoleInv
<1>3. ASSUME Controller, ~OpenDone PROVE SoleInv'
  <2>1. CASE Calling
    BY <1>2, <2>1 DEF Calling, CallStart, CallEnumerate, CallStop, CallDestroy, statsVars,
                readerVars, ownerVars, streamVars
  <2>2. CASE StopDone \/ ClearDone \/ OpenFails \/ StartDone
    BY <1>2, <2>2 DEF StopDone, ClearDone, OpenFails, StartDone, statsVars, readerVars, ownerVars, streamVars
  <2>3. CASE OpenBegin
    BY <2>3 DEF OpenBegin, BetweenInv, SoleInv
  <2>4. ASSUME NEW h \in Hubs, StopNext(h) PROVE SoleInv'
    BY <1>2, <2>4 DEF StopNext, StopBegin, StopIoctl, StopCancel, StopEarly, StopJoin, streamVars, statsVars
  <2>5. ASSUME NEW h \in Hubs, ClearNext(h) \/ OpenNext(h) PROVE SoleInv'
    BY <2>5 DEF ClearNext, OpenNext, BetweenInv, SoleInv
  <2>6. ASSUME NEW h \in Hubs, StartNext(h) \/ StartRefused(h) PROVE SoleInv'
    BY <1>2, <2>6 DEF StartNext, StartRefused, Start, streamVars, statsVars, readerVars, ownerVars
  <2> QED
    BY <1>3, <2>1, <2>2, <2>3, <2>4, <2>5, <2>6 DEF Controller, Calling
<1>4. ASSUME NEW h \in Hubs, Load(h) PROVE SoleInv'
  <2>1. /\ UNCHANGED <<open, log, total, active>>
        /\ cb[h] = "load" /\ cb' = [cb EXCEPT ![h] = "store"] /\ thread[h] = "deliver"
        /\ loaded' = [loaded EXCEPT ![h] = total]
    BY <1>4 DEF Load, readerVars, controlVars, ownerVars, streamVars
  <2> QED
    BY <1>t, <1>o, <2>1 DEF SoleInv
<1>5. ASSUME NEW h \in Hubs, Store(h) PROVE SoleInv'
  <2>1. /\ UNCHANGED <<open, log, loaded, active>> /\ thread[h] = "deliver"
        /\ cb[h] = "store" /\ cb' = [cb EXCEPT ![h] = "emit"] /\ total' = loaded[h] + 1
    BY <1>5 DEF Store, CountInv, readerVars, controlVars, ownerVars, streamVars
  <2> QED
    BY <1>t, <1>o, <2>1 DEF SoleInv
<1>6. ASSUME NEW h \in Hubs, Emit(h) PROVE SoleInv'
  <2>1. /\ UNCHANGED <<open, total, loaded, active>> /\ thread[h] = "deliver"
        /\ cb[h] = "emit" /\ cb' = [cb EXCEPT ![h] = "load"]
        /\ log' = Append(log, [hub |-> h, seq |-> stamp[h]])
    BY <1>6 DEF Emit, Deliver, Advance, controlVars, ownerVars
  <2>2. Len(log') = Len(log) + 1
    BY <1>t, <2>1
  <2> QED
    BY <1>t, <1>o, <2>1, <2>2 DEF SoleInv
<1>7. ASSUME NEW h \in Hubs, LoopStep(h) PROVE SoleInv'
  BY <1>2, <1>7 DEF LoopStep, IssueRead, HeaderRead, ReadFails, Check, PacketRead, Stamp, Exit, Arrive,
                controlVars, statsVars, ownerVars, streamVars
<1>8. CASE UNCHANGED engineVars
  BY <1>2, <1>8 DEF engineVars, readerVars, controlVars, statsVars, ownerVars, streamVars
<1> QED
  BY <1>1, <1>3, <1>4, <1>5, <1>6, <1>7, <1>8 DEF EngineNext

(* The unlocked counter never counts more events than the capture has      *)
(* numbered, for every set of hubs; and with one hub it counts them all.   *)
THEOREM StatsSoundCorrect == EngineSpec => []StatsSound
<1>1. EngineInit => BetweenInv /\ StartInv /\ CountInv /\ SoleInv
  BY DEF EngineInit, ReaderInit, BetweenInv, StartInv, CountInv, SoleInv
<1>2. RInv /\ QuietInv /\ [EngineNext]_engineVars => QuietInv'
  BY QuietStep
<1>3. EngineTypeOK /\ QuietInv /\ BetweenInv /\ StartInv /\ [EngineNext]_engineVars => StartInv'
  BY StartStep
<1>4. /\ EngineTypeOK /\ RInv /\ QuietInv /\ BetweenInv /\ CountInv /\ [EngineNext]_engineVars
      => CountInv'
  BY CountStep
<1>5. /\ EngineTypeOK /\ RInv /\ QuietInv /\ BetweenInv /\ StartInv /\ CountInv /\ SoleInv
      /\ [EngineNext]_engineVars
      => SoleInv'
  BY SoleStep
<1>6. EngineTypeOK /\ CountInv /\ SoleInv => StatsSound
  <2> SUFFICES ASSUME EngineTypeOK, CountInv, SoleInv PROVE StatsSound
    OBVIOUS
  <2>1. Cardinality(Counted) \in Nat /\ Cardinality(Counted) <= seqCounter
    BY CountedFinite DEF EngineTypeOK
  <2>2. total \in Nat /\ seqCounter \in Nat
    BY DEF EngineTypeOK, ReaderTypeOK
  <2> QED
    BY <2>1, <2>2 DEF CountInv, SoleInv, StatsSound
<1> QED
  BY <1>1, <1>2, <1>3, <1>4, <1>5, <1>6, QuietInit, BetweenStep, ReadersInEngine,
     EngineTypeCorrect, PTL DEF EngineSpec
=============================================================================
