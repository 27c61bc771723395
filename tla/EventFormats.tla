---------------------------- MODULE EventFormats ----------------------------
(***************************************************************************)
(* The forms an event takes: the USBPcap packet the driver writes, the     *)
(* event PcapStream makes of it, the pcap record the command line exports  *)
(* (export_engine.cpp), the JSON the core sends, and the pcap record the   *)
(* GUI server makes of that JSON (server.js).                              *)
(*                                                                         *)
(* A packet is a record of its header fields; "room" is the length of its  *)
(* header beyond the 27 bytes that every transfer type has.                *)
(***************************************************************************)
EXTENDS Integers, Sequences

CONSTANTS
  Packets,     \* the packets the driver may write
  NoPacket,
  JsonBytes,   \* the bytes of data EventToJson sends (4096)
  ExactBelow,  \* integers below are exact in JavaScript (2^53)
  Grain        \* the spacing of larger ones (2048 for kernel pointers)

ISO == 0  INT == 1  CTRL == 2  BULK == 3
SETUP == 0

Isochs == [frame : Nat, packets : Nat, errors : Nat]
NoIsoch == [frame |-> 0, packets |-> 0, errors |-> 0]
NoSetup == <<0, 0, 0, 0, 0, 0, 0, 0>>

Packet == [irp : Nat, status : Nat, function : Nat, info : Nat, bus : Nat, device : Nat,
           endpoint : Nat, transfer : Nat, dataLength : Nat, room : Nat, stage : Nat,
           isoch : Isochs, data : Seq(Nat), sec : Nat, usec : Nat]

ASSUME PacketsAssumption ==
  /\ \A p \in Packets : p \in Packet
  /\ NoPacket \notin Packets
  /\ JsonBytes \in Nat /\ ExactBelow \in Nat /\ Grain \in Nat \ {0}

-----------------------------------------------------------------------------
(* PcapStream: ReadNextPacket and RecordToEvent.                           *)

\* (mutant of Stage: the stage byte is expected behind a longer header)
StageFurther(p) == IF p.transfer = CTRL /\ p.room >= 2 THEN p.stage ELSE 0

Stage(p) == IF p.transfer = CTRL /\ p.room >= 1 THEN p.stage ELSE 0

\* The setup packet is the start of the data of a SETUP stage.
Setup(p) == IF p.transfer = CTRL /\ Stage(p) = SETUP /\ Len(p.data) >= 8
            THEN SubSeq(p.data, 1, 8) ELSE NoSetup

Isoch(p) == IF p.transfer = ISO /\ p.room >= 12 THEN p.isoch ELSE NoIsoch

Event(p) ==
  [irp |-> p.irp, bus |-> p.bus, device |-> p.device, endpoint |-> p.endpoint % 128,
   transfer |-> p.transfer, function |-> p.function, status |-> p.status,
   dataLength |-> p.dataLength, up |-> p.info % 2 = 1, stage |-> Stage(p),
   setup |-> Setup(p), isoch |-> Isoch(p), data |-> p.data,
   timestamp |-> p.sec * 1000000 + p.usec]

-----------------------------------------------------------------------------
(* The command line's export.                                              *)

MapTransferType(e) == IF e.transfer \in {ISO, INT, CTRL} THEN e.transfer ELSE BULK

BuildUsbPcapPayload(e) ==
  LET t == MapTransferType(e)
  IN  [irp |-> e.irp, status |-> e.status, function |-> e.function,
       info |-> IF e.up THEN 1 ELSE 0, bus |-> e.bus, device |-> e.device,
       endpoint |-> e.endpoint, transfer |-> t, dataLength |-> Len(e.data),
       room |-> IF t = CTRL THEN 1 ELSE IF t = ISO THEN 12 ELSE 0,
       stage |-> IF t = CTRL THEN e.stage ELSE 0,
       isoch |-> IF t = ISO THEN e.isoch ELSE NoIsoch,
       data |-> e.data,
       sec |-> e.timestamp \div 1000000, usec |-> e.timestamp % 1000000]

-----------------------------------------------------------------------------
(* The core's JSON, as JavaScript reads it.                                *)

\* The nearest double, ties to even.
AsDouble(n) ==
  LET q == n \div Grain  r == n % Grain
  IN  IF n < ExactBelow THEN n
      ELSE IF 2 * r < Grain \/ (2 * r = Grain /\ q % 2 = 0) THEN q * Grain
      ELSE (q + 1) * Grain

UsbTransferTypeName(t) == CASE t = ISO -> "ISO" [] t = INT -> "INT" [] t = CTRL -> "CTRL"
                            [] t = BULK -> "BULK" [] OTHER -> "???"

Phase(e) == IF e.transfer = CTRL
            THEN CASE e.stage = 0 -> "SETUP" [] e.stage = 1 -> "DATA" [] e.stage = 2 -> "STATUS"
                   [] e.stage = 3 -> "COMPLETE" [] OTHER -> "CONTROL"
            ELSE IF e.up THEN "COMPLETE" ELSE "REQUEST"

Prefix(s, n) == SubSeq(s, 1, IF Len(s) < n THEN Len(s) ELSE n)

EventToJson(e) ==
  [irpId |-> AsDouble(e.irp), timestamp |-> e.timestamp, statusCode |-> e.status,
   direction |-> IF e.up THEN "<<<" ELSE ">>>", phase |-> Phase(e), bus |-> e.bus,
   deviceAddress |-> e.device, endpoint |-> e.endpoint,
   transferType |-> UsbTransferTypeName(e.transfer), dataLength |-> e.dataLength,
   stage |-> IF e.transfer = CTRL THEN e.stage ELSE 0,
   isoch |-> IF e.transfer = ISO THEN e.isoch ELSE NoIsoch,
   data |-> Prefix(e.data, JsonBytes)]

-----------------------------------------------------------------------------
(* The GUI server's export of it.                                          *)

\* It knows long names only, which the core's names are not.
MapTransferName(name) == CASE name = "isochronous" -> ISO [] name = "interrupt" -> INT
                           [] name = "control" -> CTRL [] OTHER -> BULK

\* (mutant of InfoOf: compared with the name of the direction)
InfoOfName(j) == IF j.direction = "in" THEN 1 ELSE 0

InfoOf(j) == IF j.direction = "<<<" THEN 1 ELSE 0

\* The URB function is a name in the JSON, and counts as 0.
WebUsbPcapPayload(j) ==
  LET t == MapTransferName(j.transferType)
  IN  [irp |-> j.irpId, status |-> j.statusCode, function |-> 0, info |-> InfoOf(j),
       bus |-> j.bus, device |-> j.deviceAddress, endpoint |-> j.endpoint,
       transfer |-> t, dataLength |-> Len(j.data),
       room |-> IF t = CTRL THEN 1 ELSE IF t = ISO THEN 12 ELSE 0,
       stage |-> IF t = CTRL THEN j.stage ELSE 0,
       isoch |-> IF t = ISO THEN j.isoch ELSE NoIsoch,
       data |-> j.data,
       sec |-> j.timestamp \div 1000000, usec |-> j.timestamp % 1000000]

-----------------------------------------------------------------------------
(* Any packet of the driver may come.                                      *)

VARIABLE packet

FormatsInit == packet = NoPacket
Record == packet' \in Packets
FormatsSpec == FormatsInit /\ [][Record]_packet

Preserved == {"irp", "bus", "device", "endpoint", "function", "status", "up", "stage",
              "setup", "isoch", "data", "timestamp"}

\* An exported capture, read again, has the events that were captured: with
\* their type's details, their setup packet and their exact time, whatever the
\* header the driver wrote was like.  Only the length becomes that of the data
\* that was kept, and a transfer type the program does not know becomes BULK.
ExportReadsBack ==
  packet # NoPacket =>
    LET e == Event(packet)
        r == Event(BuildUsbPcapPayload(e))
    IN  /\ \A f \in Preserved : r[f] = e[f]
        /\ r.dataLength = Len(e.data) /\ r.transfer = MapTransferType(e)

\* What the export of the GUI keeps: the transfer type, the URB function, the
\* details of control and isochronous transfers and IRP numbers beyond the
\* exact integers of JavaScript are lost on the way.
WebExportReadsBack ==
  packet # NoPacket =>
    LET e == Event(packet)
        r == Event(WebUsbPcapPayload(EventToJson(e)))
    IN  /\ \A f \in {"status", "up", "bus", "device", "endpoint", "timestamp"} : r[f] = e[f]
        /\ r.data = Prefix(e.data, JsonBytes) /\ r.dataLength = Len(r.data)
        /\ e.irp < ExactBelow => r.irp = e.irp
        /\ e.transfer = BULK => r.transfer = BULK
=============================================================================
