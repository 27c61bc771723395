------------------------- MODULE EventFormatsProofs -------------------------
(***************************************************************************)
(* That an exported capture reads back, for every packet a driver may      *)
(* write: any data, any header, any time; the proof compares the two       *)
(* events field by field.  That the filter evaluators agree, for every     *)
(* such packet and every token they read alike, from key to key.           *)
(***************************************************************************)
EXTENDS EventFilters, TLAPS

LEMMA PacketType == ASSUME NEW p \in Packets PROVE p \in Packet
  BY PacketsAssumption

(* Microseconds split into seconds and a rest give the time again.         *)
LEMMA TimeSplits ==
  ASSUME NEW t \in Nat
  PROVE  (t \div 1000000) * 1000000 + (t % 1000000) = t
  BY SMT

(* The details of a transfer survive the export, because its header is as  *)
(* long as its type requires.                                              *)
LEMMA DetailsReadBack ==
  ASSUME NEW p \in Packet, NEW e, e = Event(p), NEW x, x = BuildUsbPcapPayload(e)
  PROVE  Stage(x) = e.stage /\ Isoch(x) = e.isoch /\ Setup(x) = e.setup
  <1>1. e.transfer = p.transfer /\ e.stage = Stage(p) /\ e.isoch = Isoch(p)
          /\ e.setup = Setup(p) /\ e.data = p.data
    BY DEF Event
  <1>2. /\ x.transfer = MapTransferType(e) /\ x.data = e.data
        /\ x.room = IF x.transfer = CTRL THEN 1 ELSE IF x.transfer = ISO THEN 12 ELSE 0
        /\ x.stage = IF x.transfer = CTRL THEN e.stage ELSE 0
        /\ x.isoch = IF x.transfer = ISO THEN e.isoch ELSE NoIsoch
    BY DEF BuildUsbPcapPayload
  <1>3. /\ (x.transfer = CTRL) <=> (p.transfer = CTRL)
        /\ (x.transfer = ISO) <=> (p.transfer = ISO)
    BY <1>1, <1>2 DEF MapTransferType, ISO, INT, CTRL, BULK
  <1>4. Stage(x) = e.stage
    BY <1>1, <1>2, <1>3 DEF Stage, ISO, CTRL
  <1>5. Isoch(x) = e.isoch
    BY <1>1, <1>2, <1>3 DEF Isoch, ISO, CTRL
  <1>6. Setup(x) = e.setup
    BY <1>1, <1>2, <1>3, <1>4 DEF Setup
  <1>7. QED BY <1>4, <1>5, <1>6

(* The statement for one packet.                                           *)
LEMMA ReadsBack ==
  ASSUME NEW p \in Packet, NEW e, e = Event(p), NEW x, x = BuildUsbPcapPayload(e),
         NEW r, r = Event(x)
  PROVE  /\ \A f \in Preserved : r[f] = e[f]
         /\ r.dataLength = Len(e.data) /\ r.transfer = MapTransferType(e)
  <1>1. p.endpoint \in Nat /\ p.sec \in Nat /\ p.usec \in Nat
    BY DEF Packet
  <1>2. /\ e.timestamp = p.sec * 1000000 + p.usec /\ e.endpoint = p.endpoint % 128
        /\ e.up = (p.info % 2 = 1)
    BY DEF Event
  <1>3. x.sec * 1000000 + x.usec = e.timestamp
    <2>1. e.timestamp \in Nat BY <1>1, <1>2
    <2>2. x.sec = e.timestamp \div 1000000 /\ x.usec = e.timestamp % 1000000
      BY DEF BuildUsbPcapPayload
    <2>3. QED BY <2>1, <2>2, TimeSplits
  <1>4. x.endpoint % 128 = e.endpoint
    <2>1. x.endpoint = e.endpoint BY DEF BuildUsbPcapPayload
    <2>2. QED BY <2>1, <1>1, <1>2
  <1>5. (x.info % 2 = 1) = e.up
    <2>1. e.up \in BOOLEAN BY <1>2
    <2>2. x.info = IF e.up THEN 1 ELSE 0 BY DEF BuildUsbPcapPayload
    <2>3. QED BY <2>1, <2>2
  <1>6. Stage(x) = e.stage /\ Isoch(x) = e.isoch /\ Setup(x) = e.setup
    BY DetailsReadBack
  <1>7. /\ x.irp = e.irp /\ x.bus = e.bus /\ x.device = e.device
        /\ x.transfer = MapTransferType(e) /\ x.function = e.function
        /\ x.status = e.status /\ x.dataLength = Len(e.data) /\ x.data = e.data
    BY DEF BuildUsbPcapPayload
  <1>8. /\ r.irp = x.irp /\ r.bus = x.bus /\ r.device = x.device
        /\ r.endpoint = x.endpoint % 128 /\ r.transfer = x.transfer
        /\ r.function = x.function /\ r.status = x.status
        /\ r.dataLength = x.dataLength /\ r.up = (x.info % 2 = 1)
        /\ r.stage = Stage(x) /\ r.setup = Setup(x) /\ r.isoch = Isoch(x)
        /\ r.data = x.data /\ r.timestamp = x.sec * 1000000 + x.usec
    BY DEF Event
  <1>9. \A f \in Preserved : r[f] = e[f]
    BY <1>3, <1>4, <1>5, <1>6, <1>7, <1>8 DEF Preserved
  <1>10. QED BY <1>7, <1>8, <1>9

(* Exported captures read back: pcap_parser.cpp reads what                 *)
(* export_engine.cpp writes, for every packet.                             *)
THEOREM ExportReadsBackCorrect == FormatsSpec => []ExportReadsBack
  <1> DEFINE TypeOK == packet \in Packets \cup {NoPacket}
  <1>1. FormatsInit => TypeOK
    BY DEF FormatsInit
  <1>2. TypeOK /\ [Record]_packet => TypeOK'
    BY DEF Record
  <1>3. TypeOK => ExportReadsBack
    <2>1. SUFFICES ASSUME packet \in Packets
                   PROVE  ExportReadsBack
      BY DEF ExportReadsBack
    <2>2. packet \in Packet BY <2>1, PacketType
    <2>3. QED BY <2>2, ReadsBack DEF ExportReadsBack
  <1>4. QED BY <1>1, <1>2, <1>3, PTL DEF FormatsSpec

(* What the GUI server's export gives back of one packet.                  *)
LEMMA WebReadsBack ==
  ASSUME NEW p \in Packet, NEW e, e = Event(p), NEW j, j = EventToJson(e),
         NEW x, x = WebUsbPcapPayload(j), NEW r, r = Event(x)
  PROVE  /\ \A f \in {"status", "up", "bus", "device", "endpoint", "timestamp"} : r[f] = e[f]
         /\ r.data = Prefix(e.data, JsonBytes) /\ r.dataLength = Len(r.data)
         /\ e.irp < ExactBelow => r.irp = e.irp
         /\ e.transfer = BULK => r.transfer = BULK
  <1>1. p.endpoint \in Nat /\ p.sec \in Nat /\ p.usec \in Nat
    BY DEF Packet
  <1>2. /\ e.timestamp = p.sec * 1000000 + p.usec /\ e.endpoint = p.endpoint % 128
        /\ e.up = (p.info % 2 = 1)
    BY DEF Event
  <1>3. /\ j.irpId = AsDouble(e.irp) /\ j.timestamp = e.timestamp /\ j.statusCode = e.status
        /\ j.direction = (IF e.up THEN "<<<" ELSE ">>>") /\ j.bus = e.bus
        /\ j.deviceAddress = e.device /\ j.endpoint = e.endpoint
        /\ j.transferType = UsbTransferTypeName(e.transfer) /\ j.data = Prefix(e.data, JsonBytes)
    BY DEF EventToJson
  <1>4. /\ x.irp = j.irpId /\ x.status = j.statusCode /\ x.info = InfoOf(j) /\ x.bus = j.bus
        /\ x.device = j.deviceAddress /\ x.endpoint = j.endpoint
        /\ x.transfer = MapTransferName(j.transferType) /\ x.dataLength = Len(j.data)
        /\ x.data = j.data /\ x.sec = j.timestamp \div 1000000 /\ x.usec = j.timestamp % 1000000
    BY DEF WebUsbPcapPayload
  <1>5. /\ r.irp = x.irp /\ r.bus = x.bus /\ r.device = x.device
        /\ r.endpoint = x.endpoint % 128 /\ r.transfer = x.transfer
        /\ r.status = x.status /\ r.dataLength = x.dataLength /\ r.up = (x.info % 2 = 1)
        /\ r.data = x.data /\ r.timestamp = x.sec * 1000000 + x.usec
    BY DEF Event
  <1>6. r.timestamp = e.timestamp
    <2>1. e.timestamp \in Nat BY <1>1, <1>2
    <2>2. QED BY <2>1, <1>3, <1>4, <1>5, TimeSplits
  <1>7. r.endpoint = e.endpoint
    BY <1>1, <1>2, <1>3, <1>4, <1>5
  <1>8. r.up = e.up
    <2>1. e.up \in BOOLEAN BY <1>2
    <2>2. x.info = IF e.up THEN 1 ELSE 0
      BY <1>3, <1>4 DEF InfoOf
    <2>3. QED BY <2>1, <2>2, <1>5
  <1>9. e.irp < ExactBelow => r.irp = e.irp
    BY <1>3, <1>4, <1>5 DEF AsDouble
  <1>10. e.transfer = BULK => r.transfer = BULK
    <2>1. UsbTransferTypeName(BULK) = "BULK"
      BY DEF UsbTransferTypeName, ISO, INT, CTRL, BULK
    <2>2. MapTransferName("BULK") = BULK
      BY DEF MapTransferName
    <2>3. QED BY <2>1, <2>2, <1>3, <1>4, <1>5
  <1>11. \A f \in {"status", "up", "bus", "device", "endpoint", "timestamp"} : r[f] = e[f]
    BY <1>3, <1>4, <1>5, <1>6, <1>7, <1>8
  <1>12. r.data = Prefix(e.data, JsonBytes) /\ r.dataLength = Len(r.data)
    BY <1>3, <1>4, <1>5
  <1>13. QED BY <1>9, <1>10, <1>11, <1>12

(* What the GUI server exports (server.js) of the events the core sends    *)
(* reads back in the fields its JSON and its records have room for, for    *)
(* every packet and every bound on the data sent.                          *)
THEOREM WebExportReadsBackCorrect == FormatsSpec => []WebExportReadsBack
  <1> DEFINE TypeOK == packet \in Packets \cup {NoPacket}
  <1>1. FormatsInit => TypeOK
    BY DEF FormatsInit
  <1>2. TypeOK /\ [Record]_packet => TypeOK'
    BY DEF Record
  <1>3. TypeOK => WebExportReadsBack
    <2>1. SUFFICES ASSUME packet \in Packets
                   PROVE  WebExportReadsBack
      BY DEF WebExportReadsBack
    <2>2. packet \in Packet BY <2>1, PacketType
    <2>3. QED BY <2>2, WebReadsBack DEF WebExportReadsBack
  <1>4. QED BY <1>1, <1>2, <1>3, PTL DEF FormatsSpec

-----------------------------------------------------------------------------
(* Filters.                                                                *)

(* A token is tried on a packet of the driver.                             *)
FiltersInv == /\ packet \in Packets \cup {NoPacket} /\ token \in Tokens \cup {NoToken}
              /\ token # NoToken => packet # NoPacket

LEMMA FiltersInvCorrect == Spec => []FiltersInv
  <1>1. Init => FiltersInv
    BY DEF Init, FormatsInit, FiltersInv
  <1>2. FiltersInv /\ [Next]_vars => FiltersInv'
    BY DEF FiltersInv, Next, Capture, Filter, Record, vars
  <1>3. QED BY <1>1, <1>2, PTL DEF Spec

(* What a condition's key makes of it in filter.js and in server.js.        *)
TextKeys == {"protocol", "device", "command", "status"}
NumberKeys == {"len", "deviceid", "seq"}

LEMMA KnownTexts ==
  ASSUME NEW c, c.key \in TextKeys, NEW j
  PROVE  BrowserMatch(c, j) <=> ServerMatch(c, j)
  <1>1. /\ c.key \in {"protocol", "device", "command", "status"}
        /\ c.key \in {"protocol", "device", "command", "status", "phase", "data"}
    BY DEF TextKeys
  <1>2. BrowserMatch(c, j) <=> FoundJs(c.word, JsTexts(j)[c.key])
    BY <1>1, Zenon DEF BrowserMatch
  <1>3. ServerMatch(c, j) <=> FoundJs(c.word, JsTexts(j)[c.key])
    BY <1>1, Zenon DEF ServerMatch
  <1>4. QED BY <1>2, <1>3

LEMMA KnownNumbers ==
  ASSUME NEW c, c.key \in NumberKeys, NEW j, ParseFloat(c.word) = JsNumber(c.word)
  PROVE  BrowserMatch(c, j) <=> ServerMatch(c, j)
  <1>1. /\ c.key \in {"len", "deviceid", "seq"}
        /\ c.key \in {"len", "deviceid", "seq", "endpoint"}
        /\ c.key \notin {"protocol", "device", "command", "status"}
        /\ c.key \notin {"protocol", "device", "command", "status", "phase", "data"}
    BY DEF NumberKeys
  <1>2. BrowserMatch(c, j) <=> Compare(c.op, JsNumbers(j)[c.key], ParseFloat(c.word))
    BY <1>1, Zenon DEF BrowserMatch
  <1>3. ServerMatch(c, j) <=> Compare(c.op, JsNumbers(j)[c.key], JsNumber(c.word))
    BY <1>1, Zenon DEF ServerMatch
  <1>4. QED BY <1>2, <1>3

LEMMA KnownDirection ==
  ASSUME NEW c, c.key = "dir", NEW j
  PROVE  BrowserMatch(c, j) <=> ServerMatch(c, j)
  <1>1. /\ c.key \notin {"protocol", "device", "command", "status", "phase", "data"}
        /\ c.key \notin {"protocol", "device", "command", "status"}
        /\ c.key \notin {"len", "deviceid", "seq"}
        /\ c.key \notin {"len", "deviceid", "seq", "endpoint"}
    OBVIOUS
  <1>2. BrowserMatch(c, j) <=> JsDirection(c.word, j.direction)
    BY <1>1, Zenon DEF BrowserMatch
  <1>3. ServerMatch(c, j) <=> JsDirection(c.word, j.direction)
    BY <1>1, Zenon DEF ServerMatch
  <1>4. QED BY <1>2, <1>3

LEMMA KnownData ==
  ASSUME NEW c, c.key = "data", NEW j, Contains(c.word, Hex(j.data)) <=> FoundJs(c.word, Hex(j.data))
  PROVE  BrowserMatch(c, j) <=> ServerMatch(c, j)
  <1>1. /\ c.key \in {"protocol", "device", "command", "status", "phase", "data"}
        /\ c.key \notin {"protocol", "device", "command", "status"}
        /\ c.key \notin {"len", "deviceid", "seq"} /\ c.key # "dir"
    OBVIOUS
  <1>2. BrowserMatch(c, j) <=> Contains(c.word, Hex(j.data))
    BY <1>1, Zenon DEF BrowserMatch
  <1>3. ServerMatch(c, j) <=> FoundJs(c.word, JsTexts(j)["data"])
    BY <1>1, Zenon DEF ServerMatch
  <1>4. JsTexts(j)["data"] = Hex(j.data)
    BY DEF JsTexts
  <1>5. QED BY <1>2, <1>3, <1>4

LEMMA KnownFreeText ==
  ASSUME NEW c, c.key = "_text", NEW j, ~FoundJs(c.word, j.phase),
         \A key \in {"protocol", "device", "command", "status", "data"} :
           Contains(c.word, JsTexts(j)[key]) <=> FoundJs(c.word, JsTexts(j)[key])
  PROVE  BrowserMatch(c, j) <=> ServerMatch(c, j)
  <1>1. /\ c.key \notin {"protocol", "device", "command", "status", "phase", "data"}
        /\ c.key \notin {"protocol", "device", "command", "status"}
        /\ c.key \notin {"len", "deviceid", "seq"}
        /\ c.key \notin {"len", "deviceid", "seq", "endpoint"}
        /\ c.key # "dir" /\ c.key # "data"
    OBVIOUS
  <1> DEFINE Searched == {"protocol", "device", "command", "status", "data"}
  <1>2. BrowserMatch(c, j) <=> \E key \in Searched : Contains(c.word, JsTexts(j)[key])
    BY <1>1, Zenon DEF BrowserMatch
  <1>3. ServerMatch(c, j) <=> \E key \in DOMAIN JsTexts(j) : FoundJs(c.word, JsTexts(j)[key])
    BY <1>1, Zenon DEF ServerMatch
  <1>4. DOMAIN JsTexts(j) = Searched \cup {"phase"} /\ JsTexts(j)["phase"] = j.phase
    BY DEF JsTexts
  <1>5. ~FoundJs(c.word, JsTexts(j)["phase"])
    BY <1>4
  <1>6. (\E key \in DOMAIN JsTexts(j) : FoundJs(c.word, JsTexts(j)[key]))
          <=> (\E key \in Searched : FoundJs(c.word, JsTexts(j)[key]))
    BY <1>4, <1>5, Zenon
  <1>7. QED BY <1>2, <1>3, <1>6, Zenon

(* A key in quotes is unknown to both.                                     *)
LEMMA UnknownKey ==
  ASSUME NEW c, c.key = "unknown", NEW j
  PROVE  BrowserMatch(c, j) /\ ServerMatch(c, j)
  BY DEF BrowserMatch, ServerMatch

(* The table's evaluator (filter.js) and that of the export (server.js)    *)
(* agree on every documented key, for every event and every token that     *)
(* they read alike.                                                        *)
THEOREM ViewIsExportCorrect == Spec => []ViewIsExport
  <1>1. FiltersInv => ViewIsExport
    <2> SUFFICES ASSUME NEW t \in Tokens, t.key \in Documented, NEW j, ReadAlike(t, j)
                 PROVE  BrowserMatches(t, j) <=> ServerMatches(t, j)
      BY Zenon DEF ViewIsExport, FiltersInv
    <2>1. BrowserParse(t) = ServerParse(t)
      <3>1. t.quotes = "value" => t.op = "=" /\ t.rest = t.value
        BY TokensAssumption DEF ReadAlike
      <3>2. t.quotes = "value" => Condition(t.key, t.negate, "=", t.value) = Plain(t)
        BY <3>1 DEF Plain
      <3>3. QED BY <3>2 DEF BrowserParse, ServerParse
    <2> DEFINE c == BrowserParse(t)
    <2>2. BrowserMatch(c, j) <=> ServerMatch(c, j)
      <3>1. CASE t.key = ""
        <4>1. c.key = "_text" /\ c.word = t.value
          BY <3>1 DEF BrowserParse, FreeText, Condition
        <4> HIDE DEF c
        <4>2. QED BY <3>1, <4>1, KnownFreeText DEF ReadAlike
      <3>2. CASE t.key # "" /\ t.quotes = "all"
        <4>1. c.key = "unknown"
          BY <3>2 DEF BrowserParse, QuotedKey, Condition
        <4> HIDE DEF c
        <4>2. QED BY <4>1, UnknownKey
      <3>3. CASE t.key # "" /\ t.quotes # "all"
        <4>1. c.key = t.key /\ c.word = t.rest
          BY <3>3 DEF BrowserParse, Plain, Condition
        <4> HIDE DEF c
        <4>2. CASE t.key \in TextKeys
          BY <4>1, <4>2, KnownTexts
        <4>3. CASE t.key \in NumberKeys
          <5>1. ParseFloat(c.word) = JsNumber(c.word)
            BY <4>1, <4>3 DEF ReadAlike, NumberKeys
          <5>2. QED BY <4>1, <4>3, <5>1, KnownNumbers
        <4>4. CASE t.key = "dir"
          BY <4>1, <4>4, KnownDirection
        <4>5. CASE t.key = "data"
          BY <4>1, <4>5, KnownData DEF ReadAlike
        <4>6. QED BY <3>3, <4>2, <4>3, <4>4, <4>5 DEF Documented, TextKeys, NumberKeys
      <3>4. QED BY <3>1, <3>2, <3>3
    <2>3. QED BY <2>1, <2>2, Zenon DEF BrowserMatches, ServerMatches, Verdict
  <1>2. QED BY <1>1, FiltersInvCorrect, PTL

(* Data that fits the JSON is sent as it is.                               *)
LEMMA PrefixWhole ==
  ASSUME NEW S, NEW s \in Seq(S), NEW n \in Nat, Len(s) <= n
  PROVE  Prefix(s, n) = s
  <1>1. CASE Len(s) < n
    BY <1>1 DEF Prefix
  <1>2. CASE ~(Len(s) < n)
    <2>1. Len(s) = n BY <1>2
    <2>2. QED BY <1>2, <2>1 DEF Prefix
  <1>3. QED BY <1>1, <1>2

(* What the decoder says of an event it does not know.                     *)
Nothing == ""

(* A pattern that is not empty is found alike by both libraries.           *)
LEMMA SamePattern ==
  ASSUME NEW w, w.js = w.std, w.text # Nothing, NEW text
  PROVE  FoundJs(w, text) <=> FoundStd(w, text)
  BY DEF FoundJs, FoundStd, Nothing

(* The JSON of an event whose data fits it has what the core matches.      *)
LEMMA JsonOf ==
  ASSUME NEW p \in Packet, NEW e, e = Event(p), NEW j, j = EventToJson(e),
         Len(e.data) <= JsonBytes
  PROVE  /\ j.phase = Phase(e) /\ j.direction = (IF e.up THEN "<<<" ELSE ">>>")
         /\ j.bus = e.bus /\ j.deviceAddress = e.device /\ j.endpoint = e.endpoint
         /\ j.dataLength = e.dataLength /\ j.data = e.data
  <1>1. e.data \in Seq(Nat) /\ JsonBytes \in Nat
    BY PacketsAssumption DEF Event, Packet
  <1>2. Prefix(e.data, JsonBytes) = e.data
    BY <1>1, PrefixWhole
  <1>3. QED BY <1>2 DEF EventToJson

PatternKeys == {"protocol", "command", "phase", "data"}
CountKeys == {"len", "deviceid", "seq", "endpoint"}

LEMMA CorePatterns ==
  ASSUME NEW p \in Packet, NEW e, e = Event(p), NEW j, j = EventToJson(e),
         Len(e.data) <= JsonBytes, decoded.protocol # Nothing, decoded.command # Nothing,
         NEW c, c.key \in PatternKeys, c.word.js = c.word.std, c.word.text # Nothing
  PROVE  CoreMatch(c, e) <=> ServerMatch(c, j)
  <1>1. /\ c.key \in {"protocol", "command", "summary", "phase", "transfer", "data"}
        /\ c.key \in {"protocol", "device", "command", "status", "phase", "data"}
    BY DEF PatternKeys
  <1>2. CoreMatch(c, e) <=> FoundStd(c.word, CoreTexts(e)[c.key])
    BY <1>1, Zenon DEF CoreMatch
  <1>3. ServerMatch(c, j) <=> FoundJs(c.word, JsTexts(j)[c.key])
    BY <1>1, Zenon DEF ServerMatch
  <1>4. CoreTexts(e)[c.key] = JsTexts(j)[c.key]
    <2>1. j.phase = Phase(e) /\ j.data = e.data
      BY JsonOf
    <2>2. CASE c.key = "protocol"
      <3>1. JsTexts(j)["protocol"] = decoded.protocol
        BY Zenon DEF JsTexts, Nothing
      <3>2. CoreTexts(e)["protocol"] = decoded.protocol
        BY DEF CoreTexts
      <3>3. QED BY <2>2, <3>1, <3>2
    <2>3. CASE c.key = "command"
      <3>1. JsTexts(j)["command"] = decoded.command
        BY Zenon DEF JsTexts, Nothing
      <3>2. CoreTexts(e)["command"] = decoded.command
        BY Zenon DEF CoreTexts, Nothing
      <3>3. QED BY <2>3, <3>1, <3>2
    <2>4. CASE c.key = "phase"
      BY <2>1, <2>4 DEF CoreTexts, JsTexts
    <2>5. CASE c.key = "data"
      BY <2>1, <2>5 DEF CoreTexts, JsTexts
    <2>6. QED BY <2>2, <2>3, <2>4, <2>5 DEF PatternKeys
  <1>5. QED BY <1>2, <1>3, <1>4, SamePattern

LEMMA CoreCounts ==
  ASSUME NEW p \in Packet, NEW e, e = Event(p), NEW j, j = EventToJson(e),
         Len(e.data) <= JsonBytes,
         NEW c, c.key \in CountKeys, JsNumber(c.word) = Stoull(c.word)
  PROVE  CoreMatch(c, e) <=> ServerMatch(c, j)
  <1>1. /\ c.key \in {"len", "deviceid", "seq", "endpoint"}
        /\ c.key \in {"len", "deviceid", "seq", "endpoint", "device", "bus", "irp"}
        /\ c.key \notin {"protocol", "command", "summary", "phase", "transfer", "data"}
        /\ c.key \notin {"protocol", "device", "command", "status", "phase", "data"}
    BY DEF CountKeys
  <1>2. CoreMatch(c, e) <=> Compare(c.op, CoreNumbers(e)[c.key], Stoull(c.word))
    BY <1>1, Zenon DEF CoreMatch
  <1>3. ServerMatch(c, j) <=> Compare(c.op, JsNumbers(j)[c.key], JsNumber(c.word))
    BY <1>1, Zenon DEF ServerMatch
  <1>4. CoreNumbers(e)[c.key] = JsNumbers(j)[c.key]
    <2>1. /\ j.bus = e.bus /\ j.deviceAddress = e.device /\ j.endpoint = e.endpoint
          /\ j.dataLength = e.dataLength
      BY JsonOf
    <2>2. CASE c.key = "len"
      BY <2>1, <2>2, SMT DEF CoreNumbers, JsNumbers
    <2>3. CASE c.key = "deviceid"
      BY <2>1, <2>3, SMT DEF CoreNumbers, JsNumbers
    <2>4. CASE c.key = "seq"
      BY <2>4, SMT DEF CoreNumbers, JsNumbers
    <2>5. CASE c.key = "endpoint"
      BY <2>1, <2>5, SMT DEF CoreNumbers, JsNumbers
    <2>6. QED BY <2>2, <2>3, <2>4, <2>5 DEF CountKeys
  <1>5. QED BY <1>2, <1>3, <1>4

(* A direction by its name, or one that no direction contains.             *)
LEMMA CoreDirections ==
  ASSUME NEW p \in Packet, NEW e, e = Event(p), NEW j, j = EventToJson(e),
         Len(e.data) <= JsonBytes, NEW c, c.key = "dir",
         \/ Up(c.word) \/ Down(c.word)
         \/ ~FoundJs(c.word, "<<<") /\ ~FoundJs(c.word, ">>>")
  PROVE  CoreMatch(c, e) <=> ServerMatch(c, j)
  <1>1. /\ c.key \notin {"len", "deviceid", "seq", "endpoint"}
        /\ c.key \notin {"len", "deviceid", "seq", "endpoint", "device", "bus", "irp"}
        /\ c.key \notin {"protocol", "command", "summary", "phase", "transfer", "data"}
        /\ c.key \notin {"protocol", "device", "command", "status", "phase", "data"}
    OBVIOUS
  <1>2. CoreMatch(c, e) <=> CoreDirection(c.word, e.up)
    BY <1>1, Zenon DEF CoreMatch
  <1>3. ServerMatch(c, j) <=> JsDirection(c.word, j.direction)
    BY <1>1, Zenon DEF ServerMatch
  <1>4. j.direction = IF e.up THEN "<<<" ELSE ">>>"
    BY JsonOf
  <1>5. e.up \in BOOLEAN
    BY DEF Event
  <1>6. CoreDirection(c.word, e.up) <=> JsDirection(c.word, j.direction)
    <2>1. CASE Up(c.word)
      BY <1>4, <1>5, <2>1 DEF CoreDirection, JsDirection
    <2>2. CASE ~Up(c.word) /\ Down(c.word)
      BY <1>4, <1>5, <2>2 DEF CoreDirection, JsDirection
    <2>3. CASE ~Up(c.word) /\ ~Down(c.word)
      BY <1>4, <2>3 DEF CoreDirection, JsDirection
    <2>4. QED BY <2>1, <2>2, <2>3
  <1>7. QED BY <1>2, <1>3, <1>6

(* The command line's evaluator (filter_engine.cpp) and the GUI server's   *)
(* (server.js) agree on the keys they share, for every packet, time and    *)
(* data that fits the JSON, and every token that they read alike.          *)
THEOREM CoreAgreesCorrect == Spec => []CoreAgrees
  <1>1. FiltersInv => CoreAgrees
    <2> SUFFICES ASSUME FiltersInv, token # NoToken, CoreReadsAlike(token),
                        token.key \in PatternKeys \cup CountKeys \cup {"dir"},
                        decoded.protocol # Nothing, decoded.command # Nothing,
                        Len(Event(packet).data) <= JsonBytes
                 PROVE  CoreMatches(token, Event(packet))
                          <=> ServerMatches(token, EventToJson(Event(packet)))
      <3>1. {"protocol", "command", "dir", "phase", "data", "len", "deviceid", "seq", "endpoint"}
              = PatternKeys \cup CountKeys \cup {"dir"}
        BY DEF PatternKeys, CountKeys
      <3>2. QED BY <3>1, Zenon DEF CoreAgrees, Nothing
    <2>1. packet \in Packet
      BY PacketType DEF FiltersInv
    <2>2. token.key # "" /\ token.quotes = "no"
      BY DEF PatternKeys, CountKeys, CoreReadsAlike
    <2>3. CoreParse(token) = Plain(token) /\ ServerParse(token) = Plain(token)
      BY <2>2 DEF CoreParse, ServerParse
    <2> DEFINE c == Plain(token)
               e == Event(packet)
               j == EventToJson(e)
    <2>4. c.key = token.key /\ c.word = token.rest
      BY DEF Plain, Condition
    <2> HIDE DEF c, e, j
    <2>5. CoreMatch(c, e) <=> ServerMatch(c, j)
      <3>1. e = Event(packet) /\ j = EventToJson(e) /\ Len(e.data) <= JsonBytes
        BY DEF e, j
      <3>2. CASE token.key \in PatternKeys
        <4>1. c.word.js = c.word.std /\ c.word.text # Nothing
          BY <2>4, <3>2 DEF CoreReadsAlike, PatternKeys, Nothing
        <4>2. QED BY <2>1, <2>4, <3>1, <3>2, <4>1, CorePatterns
      <3>3. CASE token.key \in CountKeys
        <4>1. JsNumber(c.word) = Stoull(c.word)
          BY <2>4, <3>3 DEF CoreReadsAlike, CountKeys
        <4>2. QED BY <2>1, <2>4, <3>1, <3>3, <4>1, CoreCounts
      <3>4. CASE token.key = "dir"
        <4>1. \/ Up(c.word) \/ Down(c.word)
              \/ ~FoundJs(c.word, "<<<") /\ ~FoundJs(c.word, ">>>")
          BY <2>4, <3>4 DEF CoreReadsAlike
        <4>2. QED BY <2>1, <2>4, <3>1, <3>4, <4>1, CoreDirections
      <3>5. QED BY <3>2, <3>3, <3>4
    <2>6. QED BY <2>3, <2>5, Zenon DEF c, e, j, CoreMatches, ServerMatches, Verdict
  <1>2. QED BY <1>1, FiltersInvCorrect, PTL
=============================================================================
