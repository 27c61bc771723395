---------------------------- MODULE EventFilters ----------------------------
(***************************************************************************)
(* The three evaluators of one filter language: the command line's         *)
(* (filter_engine.cpp), the one behind the GUI's queries and exports       *)
(* (server.js) and the one behind its table (public/js/filter.js).  They   *)
(* split a text into conditions and test an event against all of them.     *)
(*                                                                         *)
(* A token is key:value or free text, and may be quoted as a whole or from *)
(* its value on (after the !).  "value" is its value, "op" the value's     *)
(* first character if that is > or < and otherwise =, "rest" what follows  *)
(* it, "quoted" the value with its quotes left in it.  Each of the three   *)
(* is a Word, which says of a string what the evaluators ask:              *)
(*   text    its lower-case spelling                                       *)
(*   within  the texts that contain it as it stands                        *)
(*   js, std the texts it is found in as a case-insensitive RegExp or      *)
(*           std::regex (or as it stands, where it does not compile)       *)
(*   number  the number it starts with: its form ("none", "empty",         *)
(*           "decimal", "hex"), its leading decimal digits (0 of 0x40),    *)
(*           its value (10 of 1e1), and whether more text follows it.      *)
(* Other spellings of the keys (proto, cmd, length, ep, ...) and keys that *)
(* begin with a colon are left out, and so are fractions.                  *)
(***************************************************************************)
EXTENDS EventFormats

CONSTANTS
  Tokens,     \* the tokens tried
  NoToken,
  Protocols, Commands, Summaries,  \* what the decoder may say of an event; "" is nothing
  Numbers,    \* the numbers the engine may give an event
  Hex(_),     \* BytesToHex and ExportEngine::ToHex, which write alike
  U64         \* unsigned 64-bit numbers are below (2^64)

VARIABLES token, decoded

\* Without an operator the value is all rest.
ASSUME TokensAssumption == /\ NoToken \notin Tokens /\ U64 \in Nat \ {0}
                           /\ \A t \in Tokens : t.op = "=" => t.rest = t.value

vars == <<packet, token, decoded>>

-----------------------------------------------------------------------------
(* Parsing.                                                                *)

Condition(key, negate, op, word) == [key |-> key, negate |-> negate, op |-> op, word |-> word]

FreeText(t) == Condition("_text", FALSE, "=", t.value)

\* A token quoted as a whole keeps its first quote in the key, which is then
\* unknown, in both JavaScript evaluators.
QuotedKey(t) == Condition("unknown", t.negate, t.op, t.rest)

Plain(t) == Condition(t.key, t.negate, t.op, t.rest)

\* (mutant of BrowserParse: a quoted value loses its negation)
BrowserParseQuoteFirst(t) ==
  IF t.key = "" THEN FreeText(t)
  ELSE IF t.quotes = "all" THEN QuotedKey(t)
  ELSE Condition(t.key, t.negate /\ t.quotes = "no", t.op, t.rest)

\* filter.js strips the quotes before it looks for an operator ...
BrowserParse(t) ==
  IF t.key = "" THEN FreeText(t)
  ELSE IF t.quotes = "all" THEN QuotedKey(t)
  ELSE Plain(t)

\* ... and server.js after.
ServerParse(t) ==
  IF t.key = "" THEN FreeText(t)
  ELSE IF t.quotes = "all" THEN QuotedKey(t)
  ELSE IF t.quotes = "value" THEN Condition(t.key, t.negate, "=", t.value)
  ELSE Plain(t)

\* std::quoted strips the quotes of a whole token and no others.
CoreParse(t) ==
  IF t.key = "" THEN FreeText(t)
  ELSE IF t.quotes = "value" THEN Condition(t.key, t.negate, "=", t.quoted)
  ELSE Plain(t)

-----------------------------------------------------------------------------
(* Matching.                                                               *)

\* matchString and _strMatch; includes; and MatchString of the core, where
\* an empty pattern is found in an empty value.
FoundJs(w, text) == text # "" /\ text \in w.js
Contains(w, text) == text # "" /\ text \in w.within
FoundStd(w, text) == (text = "" => w.text = "") /\ text \in w.std

\* The number a word is read as: a set of one, or of none if it is not one.
ParseFloat(w) == CASE w.number.form = "decimal" -> {w.number.value}
                   [] w.number.form = "hex" -> {w.number.digits}
                   [] OTHER -> {}

JsNumber(w) == IF w.number.tail THEN {}
               ELSE CASE w.number.form \in {"decimal", "hex"} -> {w.number.value}
                      [] w.number.form = "empty" -> {0}
                      [] OTHER -> {}

\* A negative number wraps, and one that does not fit throws.
Stoull(w) ==
  LET n == w.number.digits
  IN  IF w.number.form \in {"decimal", "hex"} /\ -U64 < n /\ n < U64 THEN {n % U64} ELSE {}

Compare(op, actual, numbers) == \E n \in numbers : CASE op = ">" -> actual > n
                                                     [] op = "<" -> actual < n
                                                     [] OTHER -> actual = n

Up(w) == w.text \in {"in", "<<<"}
Down(w) == w.text \in {"out", ">>>"}

\* matchDirection and _dirMatch fall back to a pattern ...
JsDirection(w, direction) == CASE Up(w) -> direction = "<<<"
                               [] Down(w) -> direction = ">>>"
                               [] OTHER -> FoundJs(w, direction)

\* ... and the core's MatchDirection does not.
CoreDirection(w, up) == CASE Up(w) -> up
                          [] Down(w) -> ~up
                          [] OTHER -> FALSE

StatusText(n) == IF n = 0 THEN "OK" ELSE "0xC0000001"

\* The texts and numbers of an event as JavaScript has them.
JsTexts(j) ==
  [protocol |-> IF decoded.protocol = "" THEN "USB" ELSE decoded.protocol,
   command |-> IF decoded.command = "" THEN "default" ELSE decoded.command,
   phase |-> j.phase, device |-> "Bus Dev", status |-> StatusText(j.statusCode),
   data |-> Hex(j.data)]

\* (mutant of JsNumbers: the server counts the bytes it was sent)
JsNumbersSent(j) == [len |-> Len(j.data), deviceid |-> j.bus * 65536 + j.deviceAddress,
                     seq |-> decoded.seq, endpoint |-> j.endpoint]

JsNumbers(j) == [len |-> j.dataLength, deviceid |-> j.bus * 65536 + j.deviceAddress,
                 seq |-> decoded.seq, endpoint |-> j.endpoint]

\* One condition in filter.js: data and free text as they stand, the other
\* texts as patterns.  An unknown key matches.
BrowserMatch(c, j) ==
  CASE c.key \in {"protocol", "device", "command", "status"} -> FoundJs(c.word, JsTexts(j)[c.key])
    [] c.key \in {"len", "deviceid", "seq"} -> Compare(c.op, JsNumbers(j)[c.key], ParseFloat(c.word))
    [] c.key = "dir" -> JsDirection(c.word, j.direction)
    [] c.key = "data" -> Contains(c.word, Hex(j.data))
    [] c.key = "_text" -> \E key \in {"protocol", "device", "command", "status", "data"} :
                            Contains(c.word, JsTexts(j)[key])
    [] OTHER -> TRUE

\* One condition in server.js: patterns throughout.
ServerMatch(c, j) ==
  CASE c.key \in {"protocol", "device", "command", "status", "phase", "data"} ->
         FoundJs(c.word, JsTexts(j)[c.key])
    [] c.key \in {"len", "deviceid", "seq", "endpoint"} ->
         Compare(c.op, JsNumbers(j)[c.key], JsNumber(c.word))
    [] c.key = "dir" -> JsDirection(c.word, j.direction)
    [] c.key = "_text" -> \E key \in DOMAIN JsTexts(j) : FoundJs(c.word, JsTexts(j)[key])
    [] OTHER -> TRUE

\* The texts and numbers of an event as the core has them.
CoreTexts(e) ==
  [protocol |-> decoded.protocol,
   command |-> IF decoded.command = "" THEN decoded.summary ELSE decoded.command,
   summary |-> decoded.summary, phase |-> Phase(e),
   transfer |-> IF e.transfer \in ISO..BULK THEN UsbTransferTypeName(e.transfer) ELSE "UNKNOWN",
   data |-> Hex(e.data)]

CoreNumbers(e) == [len |-> e.dataLength, deviceid |-> e.bus * 65536 + e.device,
                   seq |-> decoded.seq, endpoint |-> e.endpoint,
                   device |-> e.device, bus |-> e.bus, irp |-> e.irp]

\* One condition in filter_engine.cpp.
CoreMatch(c, e) ==
  CASE c.key \in {"protocol", "command", "summary", "phase", "transfer", "data"} ->
         FoundStd(c.word, CoreTexts(e)[c.key])
    [] c.key \in {"len", "deviceid", "seq", "endpoint", "device", "bus", "irp"} ->
         Compare(c.op, CoreNumbers(e)[c.key], Stoull(c.word))
    [] c.key = "dir" -> CoreDirection(c.word, e.up)
    [] c.key = "status" -> \/ Compare(c.op, e.status, Stoull(c.word))
                           \/ FoundStd(c.word, IF e.status = 0 THEN "OK" ELSE "ERROR")
    [] c.key = "_text" -> \/ FoundStd(c.word, decoded.command)
                          \/ \E key \in DOMAIN CoreTexts(e) \ {"command"} :
                               FoundStd(c.word, CoreTexts(e)[key])
    [] OTHER -> TRUE

Verdict(c, match) == IF c.negate THEN ~match ELSE match

BrowserMatches(t, j) == LET c == BrowserParse(t) IN Verdict(c, BrowserMatch(c, j))
ServerMatches(t, j) == LET c == ServerParse(t) IN Verdict(c, ServerMatch(c, j))
CoreMatches(t, e) == LET c == CoreParse(t) IN Verdict(c, CoreMatch(c, e))

-----------------------------------------------------------------------------
Init == /\ FormatsInit /\ token = NoToken
        /\ decoded = [protocol |-> "", command |-> "", summary |-> "", seq |-> 0]

Capture == /\ packet = NoPacket /\ Record
           /\ decoded' \in [protocol : Protocols, command : Commands, summary : Summaries,
                            seq : Numbers]
           /\ UNCHANGED token

Filter == /\ packet # NoPacket /\ token = NoToken
          /\ token' \in Tokens
          /\ UNCHANGED <<packet, decoded>>

Next == Capture \/ Filter

Spec == Init /\ [][Next]_vars

-----------------------------------------------------------------------------
\* The keys filter.js documents (lines 7-19).
Documented == {"protocol", "device", "command", "status", "dir", "len", "data", "deviceid",
               "seq", ""}

\* "Export filtered data only" (index.html:119): the table and the export
\* select the same events, for every key the GUI documents.
TableIsExport ==
  (token # NoToken /\ token.key \in Documented) =>
    LET j == EventToJson(Event(packet))
    IN  BrowserMatches(token, j) <=> ServerMatches(token, j)

\* DESIGN.md:264 has endpoint:0x81 in the filter of the web page, too.
EndpointFilters ==
  (token # NoToken /\ token.key = "endpoint") =>
    LET j == EventToJson(Event(packet))
    IN  BrowserMatches(token, j) <=> ServerMatches(token, j)

\* What a token must be for TableIsExport to hold of an event.  Data and free text:
\* found as it stands where it is found as a pattern, and nowhere in the
\* phase, which only the server searches.  Numbers: written so that
\* parseFloat and Number read the same one.  No operator inside quotes.
ReadAlike(t, j) ==
  /\ t.quotes = "value" => t.op = "="
  /\ t.key = "data" => (Contains(t.rest, Hex(j.data)) <=> FoundJs(t.rest, Hex(j.data)))
  /\ t.key = "" => /\ \A key \in {"protocol", "device", "command", "status", "data"} :
                        Contains(t.value, JsTexts(j)[key]) <=> FoundJs(t.value, JsTexts(j)[key])
                   /\ ~FoundJs(t.value, j.phase)
  /\ t.key \in {"len", "deviceid", "seq"} => ParseFloat(t.rest) = JsNumber(t.rest)

\* The export selects the events the table shows for every documented key,
\* quoted or negated in any way - except for the tokens the two read in
\* different ways, which are those ReadAlike leaves out and no others.
ViewIsExport ==
  (token # NoToken /\ token.key \in Documented) =>
    LET j == EventToJson(Event(packet))
    IN  ReadAlike(token, j) => (BrowserMatches(token, j) <=> ServerMatches(token, j))

\* The same of the command line and the GUI server: patterns on which the two
\* regular expression libraries agree, numbers that Number and stoull read
\* alike, and a direction by its name or one that no direction contains
\* (dir:<<< is neither: the core strips its first < and matches nothing).
CoreReadsAlike(t) ==
  /\ t.quotes = "no"
  /\ t.key \in {"protocol", "command", "phase", "data"} => t.rest.js = t.rest.std /\ t.rest.text # ""
  /\ t.key \in {"len", "deviceid", "seq", "endpoint"} => JsNumber(t.rest) = Stoull(t.rest)
  /\ t.key = "dir" => \/ Up(t.rest) \/ Down(t.rest)
                      \/ ~FoundJs(t.rest, "<<<") /\ ~FoundJs(t.rest, ">>>")

\* The command line selects what the GUI server would: for the keys both have
\* with one meaning and tokens both read alike, of an event whose protocol
\* and command the decoder knows and whose data fits the JSON.
CoreAgrees ==
  (token # NoToken /\ CoreReadsAlike(token)
     /\ token.key \in {"protocol", "command", "dir", "phase", "data",
                       "len", "deviceid", "seq", "endpoint"}) =>
    LET e == Event(packet)
    IN  (decoded.protocol # "" /\ decoded.command # "" /\ Len(e.data) <= JsonBytes) =>
          (CoreMatches(token, e) <=> ServerMatches(token, EventToJson(e)))
=============================================================================
