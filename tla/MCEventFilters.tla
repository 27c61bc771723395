--------------------------- MODULE MCEventFilters ---------------------------
(* Packets of every transfer type with headers of several lengths, and the *)
(* tokens of every key, quoting, negation and comparison.                  *)
EXTENDS EventFilters

Eight == <<1, 2, 3, 4, 5, 6, 7, 8>>

\* One packet for each shape of header and data; the other fields follow.
MCPackets ==
  {[irp |-> IF n > 2 THEN 8 + n ELSE n, status |-> n % 2, function |-> 8, info |-> i, bus |-> 1,
    device |-> n, endpoint |-> 128 * (i % 2) + n, transfer |-> t, dataLength |-> Len(d) + n,
    room |-> room, stage |-> s, isoch |-> [frame |-> 7, packets |-> 1, errors |-> n],
    data |-> d, sec |-> 1, usec |-> IF n = 0 THEN 999999 ELSE 1000000]
     : n \in {0, 3}, i \in {1, 2}, t \in {ISO, INT, CTRL, BULK, 254}, room \in {0, 1, 12, 24},
       s \in {0, 1, 3}, d \in {<<>>, <<1>>, Eight, Append(Eight, 9)}}

MCHex(d) == CASE d = <<>> -> "" [] d = <<1>> -> "01" [] d = Eight -> "0102030405060708"
              [] d = Append(Eight, 9) -> "010203040506070809"

-----------------------------------------------------------------------------
(* Words.                                                                  *)

NoNumber == [form |-> "none", digits |-> 0, value |-> 0, tail |-> FALSE]
Digits(n) == [NoNumber EXCEPT !.form = "decimal", !.digits = n, !.value = n]
Word(text, within, js, std, number) ==
  [text |-> text, within |-> within, js |-> js, std |-> std, number |-> number]

\* A word without characters that mean something to a regular expression.
Simple(text, found, number) == Word(text, found, found, found, number)
Name(text, found) == Simple(text, found, NoNumber)

LongHex == {"0102030405060708", "010203040506070809"}
Hexes == {"01"} \cup LongHex
Texts == Hexes \cup {"USB", "HID", "default", "GET", "", "summary", "Bus Dev", "OK", "0xC0000001",
                     "ERROR", "ISO", "INT", "CTRL", "BULK", "UNKNOWN", "SETUP", "DATA",
                     "COMPLETE", "REQUEST", "<<<", ">>>"}

Empty == Simple("", Texts, [NoNumber EXCEPT !.form = "empty"])
GetOrSet == Word("get|set", {}, {"GET", "SETUP"}, {"GET", "SETUP"}, NoNumber)
OneThenEight == Word("01.*08", {}, LongHex, LongHex, [Digits(1) EXCEPT !.tail = TRUE])
\* std::regex knows no lookbehind.
EightAfterSeven == Word("(?<=07)08", {}, LongHex, {}, NoNumber)
Zero == Simple("0", Hexes \cup {"0xC0000001"}, Digits(0))
One == Simple("1", Hexes \cup {"0xC0000001"}, Digits(1))
Three == Simple("3", LongHex, Digits(3))
Minus == Simple("-1", {}, Digits(-1))
Ten == Simple("1e1", {}, [Digits(1) EXCEPT !.value = 10])
OneB == Simple("1b", {}, [Digits(1) EXCEPT !.tail = TRUE])
HexThree == Simple("0x3", {}, [form |-> "hex", digits |-> 0, value |-> 3, tail |-> FALSE])
Device3 == Simple("65539", {}, Digits(65539))

Names == {Name("usb", {"USB"}), Name("hid", {"HID"}), Name("get", {"GET"}), Name("ok", {"OK"}),
          Name("setup", {"SETUP"}), Name("bus", {"Bus Dev"}), GetOrSet, Empty}
Data == {Simple("01", Hexes, Digits(1)), OneThenEight, EightAfterSeven, Empty}
Counts == {Zero, One, Three, Minus, Ten, OneB, HexThree, Device3, Empty}

Up1 == Name("<", {"<<<"})  Up2 == Name("<<", {"<<<"})  Up3 == Name("<<<", {"<<<"})
Down1 == Name(">", {">>>"})  Down2 == Name(">>", {">>>"})  Down3 == Name(">>>", {">>>"})

-----------------------------------------------------------------------------
(* Tokens.                                                                 *)

Junk == Name("quoted", {})

\* Every quoting and negation of a token whose value is an operator and a rest.
Token(key, op, value, rest) ==
  [key : {key}, negate : BOOLEAN, quotes : {"no", "value", "all"}, op : {op}, value : {value},
   rest : {rest}, quoted : {Junk}]

Word1(key, words) == UNION {Token(key, "=", w, w) : w \in words}

\* A value that begins with > or < is no number and in none of the texts.
Compared(key, words) ==
  Word1(key, words) \cup UNION {Token(key, op, Name("compared", {}), w) : w \in words, op \in {"<", ">"}}

MCTokens ==
  UNION {Word1("protocol", Names), Word1("command", Names), Word1("phase", Names),
         Word1("device", Names), Word1("status", Names \cup {Zero}), Word1("data", Data),
         Word1("summary", Names),
         Compared("len", Counts), Compared("deviceid", Counts), Compared("seq", Counts),
         Compared("endpoint", Counts),
         Word1("dir", {Name("in", {"INT"}), Name("out", {}), Name("up", {"SETUP"}), Empty}),
         Token("dir", "<", Up3, Up2), Token("dir", "<", Up2, Up1),
         Token("dir", ">", Down3, Down2), Token("dir", ">", Down2, Down1),
         {t \in Word1("", Names \cup Data) : ~t.negate /\ t.quotes # "value"}}
=============================================================================
