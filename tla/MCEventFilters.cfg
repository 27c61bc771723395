CONSTANTS
  Packets <- MCPackets
  NoPacket = nopacket
  JsonBytes = 8
  ExactBelow = 8
  Grain = 4
  Tokens <- MCTokens
  NoToken = notoken
  Protocols = {"", "HID"}
  Commands = {"", "GET"}
  Summaries = {"summary"}
  Numbers = {1}
  Hex <- MCHex
  U64 = 1000000
SPECIFICATION Spec
INVARIANTS
  ExportReadsBack
  WebExportReadsBack
  ViewIsExport
  CoreAgrees
CHECK_DEADLOCK FALSE
