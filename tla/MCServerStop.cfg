SPECIFICATION FairSpec
CONSTANTS
  a = a
  b = b
  ch = ch
  pat = pat
  Client = {a, b}
  Attentive = {a}
  Channel = {ch}
  Pattern = {}
  Matches = {}
  Menus <- MCStopMenus
  Cap = 1
  NoName = NoName
  NotAString = NotAString
  NoClient = NoClient
PROPERTIES
  RequestsFinish
  StopEnds
  ConnectionsEnd
CHECK_DEADLOCK FALSE
