SPECIFICATION Spec
CONSTANTS
  a = a
  b = b
  ch = ch
  pat = pat
  Client = {a, b}
  Attentive = {}
  Channel = {ch}
  Pattern = {pat}
  Matches <- MCMatches
  Menus <- MCMenus
  Cap = 2
  NoName = NoName
  NotAString = NotAString
  NoClient = NoClient
INVARIANTS
  TypeOK
  ModeMatchesHub
  LeftTheHub
  NoMessageAfterUnsubscribe
  StreamTellsWhatRan
  QuietAfterStop
CHECK_DEADLOCK FALSE
