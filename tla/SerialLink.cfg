SPECIFICATION FairSpec
CONSTANTS
  a = a
  b = b
  End <- MCEnd
  Window = 1
  PendingLimit = 1
  OutboundCap = 1
  EventCap = 1
  MessageLimit = 2
  Fragments <- MCFragments
  Asking <- MCAsking
  MaxMessages <- MCMaxMessages
  MaxLinks = 2
  MaxTroubles = 1
INVARIANTS  LinkHasSession
PROPERTIES  PortReleased
CHECK_DEADLOCK FALSE
