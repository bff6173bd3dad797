CONSTANTS
  Sessions = {s1}
  Coord = {unset}
  Unset = unset
  NoValue = noValue
  NoSession = noSession
  ReapCalled = TRUE
SPECIFICATION FairSpec
PROPERTIES
  KillEndsSession
  OverStopsProducer
  PlayedOutIsRemoved
  UpdateReturns
  PositionAnnounced
