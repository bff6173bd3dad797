CONSTANTS
  redPassword = redPassword
  bluePassword = bluePassword
  newPassword = newPassword
  Configured <- MCConfigured
  Expected <- MCExpected
  NoPassword = noPassword
  NoMessage = noMessage
  FreqCounts = {1, 6147, 6148}
  FrameSizes = {3, 4000}
  MaxUpdates = 3
  MaxOthers = 2
CHECK_DEADLOCK FALSE
SPECIFICATION FairSpec
INVARIANTS
  AuthSound
  WireIsWhole
PROPERTIES
  HandshakeEnds
