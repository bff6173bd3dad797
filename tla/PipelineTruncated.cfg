CONSTANTS
  r1 = r1
  r2 = r2
  r3 = r3
  k1 = k1
  k2 = k2
  NoKey = tone
  NoAudio = none
  Requests = {r1, r2, r3}
  Keys = {k1, k2}
  Audio <- MCAudio
  KeyOf <- MCKeyOf
  ProviderOf <- SocketAndRest
  Translated = {}
  Pieces = 2
CHECK_DEADLOCK FALSE
SPECIFICATION Spec
INVARIANTS
  NeverTruncated
