CONSTANTS
  Sessions = {s1}
  Coord = {unset, c1}
  Unset = unset
  NoValue = noValue
  NoSession = noSession
  ReapCalled = FALSE
SPECIFICATION Spec
INVARIANTS
  TypeOK
  CallbackSafe
  NotFoundMeansOver
  NoStalePosition
