CONSTANTS
  MaxMissions = 2
  Messages = {m1}
  StoresInOrder = TRUE
  Sessions = {s1}
  unit = unit
  static = static
  Units = {unit}
  Statics = {static}
  p1 = p1
  p2 = p2
  Places = {p1, p2}
  Home <- MCHome
  NoPlace = noPlace
  NoObject = noObject
CHECK_DEADLOCK FALSE
SPECIFICATION FairSpec
INVARIANTS
  ResultIsWhole
  SlotsHavePollers
  SurvivorsStartedLate
PROPERTIES
  EveryTranslateAnswered
  DeadObjectEndsSession
  TrackedPositionFollows
