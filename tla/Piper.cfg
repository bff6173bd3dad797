CONSTANTS
  t1 = t1
  t2 = t2
  t3 = t3
  t4 = t4
  m1 = m1
  m2 = m2
  Threads = {t1, t2, t3, t4}
  Models = {m1, m2}
  ModelOf <- MCModelOf
  Synths = {x1, x2, x3}
  NoSynth = null
  NoModel = none
  MaxConcurrent = 2
  MaxIdlePerModel = 1
CHECK_DEADLOCK FALSE
SPECIFICATION FairSpec
INVARIANTS
  NoLostWakeup
  ExclusiveUse
  LoadedBounded
  OwnVoice
PROPERTIES
  KeepsLimit
  EveryRequestEnds
