CONSTANTS
  r1 = r1
  r2 = r2
  r3 = r3
  r4 = r4
  f1 = f1
  m1 = m1
  bad = bad
  Requests = {r1, r2, r3, r4}
  Styles = {f1, m1, bad}
  StyleOf <- MCStyleOf
  Readable = {f1, m1}
  NoStyle = noStyle
  NoAudio = noAudio
  MaxConcurrent = 2
CHECK_DEADLOCK FALSE
SPECIFICATION FairSpec
INVARIANTS
  OwnAudio
PROPERTIES
  KeepsLimit
  EveryRequestEnds
