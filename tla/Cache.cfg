CONSTANTS
  Keys = {k1, k2, k3}
  Audio = {0, 1, 2, 4}
  NoAudio = none
  ConfigMaxBytes = 3
  ConfigTTL = 2
  ConfigEnabled = TRUE
  Reconfigures = TRUE
  MaxInsertions = 3
SPECIFICATION Spec
INVARIANTS
  BooksBalance
  NewestFirst
PROPERTIES
  HitsAreFresh
  EvictsExactlyEnough
  KeepsPromise
SYMMETRY Symmetry
