SPECIFICATION Spec
CONSTANTS
  Workers = {w1, w2}
  MaxRounds = 3
  MaxMessages = 2
  MaxLosses = 1
SYMMETRY Symmetry
INVARIANTS TypeOK OneTaskPerRound NothingStranded
PROPERTIES StoredIsCurrent DecidedStands
CHECK_DEADLOCK FALSE
