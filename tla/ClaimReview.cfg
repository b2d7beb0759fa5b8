SPECIFICATION Spec
CONSTANTS
  Workers = {w1, w2}
  MaxRounds = 2
  MaxMessages = 2
  MaxLosses = 1
SYMMETRY Symmetry
INVARIANT PublishedWasReviewed
CHECK_DEADLOCK FALSE
