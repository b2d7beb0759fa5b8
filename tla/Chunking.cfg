SPECIFICATION Spec
CONSTANTS
  MaxLines = 5
  MaxLength = 8
  MaxSize = 5
INVARIANTS NothingLost ListsHoldTogether FragmentsCover
CHECK_DEADLOCK FALSE
