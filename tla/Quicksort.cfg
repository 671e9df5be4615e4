CONSTANTS
  Keys = {1, 2, 3}
  MaxArray = 5
SPECIFICATION CsortSpec
INVARIANTS QuicksortSorts
CHECK_DEADLOCK FALSE
