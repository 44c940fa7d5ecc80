CONSTANTS
  Elems <- IntElems
  Vals <- MCVals
  Modes <- AllModes
  Cap = 2
  MaxSends = 4
  Garbage = Garbage
SPECIFICATION Spec
INVARIANT TypeOK
INVARIANT RoundTrip
CHECK_DEADLOCK FALSE
