\* Three events, two projectors, channels of one, and a call of the store that
\* fails.
CONSTANTS
  MaxLog = 3
  Kinds <- MCKinds
  MaxNumber = 3
  MaxStarts = 2
  MaxFaults = 1
  Capacity = 1
  MaxRetries = 2
SPECIFICATION SpecProjector
INVARIANTS
  LossesAreKnown
  CountsAreExplained
  CountedTwiceByOverlap
PROPERTY CheckpointMovesForward
\* No more events, and nothing left to do.
CHECK_DEADLOCK FALSE
