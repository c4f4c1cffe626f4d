\* The same inputs: some read ends inside the head of a Cluster.
CONSTANTS
  Movies <- MCMovies
  BufferLength = 12
  SegmentLength = 4
  HeadLengthMax = 5
  OverheadMax = 2
SPECIFICATION Spec
INVARIANT KeepsUnprocessed
CHECK_DEADLOCK FALSE
