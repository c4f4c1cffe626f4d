\* A buffer of twelve bytes, reads of every length, one or two pieces per read.
CONSTANTS
  Movies <- MCMovies
  BufferLength = 12
  SegmentLength = 4
  HeadLengthMax = 5
  OverheadMax = 2
SPECIFICATION FairSpec
INVARIANTS TypeOK BufferExact OneByOne NothingWaits FullOnlyIfOversize HeaderFits
PROPERTY OnReadReturns
CHECK_DEADLOCK FALSE
