\* Fragments of two or three blocks; a fifth block, or a cluster head after the
\* fourth, does not fit. Timecode 5 is negative as a signed word.
CONSTANTS
  MINIMAL_FRAGMENT_LENGTH = 50
  CAPACITY = 100
  CLUSTER_HEAD_LENGTH = 19
  CLUSTER_LENGTH_LAST_OFFSET = 8
  INITIAL_CLUSTER_LENGTH = 10
  SignBit = 4
  Timecodes = {1, 5}
  Lengths = {20, 35}
  MaxElements = 7
SPECIFICATION Spec
INVARIANTS TypeOK TimecodeKept ClustersTile GopFits
PROPERTIES PushedImmutable CutAtKeyFrames
CHECK_DEADLOCK FALSE
