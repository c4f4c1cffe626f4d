\* The first push already shows a size one byte short.
CONSTANTS
  MINIMAL_FRAGMENT_LENGTH = 50
  CAPACITY = 100
  CLUSTER_HEAD_LENGTH = 19
  CLUSTER_LENGTH_LAST_OFFSET = 8
  INITIAL_CLUSTER_LENGTH = 10
  SignBit = 4
  Timecodes = {1, 5}
  Lengths = {20, 35}
  MaxElements = 7
SPECIFICATION Spec
INVARIANT ClusterSizeExact
CHECK_DEADLOCK FALSE
