\* Liveness: no symmetry, so a smaller bound on the pushes.
CONSTANTS
  Consumers = {c1, c2}
  None = None
  PacketSize = 2
  FragmentLengths = {9}
  HeaderLengths = {1}
  UninitialisedLengths = {0}
  MaxAge = 2
SPECIFICATION FairSpec
PROPERTIES EveryAgeReached FailureCloses
CHECK_DEADLOCK FALSE
