\* One consumer, overtaken in the middle of a fragment.
CONSTANTS
  Consumers = {c1}
  None = None
  PacketSize = 2
  FragmentLengths = {9, 11}
  HeaderLengths = {1}
  UninitialisedLengths = {0}
  MaxAge = 2
SPECIFICATION Spec
INVARIANT PacketsOfOneFragment
CHECK_DEADLOCK FALSE
