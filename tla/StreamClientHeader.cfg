\* One consumer, connected before any publisher; header_length_ starts with garbage.
CONSTANTS
  Consumers = {c1}
  None = None
  PacketSize = 2
  FragmentLengths = {9, 11}
  HeaderLengths = {1}
  UninitialisedLengths = {0, 1}
  MaxAge = 1
SPECIFICATION Spec
INVARIANT WaitsForHeader
CHECK_DEADLOCK FALSE
