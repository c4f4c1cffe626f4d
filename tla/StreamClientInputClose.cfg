\* One consumer, whose publisher disconnects.
CONSTANTS
  Consumers = {c1}
  None = None
  PacketSize = 2
  FragmentLengths = {9, 11}
  HeaderLengths = {1}
  UninitialisedLengths = {0}
  MaxAge = 1
SPECIFICATION FairSpec
PROPERTY InputCloseClosesOutput
CHECK_DEADLOCK FALSE
