\* Lengths in units of 12 KB, half a packet: MINIMAL_FRAGMENT_LENGTH is nine of
\* them, which makes five packets, and eleven make six. A slow consumer is
\* overtaken by pushes, replaced by the other one, and loses its peer.
CONSTANTS
  Consumers = {c1, c2}
  None = None
  PacketSize = 2
  FragmentLengths = {9, 11}
  HeaderLengths = {1}
  UninitialisedLengths = {0, 1}
  MaxAge = 3
SYMMETRY Symmetry
SPECIFICATION Spec
INVARIANTS TypeOK OneContinuation PacketInBounds NoResend NeverWaitsMidFragment
PROPERTY WholeFragmentUnlessOvertaken
CHECK_DEADLOCK FALSE
