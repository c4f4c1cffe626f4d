\* Three publishers, three pushes.
CONSTANTS
  FragmentLengths = {1, 2}
  HeaderLengths = {1, 2}
  UninitialisedLengths = {0, 3}
  MaxAge = 3
  MaxPublishers = 3
SPECIFICATION Spec
INVARIANTS TypeOK ReleasedInOrder
PROPERTIES OneMovieAtATime PublishesAsStream
CHECK_DEADLOCK FALSE
