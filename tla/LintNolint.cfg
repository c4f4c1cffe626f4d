SPECIFICATION Spec
CONSTANTS
  SmallNamespace = 3
  CopyrightLines = 2
  SmallClass = 2
  NormalTrigger = 1
  TestTrigger = 2
  CppHeaders <- MCCppHeaders
  OldCppHeaders <- MCOldCppHeaders
  Streams <- MCStreams
  Rank <- MCRank
  Contents <- MCContents
  SvnDirs <- MCSvnDirs
  RepositoryDirs <- MCRepositoryDirs
  Commands <- MCCommands
INVARIANT NolintSuppresses
CHECK_DEADLOCK FALSE
