\* Three pages at most in memory, three frames of which one has no count.
CONSTANTS
  Entries = 2
  Layouts <- MCLayouts
  Readable = 16
  Frames <- MCFrames
  FrameLimit = 2
  MaxCount = 2
  Commands <- MCCommands
SPECIFICATION PSpec
INVARIANTS PTypeOK ExactWhenStill WithinAreas ListedInOrder TablesExact
