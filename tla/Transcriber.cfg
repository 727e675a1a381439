SPECIFICATION LiveSpec
CHECK_DEADLOCK FALSE
CONSTANTS
  a = a
  Tasks <- MCTasks
  Requests <- MCRequests
  Recordings <- MCRecordings
  Speech <- MCSpeech
  Attempts = 2
  MaxPosts = 5
  MaxCrashes = 1
  ChunkLength = 4
  Overlap = 2
  GlueMax = 4
INVARIANTS
  OneInference
  FilesAreAccountedFor
  StitchedWithinBounds
PROPERTIES
  EveryRequestIsAnswered
